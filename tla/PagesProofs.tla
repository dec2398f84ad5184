----------------------------- MODULE PagesProofs -----------------------------
(***************************************************************************)
(* Proofs about what the pages make of the answers they get, for any       *)
(* number of browsers, vehicles, loads, documents and requests.            *)
(***************************************************************************)
EXTENDS FuelDesk, VehicleDesk, DocumentDesk, ExportPanel, TicketDesk, BudgetDesk,
        FiniteSetTheorems, SequenceTheorems, TLAPS

(* What is on its way afterwards was on its way before, or is one of X. *)
ComesFrom(new, old, X) == \A j \in DOMAIN new : new[j] \in X \/ \E k \in DOMAIN old : new[j] = old[k]

LEMMA SendingOne ==
  ASSUME NEW S, NEW s \in Seq(S), NEW e \in S
  PROVE  Append(s, e) \in Seq(S) /\ ComesFrom(Append(s, e), s, {e})
<1>1. /\ Append(s, e) \in Seq(S) /\ DOMAIN s = 1..Len(s)
      /\ DOMAIN Append(s, e) = 1..(Len(s) + 1) /\ Len(s) \in Nat
  OBVIOUS
<1>2. ASSUME NEW j \in 1..(Len(s) + 1)
      PROVE  Append(s, e)[j] = e \/ (j \in 1..Len(s) /\ Append(s, e)[j] = s[j])
  BY <1>1, AppendProperties
<1> QED
  BY <1>1, <1>2 DEF ComesFrom

LEMMA HandlingOne ==
  ASSUME NEW S, NEW s \in Seq(S), NEW i \in DOMAIN s, NEW e \in S
  PROVE  [s EXCEPT ![i] = e] \in Seq(S) /\ ComesFrom([s EXCEPT ![i] = e], s, {e})
BY DEF ComesFrom

LEMMA AnsweringOne ==
  ASSUME NEW S, NEW s \in Seq(S), NEW i \in DOMAIN s
  PROVE  RemoveAt(s, i) \in Seq(S) /\ ComesFrom(RemoveAt(s, i), s, {})
<1> DEFINE a == SubSeq(s, 1, i - 1)
           b == SubSeq(s, i + 1, Len(s))
<1>0. i \in 1..Len(s)
  OBVIOUS
<1>1. i \in 1..Len(s) /\ Len(s) \in Nat /\ DOMAIN s = 1..Len(s) /\ \A j \in 1..Len(s) : s[j] \in S
  OBVIOUS
<1>2. /\ a \in Seq(S) /\ Len(a) = i - 1
      /\ \A j \in 1..(i - 1) : a[j] = s[j]
  <2>1. \A j \in 1..(i - 1) : s[j] \in S
    BY <1>1
  <2> QED
    BY <1>1, <2>1, SubSeqProperties
<1>3. /\ b \in Seq(S) /\ Len(b) = Len(s) - i
      /\ \A j \in 1..(Len(s) - i) : b[j] = s[i + j]
  BY <1>0
<1>4. RemoveAt(s, i) = a \o b
  BY DEF RemoveAt
<1> HIDE DEF a, b
<1>5. /\ a \o b \in Seq(S) /\ Len(a \o b) = Len(s) - 1
      /\ \A j \in 1..(Len(s) - 1) : (a \o b)[j] = IF j <= i - 1 THEN a[j] ELSE b[j - (i - 1)]
  <2>1. /\ a \o b \in Seq(S) /\ Len(a \o b) = Len(a) + Len(b)
        /\ \A j \in 1..(Len(a) + Len(b)) : (a \o b)[j] = IF j <= Len(a) THEN a[j] ELSE b[j - Len(a)]
    BY <1>2, <1>3, ConcatProperties
  <2>2. Len(a) + Len(b) = Len(s) - 1
    BY <1>1, <1>2, <1>3
  <2> QED
    BY <1>2, <2>1, <2>2
<1>6. DOMAIN (a \o b) = 1..(Len(s) - 1)
  BY <1>5
<1>7. ASSUME NEW j \in 1..(Len(s) - 1)
      PROVE  \E k \in DOMAIN s : (a \o b)[j] = s[k]
  <2>1. CASE j <= i - 1
    <3>1. (a \o b)[j] = a[j]
      BY <1>5, <2>1
    <3>2. a[j] = s[j] /\ j \in 1..Len(s)
      BY <1>1, <1>2, <2>1
    <3> QED
      BY <1>1, <3>1, <3>2
  <2>2. CASE ~(j <= i - 1)
    <3> DEFINE k == j - (i - 1)
    <3>1. k \in 1..(Len(s) - i) /\ i + k \in 1..Len(s)
      BY <1>1, <2>2
    <3>2. (a \o b)[j] = b[k] /\ b[k] = s[i + k]
      BY <1>3, <1>5, <2>2, <3>1
    <3> QED
      BY <1>1, <3>1, <3>2
  <2> QED
    BY <2>1, <2>2
<1> QED
  BY <1>4, <1>5, <1>6, <1>7 DEF ComesFrom

-----------------------------------------------------------------------------
(* The page of the fuel loads *)

Dialogs == [load: Captured \cup {"none"}, verdict: Verdicts, applied: BOOLEAN, corrected: BOOLEAN, busy: BOOLEAN]

Decisions == [load: Captured, verdict: Verdicts, applied: BOOLEAN, correction: BOOLEAN,
              step: {"sent", "done", "refused"}]

(* No load is the "none" of a closed dialog. *)
FuelDeskTyped ==
  /\ decided \in [Captured -> {Pending, "APPROVED", "REJECTED"}]
  /\ listed \in [Reviewers -> SUBSET Captured]
  /\ dialog \in [Reviewers -> Dialogs]
  /\ decisions \in [Reviewers -> Seq(Decisions)]
  /\ told \subseteq [load: Captured, outcome: {"APPROVED", "REJECTED"}]

(* A decision that was made is the decision of its load, also on its way back. *)
Sound(request) == Valid(request) /\ (request.step = "done" => AlreadySo(request))

FuelDeskInv ==
  /\ FuelDeskTyped
  /\ \A word \in told : decided[word.load] = word.outcome
  /\ \A r \in Reviewers : \A i \in DOMAIN decisions[r] : Sound(decisions[r][i])

(* A step decides what was not decided, and what is on its way is sound. *)
LEMMA FuelDeskKeeps ==
  ASSUME FuelDeskInv, FuelDeskTyped',
         \A load \in Captured : decided[load] # Pending => decided'[load] = decided[load],
         \A word \in told' : word \in told \/ decided'[word.load] = word.outcome,
         NEW X, \A x \in X : x \in Decisions /\ Valid(x) /\ (x.step = "done" => decided'[x.load] = Outcome[x.verdict]),
         \A r \in Reviewers : decisions'[r] = decisions[r] \/ ComesFrom(decisions'[r], decisions[r], X)
  PROVE  FuelDeskInv'
<1>1. ASSUME NEW word \in told'
      PROVE  decided'[word.load] = word.outcome
  <2>1. CASE word \in told
    BY <2>1 DEF FuelDeskInv, FuelDeskTyped, Pending
  <2> QED
    BY <2>1
<1>2. ASSUME NEW x \in Decisions, Sound(x)
      PROVE  x.step = "done" => decided'[x.load] = Outcome[x.verdict]
  BY <1>2 DEF Sound, AlreadySo, Decisions, Verdicts, Outcome, Pending
<1>3. ASSUME NEW r \in Reviewers, NEW i \in DOMAIN decisions'[r]
      PROVE  Sound(decisions[r][i])'
  <2>1. PICK x : x = decisions'[r][i]
    OBVIOUS
  <2>2. x \in X \/ \E k \in DOMAIN decisions[r] : x = decisions[r][k]
    BY <2>1 DEF ComesFrom
  <2>3. x \in X \/ (x \in Decisions /\ Sound(x))
    BY <2>2 DEF FuelDeskInv, FuelDeskTyped
  <2>4. Valid(x) /\ (x.step = "done" => decided'[x.load] = Outcome[x.verdict])
    BY <1>2, <2>3 DEF Sound
  <2> QED
    BY <2>1, <2>4 DEF Sound, Valid, CorrectionRequired, AlreadySo
<1> QED
  BY <1>1, <1>3 DEF FuelDeskInv

LEMMA FuelDeskStep == FuelDeskInv /\ [FuelDeskNext]_fuelDeskVars => FuelDeskInv'
<1> SUFFICES ASSUME FuelDeskInv, [FuelDeskNext]_fuelDeskVars PROVE FuelDeskInv'
  OBVIOUS
<1>1. ASSUME UNCHANGED <<decided, decisions, told>>, listed' \in [Reviewers -> SUBSET Captured],
             dialog' \in [Reviewers -> Dialogs]
      PROVE  FuelDeskInv'
  BY <1>1 DEF FuelDeskInv, FuelDeskTyped, Sound, AlreadySo, Valid, CorrectionRequired
<1>2. CASE UNCHANGED fuelDeskVars
  BY <1>1, <1>2 DEF fuelDeskVars, FuelDeskInv, FuelDeskTyped
<1>3. ASSUME NEW r \in Reviewers, ReadLoads(r)
      PROVE  FuelDeskInv'
  BY <1>1, <1>3 DEF ReadLoads, Undecided, FuelDeskInv, FuelDeskTyped
<1>4. ASSUME NEW r \in Reviewers, CloseReview(r)
      PROVE  FuelDeskInv'
  BY <1>1, <1>4 DEF CloseReview, Closed, Dialogs, Verdicts, FuelDeskInv, FuelDeskTyped
<1>5. ASSUME NEW r \in Reviewers, NEW load \in Captured, NEW verdict \in Verdicts, StartReview(r, load, verdict)
      PROVE  FuelDeskInv'
  <2>1. OpenOn(load, verdict) \in Dialogs
    BY DEF OpenOn, Closed, Dialogs, Verdicts
  <2> QED
    BY <1>1, <1>5, <2>1 DEF StartReview, FuelDeskInv, FuelDeskTyped
<1>6. ASSUME NEW r \in Reviewers, EditReconciliation(r)
      PROVE  FuelDeskInv'
  <2>1. PICK verdict \in Verdicts, applied \in BOOLEAN, corrected \in BOOLEAN :
          dialog' = [dialog EXCEPT ![r].verdict = verdict, ![r].applied = applied, ![r].corrected = corrected]
    BY <1>6 DEF EditReconciliation
  <2>2. dialog' = [dialog EXCEPT ![r] = [dialog[r] EXCEPT !.verdict = verdict, !.applied = applied,
                                                          !.corrected = corrected]]
    BY <2>1 DEF FuelDeskInv, FuelDeskTyped
  <2>3. dialog[r] \in Dialogs
    BY DEF FuelDeskInv, FuelDeskTyped
  <2>4. dialog' \in [Reviewers -> Dialogs]
    BY <2>2, <2>3 DEF FuelDeskInv, FuelDeskTyped, Dialogs
  <2> QED
    BY <1>1, <1>6, <2>4 DEF EditReconciliation, FuelDeskInv, FuelDeskTyped
<1>7. ASSUME NEW r \in Reviewers, ConfirmDecision(r)
      PROVE  FuelDeskInv'
  <2> DEFINE d == dialog[r]
             sent == [load |-> d.load, verdict |-> d.verdict, applied |-> d.applied,
                      correction |-> Correction(d), step |-> "sent"]
  <2>1. d \in Dialogs /\ d.load # "none" /\ (CorrectionRequired(d) => d.corrected)
    BY <1>7 DEF ConfirmDecision, FuelDeskInv, FuelDeskTyped
  <2>2. sent \in Decisions
    BY <2>1 DEF Dialogs, Decisions, Correction
  <2>3. Valid(sent)
    BY <2>1 DEF Valid, Correction, CorrectionRequired, Dialogs
  <2>4. sent.step = "sent"
    OBVIOUS
  <2>5. /\ decisions' = [decisions EXCEPT ![r] = Append(@, sent)]
        /\ dialog' = [dialog EXCEPT ![r] = [d EXCEPT !.busy = TRUE]]
        /\ UNCHANGED <<decided, listed, told>>
    BY <1>7 DEF ConfirmDecision
  <2>6. [d EXCEPT !.busy = TRUE] \in Dialogs
    BY <2>1 DEF Dialogs
  <2> HIDE DEF d, sent
  <2>7. /\ Append(decisions[r], sent) \in Seq(Decisions)
        /\ ComesFrom(Append(decisions[r], sent), decisions[r], {sent})
    BY <2>2, SendingOne DEF FuelDeskInv, FuelDeskTyped
  <2>8. FuelDeskTyped'
    BY <2>5, <2>6, <2>7 DEF FuelDeskInv, FuelDeskTyped
  <2>9. \A q \in Reviewers : decisions'[q] = decisions[q] \/ ComesFrom(decisions'[q], decisions[q], {sent})
    BY <2>5, <2>7 DEF FuelDeskInv, FuelDeskTyped
  <2> QED
    BY <2>2, <2>3, <2>4, <2>5, <2>8, <2>9, FuelDeskKeeps
<1>8. ASSUME NEW r \in Reviewers, NEW i \in DOMAIN decisions[r], NEW allowed \in BOOLEAN,
             DecisionIsHandled(r, i, allowed)
      PROVE  FuelDeskInv'
  <2>1. PICK request : request = decisions[r][i]
    OBVIOUS
  <2>2. request \in Decisions /\ Valid(request) /\ request.step = "sent"
    BY <1>8, <2>1 DEF DecisionIsHandled, FuelDeskInv, FuelDeskTyped, Sound
  <2> DEFINE now == allowed /\ decided[request.load] = Pending
             ok == AlreadySo(request) \/ now
             handled == [request EXCEPT !.step = IF ok THEN "done" ELSE "refused"]
  <2>3. /\ decided' = IF now THEN [decided EXCEPT ![request.load] = Outcome[request.verdict]] ELSE decided
        /\ decisions' = [decisions EXCEPT ![r] = [decisions[r] EXCEPT ![i] = handled]]
        /\ UNCHANGED <<listed, dialog, made, told>>
    BY <1>8, <2>1, <2>2 DEF DecisionIsHandled
  <2>4. /\ handled \in Decisions /\ handled.load = request.load /\ handled.verdict = request.verdict
        /\ handled.applied = request.applied /\ handled.correction = request.correction
        /\ (handled.step = "done" => ok)
    BY <2>2 DEF Decisions
  <2>5. Valid(handled)
    BY <2>2, <2>4 DEF Valid, CorrectionRequired
  <2>6. request.load \in Captured /\ Outcome[request.verdict] \in {"APPROVED", "REJECTED"}
    BY <2>2 DEF Decisions, Verdicts, Outcome
  <2>7. handled.step = "done" => decided'[request.load] = Outcome[request.verdict]
    BY <2>3, <2>4, <2>6 DEF AlreadySo, FuelDeskInv, FuelDeskTyped
  <2>8. \A load \in Captured : decided[load] # Pending => decided'[load] = decided[load]
    BY <2>3 DEF FuelDeskInv, FuelDeskTyped
  <2>9. decided' \in [Captured -> {Pending, "APPROVED", "REJECTED"}]
    BY <2>3, <2>6 DEF FuelDeskInv, FuelDeskTyped
  <2> HIDE DEF handled, now, ok
  <2>10. /\ [decisions[r] EXCEPT ![i] = handled] \in Seq(Decisions)
         /\ ComesFrom([decisions[r] EXCEPT ![i] = handled], decisions[r], {handled})
    BY <2>4, HandlingOne DEF FuelDeskInv, FuelDeskTyped
  <2>11. FuelDeskTyped'
    BY <2>3, <2>9, <2>10 DEF FuelDeskInv, FuelDeskTyped
  <2>12. \A q \in Reviewers : decisions'[q] = decisions[q] \/ ComesFrom(decisions'[q], decisions[q], {handled})
    BY <2>3, <2>10 DEF FuelDeskInv, FuelDeskTyped
  <2>13. UNCHANGED told
    BY <2>3
  <2> QED
    BY <2>4, <2>5, <2>7, <2>8, <2>11, <2>12, <2>13, FuelDeskKeeps
<1>9. ASSUME NEW r \in Reviewers, NEW i \in DOMAIN decisions[r], NEW arrives \in BOOLEAN,
             DecisionIsAnswered(r, i, arrives)
      PROVE  FuelDeskInv'
  <2>1. PICK request : request = decisions[r][i]
    OBVIOUS
  <2>2. request \in Decisions /\ Sound(request)
    BY <2>1 DEF FuelDeskInv, FuelDeskTyped
  <2> DEFINE ok == arrives /\ request.step = "done"
             word == [load |-> request.load, outcome |-> Outcome[request.verdict]]
             rest == RemoveAt(decisions[r], i)
  <2>3. /\ decisions' = [decisions EXCEPT ![r] = rest]
        /\ told' = IF ok THEN told \cup {word} ELSE told
        /\ dialog' = [dialog EXCEPT ![r] = IF ok THEN Closed ELSE [dialog[r] EXCEPT !.busy = FALSE]]
        /\ listed' = [listed EXCEPT ![r] = IF ok THEN Undecided ELSE listed[r]]
        /\ UNCHANGED decided
    BY <1>9, <2>1 DEF DecisionIsAnswered, FuelDeskInv, FuelDeskTyped
  <2>4. word \in [load: Captured, outcome: {"APPROVED", "REJECTED"}]
    BY <2>2 DEF Decisions, Verdicts, Outcome
  <2>5. ok => decided'[word.load] = word.outcome
    BY <2>2, <2>3 DEF Sound, AlreadySo
  <2>6. rest \in Seq(Decisions) /\ ComesFrom(rest, decisions[r], {})
    BY AnsweringOne DEF FuelDeskInv, FuelDeskTyped
  <2>7. [dialog[r] EXCEPT !.busy = FALSE] \in Dialogs /\ Closed \in Dialogs
    <3>1. dialog[r] \in Dialogs
      BY DEF FuelDeskInv, FuelDeskTyped
    <3> QED
      BY <3>1 DEF Dialogs, Closed, Verdicts
  <2> HIDE DEF ok, word, rest
  <2>8. /\ told' \subseteq [load: Captured, outcome: {"APPROVED", "REJECTED"}]
        /\ \A w \in told' : w \in told \/ decided'[w.load] = w.outcome
    BY <2>3, <2>4, <2>5 DEF FuelDeskInv, FuelDeskTyped
  <2>9. dialog' \in [Reviewers -> Dialogs] /\ listed' \in [Reviewers -> SUBSET Captured]
    BY <2>3, <2>7 DEF FuelDeskInv, FuelDeskTyped, Undecided
  <2>10. decisions' \in [Reviewers -> Seq(Decisions)]
    BY <2>3, <2>6 DEF FuelDeskInv, FuelDeskTyped
  <2>11. FuelDeskTyped'
    BY <2>3, <2>8, <2>9, <2>10 DEF FuelDeskInv, FuelDeskTyped
  <2>12. \A q \in Reviewers : decisions'[q] = decisions[q] \/ ComesFrom(decisions'[q], decisions[q], {})
    BY <2>3, <2>6 DEF FuelDeskInv, FuelDeskTyped
  <2> QED
    BY <2>3, <2>8, <2>11, <2>12, FuelDeskKeeps
<1> QED
  BY <1>2, <1>3, <1>4, <1>5, <1>6, <1>7, <1>8, <1>9 DEF FuelDeskNext

(* What a reviewer was told stands, in any number of browsers: submitReview,  *)
(* submitReconciliation and reviewFuelLoadInTransaction.                     *)
THEOREM DecisionsStandHolds == FuelDeskSpec => []DecisionsStand
<1>1. FuelDeskInit => FuelDeskInv
  BY DEF FuelDeskInit, Closed, Dialogs, Verdicts, FuelDeskInv, FuelDeskTyped
<1>2. FuelDeskInv => DecisionsStand
  BY DEF FuelDeskInv, Sound, DecisionsStand
<1> QED
  BY <1>1, <1>2, FuelDeskStep, PTL DEF FuelDeskSpec

-----------------------------------------------------------------------------
(* The page of the vehicles *)

(* A dialog that is open is of a vehicle, and a form expects the state it shows. *)
VehicleDeskInv ==
  /\ VehicleDeskTypeOK /\ NothingOverwrittenUnseen
  /\ \A clerk \in Clerks : sheet[clerk].kind # "none" => sheet[clerk].car \in Cars
  /\ \A clerk \in Clerks : \A i \in DOMAIN forms[clerk] : forms[clerk][i].expected = forms[clerk][i].shown

LEMMA VehicleDeskKeeps ==
  ASSUME VehicleDeskInv, VehicleDeskTypeOK',
         \A edit \in edits' : edit \in edits \/ edit.base = edit.on,
         \A clerk \in Clerks : sheet'[clerk] \in {sheet[clerk], NoSheet},
         NEW X, \A x \in X : x.expected = x.shown,
         \A clerk \in Clerks : forms'[clerk] = forms[clerk] \/ ComesFrom(forms'[clerk], forms[clerk], X)
  PROVE  VehicleDeskInv'
<1>1. NothingOverwrittenUnseen'
  BY DEF VehicleDeskInv, NothingOverwrittenUnseen
<1>2. ASSUME NEW clerk \in Clerks, NEW i \in DOMAIN forms'[clerk]
      PROVE  forms'[clerk][i].expected = forms'[clerk][i].shown
  <2>1. forms'[clerk][i] \in X \/ \E k \in DOMAIN forms[clerk] : forms'[clerk][i] = forms[clerk][k]
    BY DEF ComesFrom
  <2> QED
    BY <2>1 DEF VehicleDeskInv
<1>3. ASSUME NEW clerk \in Clerks, sheet'[clerk].kind # "none"
      PROVE  sheet'[clerk].car \in Cars
  BY <1>3 DEF VehicleDeskInv, NoSheet
<1> QED
  BY <1>1, <1>2, <1>3 DEF VehicleDeskInv

LEMMA VehicleDeskStep == VehicleDeskInv /\ [VehicleDeskNext]_vehicleDeskVars => VehicleDeskInv'
<1> SUFFICES ASSUME VehicleDeskInv, [VehicleDeskNext]_vehicleDeskVars PROVE VehicleDeskInv'
  OBVIOUS
<1> USE DEF VehicleDeskTypeOK
<1>1. ASSUME VehicleDeskTypeOK', UNCHANGED <<forms, edits>>,
             \A c \in Clerks : sheet'[c] \in {sheet[c], NoSheet} \/ sheet'[c].car \in Cars
      PROVE  VehicleDeskInv'
  BY <1>1 DEF VehicleDeskInv, NothingOverwrittenUnseen, NoSheet
<1>2. CASE UNCHANGED vehicleDeskVars
  BY <1>1, <1>2 DEF vehicleDeskVars, VehicleDeskInv
<1>3. ASSUME NEW car \in Cars, NEW alive \in BOOLEAN
      PROVE  Changed(car, alive) \in [Cars -> Vehicles]
  <2>1. fleet[car] \in Vehicles /\ fleet \in [Cars -> Vehicles]
    BY DEF VehicleDeskInv
  <2>2. [fleet[car] EXCEPT !.updatedAt = @ + 1, !.active = alive] \in Vehicles
    <3>1. PICK v \in Vehicles : v = fleet[car]
      BY <2>1
    <3>2. PICK n \in Nat : n = v.updatedAt + 1
      BY DEF Vehicles
    <3>3. [v EXCEPT !.updatedAt = n, !.active = alive] \in Vehicles
      BY DEF Vehicles
    <3> QED
      BY <3>1, <3>2, <3>3
  <2>3. Changed(car, alive) = [fleet EXCEPT ![car] = [fleet[car] EXCEPT !.updatedAt = @ + 1, !.active = alive]]
    BY <2>1 DEF Changed
  <2> QED
    BY <2>1, <2>2, <2>3
<1>4. ASSUME NEW car \in Cars, ChangesElsewhere(car)
      PROVE  VehicleDeskInv'
  BY <1>1, <1>3, <1>4 DEF ChangesElsewhere, VehicleDeskInv
<1>5. ASSUME NEW clerk \in Clerks, ReadVehicles(clerk)
      PROVE  VehicleDeskInv'
  BY <1>1, <1>5 DEF ReadVehicles, VehicleDeskInv
<1>6. ASSUME NEW clerk \in Clerks, CloseSheet(clerk)
      PROVE  VehicleDeskInv'
  BY <1>1, <1>6 DEF CloseSheet, NoSheet, Sheets, VehicleDeskInv
<1>7. ASSUME NEW clerk \in Clerks, SubmitSheet(clerk)
      PROVE  VehicleDeskInv'
  <2> DEFINE s == sheet[clerk]
             sent == [kind |-> s.kind, car |-> s.car, shown |-> s.seen, expected |-> s.seen, step |-> "sent"]
  <2>1. s \in Sheets /\ s.kind # "none"
    BY <1>7 DEF SubmitSheet, VehicleDeskInv
  <2>2. s.car \in Cars
    BY <2>1 DEF VehicleDeskInv
  <2>3. sent \in Forms /\ sent.expected = sent.shown /\ s.kind \in Kinds
    BY <2>1, <2>2 DEF Sheets, Forms
  <2>4. /\ forms' = [forms EXCEPT ![clerk] = Append(forms[clerk], sent)]
        /\ busy' = [busy EXCEPT ![clerk] = busy[clerk] \cup {s.kind}]
        /\ sentForms' = sentForms + 1
        /\ sheet' = IF s.kind = "delete" THEN [sheet EXCEPT ![clerk] = NoSheet] ELSE sheet
        /\ UNCHANGED <<fleet, rows, conflict, edits>>
    BY <1>7 DEF SubmitSheet, Expected, VehicleDeskInv
  <2> HIDE DEF s, sent
  <2>5. Append(forms[clerk], sent) \in Seq(Forms) /\ ComesFrom(Append(forms[clerk], sent), forms[clerk], {sent})
    BY <2>3, SendingOne DEF VehicleDeskInv
  <2>6. VehicleDeskTypeOK'
    BY <2>3, <2>4, <2>5 DEF VehicleDeskInv, NoSheet, Sheets
  <2>7. \A c \in Clerks : forms'[c] = forms[c] \/ ComesFrom(forms'[c], forms[c], {sent})
    BY <2>4, <2>5 DEF VehicleDeskInv
  <2>8. \A c \in Clerks : sheet'[c] \in {sheet[c], NoSheet}
    BY <2>4 DEF VehicleDeskInv
  <2> QED
    BY <2>3, <2>4, <2>6, <2>7, <2>8, VehicleDeskKeeps
<1>8. ASSUME NEW clerk \in Clerks, NEW car \in Cars, NEW kind \in Kinds, OpenSheet(clerk, car, kind)
      PROVE  VehicleDeskInv'
  BY <1>1, <1>8 DEF OpenSheet, Sheets, Vehicles, VehicleDeskInv
<1>9. ASSUME NEW clerk \in Clerks, NEW i \in DOMAIN forms[clerk], NEW unique \in BOOLEAN,
             FormIsHandled(clerk, i, unique)
      PROVE  VehicleDeskInv'
  <2>1. PICK sent : sent = forms[clerk][i]
    OBVIOUS
  <2>2. sent \in Forms /\ sent.expected = sent.shown
    BY <2>1 DEF VehicleDeskInv
  <2> DEFINE ok == unique /\ MayChange(sent)
             gone == ~fleet[sent.car].active
             handled == [sent EXCEPT !.step = IF ok THEN "saved" ELSE IF gone THEN "gone" ELSE "conflict"]
             edit == [car |-> sent.car, base |-> sent.shown, on |-> fleet[sent.car].updatedAt]
             counts == ok /\ sent.kind # "delete"
  <2>3. /\ fleet' = IF ok THEN Changed(sent.car, sent.kind # "delete") ELSE fleet
        /\ edits' = IF counts THEN edits \cup {edit} ELSE edits
        /\ forms' = [forms EXCEPT ![clerk] = [forms[clerk] EXCEPT ![i] = handled]]
        /\ UNCHANGED <<rows, sheet, busy, conflict, sentForms>>
    BY <1>9, <2>1 DEF FormIsHandled, VehicleDeskInv
  <2>4. handled \in Forms /\ handled.expected = handled.shown
    BY <2>2 DEF Forms
  <2>5. sent.car \in Cars /\ sent.shown \in Nat /\ fleet[sent.car] \in Vehicles
    BY <2>2 DEF Forms, VehicleDeskInv
  <2>6. edit \in [car: Cars, base: Nat, on: Nat]
    BY <2>5 DEF Vehicles
  <2>7. counts => edit.base = edit.on
    BY <2>2 DEF MayChange
  <2>8. fleet' \in [Cars -> Vehicles]
    <3>1. (sent.kind # "delete") \in BOOLEAN
      OBVIOUS
    <3> QED
      BY <1>3, <2>3, <2>5, <3>1 DEF VehicleDeskInv
  <2> HIDE DEF ok, gone, handled, edit, counts
  <2>9. /\ [forms[clerk] EXCEPT ![i] = handled] \in Seq(Forms)
        /\ ComesFrom([forms[clerk] EXCEPT ![i] = handled], forms[clerk], {handled})
    BY <2>4, HandlingOne DEF VehicleDeskInv
  <2>10. VehicleDeskTypeOK'
    BY <2>3, <2>6, <2>8, <2>9 DEF VehicleDeskInv
  <2>11. \A c \in Clerks : forms'[c] = forms[c] \/ ComesFrom(forms'[c], forms[c], {handled})
    BY <2>3, <2>9 DEF VehicleDeskInv
  <2>12. \A e \in edits' : e \in edits \/ e.base = e.on
    BY <2>3, <2>7
  <2> QED
    BY <2>3, <2>4, <2>10, <2>11, <2>12, VehicleDeskKeeps
<1>10. ASSUME NEW clerk \in Clerks, NEW i \in DOMAIN forms[clerk], NEW arrives \in BOOLEAN,
              FormIsAnswered(clerk, i, arrives)
       PROVE  VehicleDeskInv'
  <2> DEFINE rest == RemoveAt(forms[clerk], i)
  <2>1. rest \in Seq(Forms) /\ ComesFrom(rest, forms[clerk], {})
    BY AnsweringOne DEF VehicleDeskInv
  <2>2. /\ forms' = [forms EXCEPT ![clerk] = rest] /\ UNCHANGED <<fleet, sentForms, edits>>
    BY <1>10 DEF FormIsAnswered, VehicleDeskInv
  <2>3. forms[clerk][i].kind \in Kinds
    <3>1. forms[clerk][i] \in Forms
      BY DEF VehicleDeskInv
    <3> QED
      BY <3>1 DEF Forms
  <2>4. /\ rows' \in [Clerks -> [Cars -> Vehicles]] /\ sheet' \in [Clerks -> Sheets]
        /\ busy' \in [Clerks -> SUBSET Kinds] /\ conflict' \in [Clerks -> SUBSET Kinds]
    BY <1>10, <2>3 DEF FormIsAnswered, VehicleDeskInv, NoSheet, Sheets
  <2> HIDE DEF rest
  <2>5. VehicleDeskTypeOK'
    BY <2>1, <2>2, <2>4 DEF VehicleDeskInv
  <2>6. \A c \in Clerks : forms'[c] = forms[c] \/ ComesFrom(forms'[c], forms[c], {})
    BY <2>1, <2>2 DEF VehicleDeskInv
  <2>7. \A c \in Clerks : sheet'[c] \in {sheet[c], NoSheet}
    BY <1>10 DEF FormIsAnswered, VehicleDeskInv
  <2> QED
    BY <2>2, <2>5, <2>6, <2>7, VehicleDeskKeeps
<1> QED
  BY <1>2, <1>4, <1>5, <1>6, <1>7, <1>8, <1>9, <1>10 DEF VehicleDeskNext

(* Nobody overwrites a state of a vehicle they have not seen: VehicleFormDialog, *)
(* OdometerCorrectionDialog, updateVehicle and correctVehicleOdometer.           *)
THEOREM NothingIsOverwrittenUnseen == VehicleDeskSpec => []NothingOverwrittenUnseen
<1>1. VehicleDeskInit => VehicleDeskInv
  BY DEF VehicleDeskInit, VehicleDeskInv, VehicleDeskTypeOK, NothingOverwrittenUnseen,
         Vehicles, NoSheet, Sheets
<1>2. VehicleDeskInv => NothingOverwrittenUnseen
  BY DEF VehicleDeskInv
<1> QED
  BY <1>1, <1>2, VehicleDeskStep, PTL DEF VehicleDeskSpec

-----------------------------------------------------------------------------
(* The page of the budgets *)

BudgetRows == Periods \X Units
Desks == [period: Periods, lens: Lenses, kept: Periods \X Lenses, edit: BudgetRows \cup {NoEdit},
          dialog: {"none", "mass", "pool"}]
Writes == [op: {"assign", "ALL", "UNASSIGNED", "pool"}, period: Periods, rows: SUBSET BudgetRows,
           state: {"sent", "done"}]

OfPeriod(rowSet, period) == rowSet \subseteq BudgetRows /\ \A row \in rowSet : row[1] = period

(* The answer of a query holds rows of the period of the query alone. *)
BudgetDeskInv ==
  /\ book \subseteq BudgetRows /\ desk \in Desks /\ writes \subseteq Writes /\ DOMAIN cache = Queries
  /\ \A query \in Queries : cache[query] = NoRead \/ OfPeriod(cache[query], query[1])
  /\ WrittenWhereShown

(* The table holds rows of the period on the page, whatever stands in for it. *)
LEMMA RowsAreOfThePeriod ==
  ASSUME BudgetDeskInv
  PROVE  OfPeriod(Rows(desk), desk.period)
<1>1. /\ <<desk.period, desk.lens>> \in Queries /\ desk.kept \in Queries
  BY DEF BudgetDeskInv, Desks, Queries, Lenses
<1>2. CASE Answered(<<desk.period, desk.lens>>)
  BY <1>1, <1>2 DEF BudgetDeskInv, Rows, Answered, OfPeriod
<1>3. CASE ~Answered(<<desk.period, desk.lens>>)
  <2>1. Rows(desk) = {} \/ (desk.kept[1] = desk.period /\ cache[desk.kept] # NoRead /\ Rows(desk) = cache[desk.kept])
    BY <1>3 DEF Rows, Placeholder
  <2> QED
    BY <1>1, <2>1 DEF BudgetDeskInv, OfPeriod
<1> QED
  BY <1>2, <1>3

(* A request that is made of rows of the period on the page. *)
LEMMA SendKeeps ==
  ASSUME BudgetDeskInv, NEW op \in {"assign", "ALL", "UNASSIGNED", "pool"},
         NEW rowSet, OfPeriod(rowSet, desk.period), Send(op, rowSet)
  PROVE  BudgetDeskInv'
<1> DEFINE new == [op |-> op, period |-> desk.period, rows |-> rowSet, state |-> "sent"]
<1>1. writes' = writes \cup {new} /\ UNCHANGED <<book, cache, asked, desk>>
  BY DEF Send
<1>2. new \in Writes /\ \A row \in new.rows : row[1] = new.period
  BY DEF BudgetDeskInv, OfPeriod, Writes, Desks
<1> HIDE DEF new
<1> QED
  BY <1>1, <1>2 DEF BudgetDeskInv, WrittenWhereShown, OfPeriod

LEMMA BudgetDeskStep == BudgetDeskInv /\ [BudgetDeskNext]_bookVars => BudgetDeskInv'
<1> SUFFICES ASSUME BudgetDeskInv, [BudgetDeskNext]_bookVars PROVE BudgetDeskInv'
  OBVIOUS
<1>1. ASSUME UNCHANGED <<book, cache, writes>>, desk' \in Desks
      PROVE  BudgetDeskInv'
  BY <1>1 DEF BudgetDeskInv, WrittenWhereShown
<1>2. CASE UNCHANGED bookVars
  BY <1>1, <1>2 DEF bookVars, BudgetDeskInv
<1>3. ASSUME NEW period \in Periods, NEW lens \in Lenses, Show(period, lens)
      PROVE  BudgetDeskInv'
  <2>1. desk \in Desks /\ <<desk.period, desk.lens>> \in Periods \X Lenses
    BY DEF BudgetDeskInv, Desks
  <2>2. desk' \in Desks
    BY <1>3, <2>1 DEF Show, Desks
  <2> QED
    BY <1>1, <1>3, <2>2 DEF Show
<1>4. ASSUME NEW query \in Queries, QueryIsAnswered(query)
      PROVE  BudgetDeskInv'
  <2>1. OfPeriod(Reads(query), query[1])
    BY DEF Reads, OfPeriod, BudgetDeskInv
  <2>2. cache' = [cache EXCEPT ![query] = Reads(query)] /\ UNCHANGED <<book, desk, writes>>
    BY <1>4 DEF QueryIsAnswered
  <2>3. DOMAIN cache' = Queries
    BY <2>2 DEF BudgetDeskInv
  <2>4. ASSUME NEW q \in Queries
        PROVE  cache'[q] = NoRead \/ OfPeriod(cache'[q], q[1])
    BY <2>1, <2>2 DEF BudgetDeskInv
  <2> QED
    BY <2>2, <2>3, <2>4 DEF BudgetDeskInv, WrittenWhereShown
<1>5. ASSUME NEW row \in Periods \X Units, StartEdit(row)
      PROVE  BudgetDeskInv'
  BY <1>1, <1>5 DEF StartEdit, BudgetDeskInv, Desks, BudgetRows
<1>6. CASE CancelEdit
  BY <1>1, <1>6 DEF CancelEdit, BudgetDeskInv, Desks
<1>7. CASE SaveEdit
  BY <1>7, RowsAreOfThePeriod, SendKeeps DEF SaveEdit, OfPeriod
<1>8. ASSUME NEW dialog_ \in {"mass", "pool"}, OpenDialog(dialog_)
      PROVE  BudgetDeskInv'
  BY <1>1, <1>8 DEF OpenDialog, BudgetDeskInv, Desks
<1>9. CASE CloseDialog
  BY <1>1, <1>9 DEF CloseDialog, BudgetDeskInv, Desks
<1>10. CASE SavePool
  BY <1>10, SendKeeps DEF SavePool, OfPeriod
<1>11. ASSUME NEW mode \in {"ALL", "UNASSIGNED"}, HandleMassAssign(mode)
       PROVE  BudgetDeskInv'
  <2>1. desk.period \in Periods /\ Universe(mode, desk.period) \subseteq Units
    BY DEF BudgetDeskInv, Desks, Universe
  <2>2. OfPeriod({desk.period} \X Universe(mode, desk.period), desk.period)
    BY <2>1 DEF OfPeriod, BudgetRows
  <2> QED
    BY <1>11, <2>2, SendKeeps DEF HandleMassAssign
<1>12. ASSUME NEW w \in writes, WriteIsHandled(w)
       PROVE  BudgetDeskInv'
  <2> DEFINE done == [w EXCEPT !.state = "done"]
  <2>1. w \in Writes /\ \A row \in w.rows : row[1] = w.period
    BY DEF BudgetDeskInv, WrittenWhereShown
  <2>2. done \in Writes /\ done.rows = w.rows /\ done.period = w.period
    BY <2>1 DEF Writes
  <2>3. {w.period} \X Reached(w) \subseteq BudgetRows
    <3>1. Reached(w) \subseteq Units
      BY <2>1 DEF Reached, Writes, BudgetRows
    <3> QED
      BY <2>1, <3>1 DEF Writes, BudgetRows
  <2>4. /\ book' = book \cup ({w.period} \X Reached(w)) /\ writes' = (writes \ {w}) \cup {done}
        /\ UNCHANGED <<cache, desk>>
    BY <1>12 DEF WriteIsHandled
  <2> HIDE DEF done
  <2>5. book' \subseteq BudgetRows /\ writes' \subseteq Writes
    BY <2>2, <2>3, <2>4 DEF BudgetDeskInv
  <2>6. WrittenWhereShown'
    BY <2>1, <2>2, <2>4 DEF BudgetDeskInv, WrittenWhereShown
  <2> QED
    BY <2>4, <2>5, <2>6 DEF BudgetDeskInv
<1>13. ASSUME NEW w \in writes, WriteSucceeds(w) \/ WriteFails(w)
       PROVE  BudgetDeskInv'
  <2>1. writes' = writes \ {w} /\ UNCHANGED <<book, cache>>
    BY <1>13 DEF WriteSucceeds, WriteFails
  <2>2. desk' \in Desks
    BY <1>13 DEF WriteSucceeds, WriteFails, BudgetDeskInv, Desks
  <2> QED
    BY <2>1, <2>2 DEF BudgetDeskInv, WrittenWhereShown
<1> QED
  BY <1>2, <1>3, <1>4, <1>5, <1>6, <1>7, <1>8, <1>9, <1>10, <1>11, <1>12, <1>13
     DEF BudgetDeskNext

(* A request of the page of the budgets writes to the period it was made on: *)
(* saveEdit and handleMassAssign of BudgetTable, with its placeholderData.    *)
THEOREM WritesGoWhereShown == BudgetDeskSpec => []WrittenWhereShown
<1>1. BudgetDeskInit => BudgetDeskInv
  <2> SUFFICES ASSUME BudgetDeskInit PROVE BudgetDeskInv
    OBVIOUS
  <2>1. desk \in Desks
    BY DEF BudgetDeskInit, Desks, Lenses, NoEdit
  <2>2. book \subseteq BudgetRows
    BY DEF BudgetDeskInit, BudgetRows
  <2>3. DOMAIN cache = Queries /\ \A query \in Queries : cache[query] = NoRead
    BY DEF BudgetDeskInit
  <2>4. writes = {}
    BY DEF BudgetDeskInit
  <2> QED
    BY <2>1, <2>2, <2>3, <2>4 DEF BudgetDeskInv, WrittenWhereShown
<1>2. BudgetDeskInv => WrittenWhereShown
  BY DEF BudgetDeskInv
<1> QED
  BY <1>1, <1>2, BudgetDeskStep, PTL DEF BudgetDeskSpec

-----------------------------------------------------------------------------
(* The panels of the exports and imports *)

AnyFilters == Filters \cup {NoFilters}
Jobs == [status: {"QUEUED", "COMPLETED", "FAILED", "GONE"}, filters: Filters]
Stored == [id: Nat, filters: AnyFilters]
Cached == [data: Nat, fresh: BOOLEAN, fetch: {"none", "sent", "read"}, answer: Nat]
Posts == [step: {"none", "sent", "refused", "made", "found"}, filters: AnyFilters, answer: Nat, mount: Nat]

IsJob(id) == id \in 1..Len(jobs)
JobOrNone(id) == id = 0 \/ IsJob(id)

PanelTyped ==
  /\ jobs \in Seq(Jobs) /\ panel \in {"export", "import"} /\ mounts \in Nat
  /\ filters \in AnyFilters /\ known \in BOOLEAN /\ mixedUp \in BOOLEAN
  /\ storage \in Stored /\ active \in Cached /\ posting \in Posts
  /\ JobOrNone(jobId) /\ JobOrNone(storage.id) /\ JobOrNone(active.data)
  /\ JobOrNone(active.answer) /\ JobOrNone(posting.answer)

(* A request that was sent is for the filters it was sent with, which are those *)
(* of the page as long as it stays open and they are not changed.               *)
PostInv ==
  /\ posting.mount <= mounts /\ (posting.step = "sent" => posting.filters \in Filters)
  /\ posting.step = "made" => IsJob(posting.answer) /\ jobs[posting.answer].filters = posting.filters
  /\ posting.step # "none" /\ posting.mount = mounts /\ panel = "export" /\ ~mixedUp => filters = posting.filters

StorageIsTrue == storage.filters # NoFilters => IsJob(storage.id) /\ jobs[storage.id].filters = storage.filters
PageIsTrue == known => jobId # 0 /\ (~mixedUp => jobs[jobId].filters = filters)

PanelInv == PanelTyped /\ PostInv /\ StorageIsTrue /\ PageIsTrue

LEMMA ActiveJobIsOne == PanelTyped => JobOrNone(ActiveJob)
<1> SUFFICES ASSUME PanelTyped PROVE JobOrNone(ActiveJob)
  OBVIOUS
<1>1. DOMAIN jobs = 1..Len(jobs)
  BY DEF PanelTyped
<1> QED
  BY <1>1 DEF ActiveJob, JobOrNone, IsJob

(* What the page shows after a change is a job that is known to be for its      *)
(* filters, or one that is not known.                                           *)
LEMMA ShowsWhatIs ==
  ASSUME PanelTyped, NEW id, JobOrNone(id), NEW isKnown \in BOOLEAN, NEW stored \in Stored,
         JobOrNone(stored.id), NEW cached \in Cached, JobOrNone(cached.data), JobOrNone(cached.answer),
         stored.filters # NoFilters => IsJob(stored.id) /\ jobs[stored.id].filters = stored.filters,
         Shows(id, isKnown, stored, cached), UNCHANGED jobs
  PROVE  /\ JobOrNone(jobId)' /\ known' \in BOOLEAN /\ storage' \in Stored /\ active' \in Cached
         /\ JobOrNone(storage.id)' /\ JobOrNone(active.data)' /\ JobOrNone(active.answer)'
         /\ StorageIsTrue'
         /\ known' = FALSE \/ (jobId' = id /\ known' = isKnown)
<1>1. CASE id = 0 /\ Usable(cached)
  <2>1. cached.data \in Nat /\ NoFilters \in AnyFilters
    BY DEF Cached, AnyFilters
  <2>2. storage' = [id |-> cached.data, filters |-> NoFilters] /\ jobId' = cached.data /\ known' = FALSE
        /\ active' = cached
    BY <1>1 DEF Shows
  <2>3. storage' \in Stored /\ storage'.id = cached.data /\ storage'.filters = NoFilters
    BY <2>1, <2>2 DEF Stored
  <2> QED
    BY <2>2, <2>3 DEF JobOrNone, IsJob, StorageIsTrue
<1>2. CASE ~(id = 0 /\ Usable(cached))
  BY <1>2 DEF Shows, JobOrNone, IsJob, StorageIsTrue
<1> QED
  BY <1>1, <1>2

(* The jobs of the user only grow in number, and stay for the same filters. *)
LEMMA JobsGrow ==
  ASSUME PanelInv, UNCHANGED <<panel, filters, jobId, known, mixedUp, storage, mounts>>,
         active' \in Cached, JobOrNone(active.data)', JobOrNone(active.answer)',
         jobs' \in Seq(Jobs), Len(jobs) <= Len(jobs'),
         \A j \in 1..Len(jobs) : jobs'[j].filters = jobs[j].filters,
         posting' \in Posts, JobOrNone(posting.answer)', PostInv'
  PROVE  PanelInv'
<1>1. \A id : IsJob(id) => id \in 1..Len(jobs') /\ jobs'[id].filters = jobs[id].filters
  BY DEF IsJob, PanelInv, PanelTyped
<1>2. PanelTyped'
  BY <1>1 DEF PanelInv, PanelTyped, JobOrNone, IsJob
<1>3. StorageIsTrue' /\ PageIsTrue'
  BY <1>1 DEF PanelInv, PanelTyped, StorageIsTrue, PageIsTrue, JobOrNone, IsJob
<1> QED
  BY <1>2, <1>3 DEF PanelInv

LEMMA PanelStep == PanelInv /\ [PanelNext]_panelVars => PanelInv'
<1> SUFFICES ASSUME PanelInv, [PanelNext]_panelVars PROVE PanelInv'
  OBVIOUS
<1> USE PanelConstants
<1>0. /\ PanelTyped /\ PostInv /\ StorageIsTrue /\ PageIsTrue
      /\ JobOrNone(jobId) /\ storage \in Stored /\ active \in Cached /\ posting \in Posts
      /\ JobOrNone(storage.id) /\ JobOrNone(active.data) /\ JobOrNone(active.answer) /\ JobOrNone(posting.answer)
      /\ (storage.filters # NoFilters => IsJob(storage.id) /\ jobs[storage.id].filters = storage.filters)
      /\ jobs \in Seq(Jobs) /\ known \in BOOLEAN
  BY DEF PanelInv, PanelTyped, StorageIsTrue
<1>1. CASE UNCHANGED panelVars
  <2>1. UNCHANGED <<panel, jobs, filters, jobId, known, mixedUp, storage, active, posting, mounts>>
    BY <1>1 DEF panelVars
  <2> QED
    BY <2>1, <1>0, JobsGrow DEF JobOrNone, IsJob, PostInv
<1>2. ASSUME NEW c \in Cached, JobOrNone(c.data), JobOrNone(c.answer)
      PROVE  Asked(c) \in Cached /\ JobOrNone(Asked(c).data) /\ JobOrNone(Asked(c).answer)
  BY <1>2 DEF Asked, Cached
<1>3. NothingCached \in Cached /\ JobOrNone(NothingCached.data) /\ JobOrNone(NothingCached.answer)
  BY DEF NothingCached, Cached, JobOrNone
<1>4. NothingStored \in Stored /\ JobOrNone(NothingStored.id) /\ NothingStored.filters = NoFilters
  BY DEF NothingStored, Stored, JobOrNone, AnyFilters
<1>5. NoPost \in Posts /\ JobOrNone(NoPost.answer) /\ NoPost.step = "none" /\ NoPost.mount = 0
      /\ NoPost.answer = 0 /\ 0 <= mounts /\ mounts \in Nat
  BY <1>0 DEF NoPost, Posts, JobOrNone, AnyFilters, PanelTyped
<1>6. ASSUME NEW reload \in BOOLEAN, Mount(reload)
      PROVE  PanelInv'
  <2> DEFINE cached == IF reload THEN NothingCached ELSE active
             toAsk == IF storage.id = 0 THEN Asked(cached) ELSE cached
  <2>1. toAsk \in Cached /\ JobOrNone(toAsk.data) /\ JobOrNone(toAsk.answer)
    BY <1>0, <1>2, <1>3
  <2>2. /\ Shows(storage.id, storage.filters # NoFilters, storage, toAsk)
        /\ mounts' = mounts + 1 /\ filters' = storage.filters /\ mixedUp' = FALSE
        /\ posting' = (IF reload THEN NoPost ELSE posting) /\ UNCHANGED <<panel, jobs>>
    BY <1>6 DEF Mount
  <2> HIDE DEF cached, toAsk
  <2>3. PICK isKnown \in BOOLEAN : (isKnown = TRUE) <=> storage.filters # NoFilters
    OBVIOUS
  <2>31. Shows(storage.id, isKnown, storage, toAsk) /\ UNCHANGED jobs
    BY <2>2, <2>3 DEF Shows
  <2>4. /\ JobOrNone(jobId)' /\ known' \in BOOLEAN /\ storage' \in Stored /\ active' \in Cached
        /\ JobOrNone(storage.id)' /\ JobOrNone(active.data)' /\ JobOrNone(active.answer)'
        /\ StorageIsTrue'
        /\ known' = FALSE \/ (jobId' = storage.id /\ known' = isKnown)
    BY <1>0, <2>1, <2>3, <2>31, ShowsWhatIs
  <2>5. PageIsTrue'
    <3> SUFFICES ASSUME known' PROVE jobId' # 0 /\ jobs'[jobId'].filters = filters'
      BY DEF PageIsTrue
    <3>1. jobId' = storage.id /\ isKnown = TRUE
      BY <2>4
    <3>2. IsJob(storage.id) /\ jobs[storage.id].filters = storage.filters
      BY <1>0, <2>3, <3>1
    <3> QED
      BY <2>2, <3>1, <3>2 DEF IsJob
  <2>6. PostInv' /\ posting' \in Posts /\ JobOrNone(posting.answer)'
    <3>1. posting'.mount \in Nat /\ posting'.mount <= mounts /\ mounts \in Nat
      BY <1>0, <1>5, <2>2 DEF PostInv, PanelTyped, Posts
    <3>2. posting'.mount # mounts' /\ posting'.mount <= mounts'
      BY <2>2, <3>1
    <3>3. posting' \in Posts /\ JobOrNone(posting.answer)'
      BY <1>0, <1>5, <2>2 DEF JobOrNone, IsJob
    <3>4. posting'.step = "sent" => posting'.filters \in Filters
      BY <1>0, <1>5, <2>2 DEF PostInv
    <3>5. posting'.step = "made" => IsJob(posting.answer)' /\ jobs'[posting'.answer].filters = posting'.filters
      BY <1>0, <1>5, <2>2 DEF PostInv, IsJob
    <3> QED
      BY <3>2, <3>3, <3>4, <3>5 DEF PostInv
  <2>7. PanelTyped'
    <3>1. jobs' \in Seq(Jobs) /\ panel' \in {"export", "import"} /\ mixedUp' \in BOOLEAN
      BY <1>0, <2>2 DEF PanelTyped
    <3>2. mounts' \in Nat
      BY <1>5, <2>2
    <3>3. storage.filters \in AnyFilters
      BY <1>0 DEF Stored
    <3> QED
      BY <2>2, <2>4, <2>6, <3>1, <3>2, <3>3 DEF PanelTyped
  <2> QED
    BY <2>4, <2>5, <2>6, <2>7 DEF PanelInv
<1>7. ASSUME Cleared, UNCHANGED <<panel, jobs, posting, mounts>>, filters' \in AnyFilters, mixedUp' \in BOOLEAN, PostInv'
      PROVE  PanelInv'
  <2> DEFINE cached == IF jobId # 0 THEN Asked(active) ELSE active
  <2>1. cached \in Cached /\ JobOrNone(cached.data) /\ JobOrNone(cached.answer)
    BY <1>0, <1>2
  <2>2. Shows(0, FALSE, NothingStored, cached) /\ JobOrNone(0)
    BY <1>7 DEF Cleared, JobOrNone
  <2> HIDE DEF cached
  <2>3. /\ JobOrNone(jobId)' /\ known' \in BOOLEAN /\ storage' \in Stored /\ active' \in Cached
        /\ JobOrNone(storage.id)' /\ JobOrNone(active.data)' /\ JobOrNone(active.answer)'
        /\ StorageIsTrue'
        /\ known' = FALSE
    BY <1>0, <1>4, <1>7, <2>1, <2>2, ShowsWhatIs
  <2>4. PanelTyped'
    BY <1>0, <1>7, <2>3 DEF PanelTyped, JobOrNone, IsJob
  <2> QED
    BY <1>7, <2>3, <2>4 DEF PanelInv, PageIsTrue
<1>8. CASE ChangeFilters
  <2>1. PostInv'
    BY <1>0, <1>8 DEF ChangeFilters, PostInv, IsJob, PanelTyped, Posts
  <2>2. mixedUp' \in BOOLEAN /\ filters' \in AnyFilters
    BY <1>8 DEF ChangeFilters, AnyFilters
  <2> QED
    BY <1>7, <1>8, <2>1, <2>2 DEF ChangeFilters
<1>9. CASE Discard
  <2>1. filters' \in AnyFilters /\ mixedUp' \in BOOLEAN
    BY <1>0, <1>9 DEF Discard, PanelTyped, AnyFilters
  <2>2. PostInv'
    BY <1>0, <1>9 DEF Discard, PostInv, IsJob
  <2> QED
    BY <1>7, <1>9, <2>1, <2>2 DEF Discard
<1>10. CASE ChooseFile
  <2>1. UNCHANGED <<panel, jobs, jobId, known, mixedUp, storage, active, posting, mounts>>
        /\ panel = "import" /\ jobId = 0 /\ filters' \in AnyFilters
    BY <1>10 DEF ChooseFile, AnyFilters
  <2>2. PanelTyped'
    BY <1>0, <2>1 DEF PanelTyped, JobOrNone, IsJob
  <2>3. PostInv' /\ StorageIsTrue' /\ PageIsTrue'
    BY <1>0, <2>1 DEF PostInv, StorageIsTrue, PageIsTrue, IsJob
  <2> QED
    BY <2>2, <2>3 DEF PanelInv
<1>11. ASSUME UNCHANGED <<panel, jobs, filters, jobId, known, mixedUp, storage, mounts>>,
              active' \in Cached, JobOrNone(active.data)', JobOrNone(active.answer)',
              posting' \in Posts, JobOrNone(posting.answer)', PostInv'
       PROVE  PanelInv'
  <2>1. jobs' \in Seq(Jobs) /\ Len(jobs) <= Len(jobs') /\ \A j \in 1..Len(jobs) : jobs'[j].filters = jobs[j].filters
    BY <1>0, <1>11
  <2> QED
    BY <1>11, <2>1, JobsGrow
<1>12. ASSUME UNCHANGED <<jobs, active>>
       PROVE  active' \in Cached /\ JobOrNone(active.data)' /\ JobOrNone(active.answer)'
  BY <1>0, <1>12 DEF JobOrNone, IsJob
<1>13. CASE Create
  <2>1. /\ posting' = [step |-> "sent", filters |-> filters, answer |-> 0, mount |-> mounts]
        /\ filters \in Filters
        /\ UNCHANGED <<panel, jobs, filters, jobId, known, mixedUp, storage, active, mounts>>
    BY <1>13 DEF Create, MayCreate
  <2>2. posting' \in Posts /\ JobOrNone(posting.answer)'
    BY <2>1, <1>0 DEF Posts, AnyFilters, PanelTyped, JobOrNone
  <2>3. PostInv'
    BY <2>1, <1>0 DEF PostInv, PanelTyped
  <2> QED
    BY <1>11, <1>12, <2>1, <2>2, <2>3
<1>14. CASE PostIsHandled
  <2>1. CASE ActiveJob = 0
    <3> DEFINE job == [status |-> InProgress, filters |-> posting.filters]
    <3>1. /\ posting.step = "sent" /\ jobs' = Append(jobs, job)
          /\ posting' = [posting EXCEPT !.step = "made", !.answer = Len(jobs) + 1]
          /\ UNCHANGED <<panel, filters, jobId, known, mixedUp, storage, active, mounts>>
      BY <1>14, <2>1 DEF PostIsHandled
    <3>2. posting.filters \in Filters /\ job \in Jobs
      BY <1>0, <3>1 DEF PostInv, Jobs, InProgress
    <3> HIDE DEF job
    <3>3. /\ jobs' \in Seq(Jobs) /\ Len(jobs) \in Nat /\ Len(jobs') = Len(jobs) + 1
          /\ jobs'[Len(jobs) + 1] = job /\ \A j \in 1..Len(jobs) : jobs'[j] = jobs[j]
      BY <1>0, <3>1, <3>2, AppendProperties
    <3>4. posting' \in Posts /\ posting'.step = "made" /\ posting'.answer = Len(jobs) + 1
          /\ posting'.filters = posting.filters /\ posting'.mount = posting.mount
      <4>1. PICK n \in Nat : n = Len(jobs) + 1
        BY <3>3
      <4> QED
        BY <1>0, <3>1, <4>1 DEF Posts
    <3>5. job.filters = posting.filters
      BY DEF job
    <3>6. PostInv' /\ JobOrNone(posting.answer)'
      BY <1>0, <3>1, <3>3, <3>4, <3>5 DEF PostInv, JobOrNone, IsJob
    <3>7. active' \in Cached /\ JobOrNone(active.data)' /\ JobOrNone(active.answer)'
      BY <1>0, <3>1, <3>3 DEF JobOrNone, IsJob
    <3>8. Len(jobs) <= Len(jobs') /\ \A j \in 1..Len(jobs) : jobs'[j].filters = jobs[j].filters
      BY <3>3
    <3> QED
      BY <3>1, <3>3, <3>4, <3>6, <3>7, <3>8, JobsGrow
  <2>2. CASE ActiveJob # 0
    <3>1. /\ posting' = [posting EXCEPT !.step = "refused"] /\ posting.step = "sent"
          /\ UNCHANGED <<panel, jobs, filters, jobId, known, mixedUp, storage, active, mounts>>
      BY <1>14, <2>2 DEF PostIsHandled
    <3>2. /\ posting' \in Posts /\ posting'.step = "refused" /\ posting'.answer = posting.answer
          /\ posting'.filters = posting.filters /\ posting'.mount = posting.mount
      BY <1>0, <3>1 DEF Posts
    <3>3. PostInv' /\ JobOrNone(posting.answer)'
      BY <1>0, <3>1, <3>2 DEF PostInv, JobOrNone, IsJob
    <3> QED
      BY <1>11, <1>12, <3>1, <3>2, <3>3
  <2> QED
    BY <2>1, <2>2
<1>15. CASE ActiveIsRead
  <2>1. /\ posting' = [posting EXCEPT !.step = "found", !.answer = ActiveJob] /\ posting.step = "refused"
        /\ UNCHANGED <<panel, jobs, filters, jobId, known, mixedUp, storage, active, mounts>>
    BY <1>15 DEF ActiveIsRead
  <2>2. JobOrNone(ActiveJob) /\ ActiveJob \in Nat
    BY <1>0, ActiveJobIsOne DEF JobOrNone, IsJob
  <2>3. /\ posting' \in Posts /\ posting'.step = "found" /\ posting'.answer = ActiveJob
        /\ posting'.filters = posting.filters /\ posting'.mount = posting.mount
    BY <1>0, <2>1, <2>2 DEF Posts
  <2>4. PostInv' /\ JobOrNone(posting.answer)'
    BY <1>0, <2>1, <2>2, <2>3 DEF PostInv, JobOrNone, IsJob
  <2> QED
    BY <1>11, <1>12, <2>1, <2>3, <2>4
<1>16. ASSUME NEW stored \in Stored, JobOrNone(stored.id), NEW isKnown \in BOOLEAN, Takes(stored, isKnown),
              stored.filters # NoFilters => IsJob(stored.id) /\ jobs[stored.id].filters = stored.filters,
              stored.id # 0, filters' \in AnyFilters,
              filters' = filters \/ (isKnown = FALSE /\ posting.mount = mounts),
              isKnown = TRUE /\ posting.mount = mounts /\ ~mixedUp => jobs[stored.id].filters = filters,
              posting' = NoPost, UNCHANGED <<panel, jobs, mixedUp, mounts>>
       PROVE  PanelInv'
  <2>1. PostInv' /\ posting' \in Posts /\ JobOrNone(posting.answer)'
    BY <1>5, <1>16 DEF PostInv, JobOrNone
  <2>2. CASE posting.mount = mounts
    <3>1. Shows(stored.id, isKnown, stored, active)
      BY <1>16, <2>2 DEF Takes
    <3>2. /\ JobOrNone(jobId)' /\ known' \in BOOLEAN /\ storage' \in Stored /\ active' \in Cached
          /\ JobOrNone(storage.id)' /\ JobOrNone(active.data)' /\ JobOrNone(active.answer)'
          /\ StorageIsTrue'
          /\ known' = FALSE \/ (jobId' = stored.id /\ known' = isKnown)
      BY <1>0, <1>16, <3>1, ShowsWhatIs
    <3>3. PanelTyped'
      BY <1>0, <1>16, <2>1, <3>2 DEF PanelTyped
    <3>4. PageIsTrue'
      BY <1>16, <2>2, <3>2 DEF PageIsTrue
    <3> QED
      BY <2>1, <3>2, <3>3, <3>4 DEF PanelInv
  <2>3. CASE posting.mount # mounts
    <3>1. storage' = stored /\ UNCHANGED <<jobId, known, active, filters, jobs, mixedUp>>
      BY <1>16, <2>3 DEF Takes
    <3>2. PanelTyped'
      BY <1>0, <1>16, <2>1, <3>1 DEF PanelTyped, JobOrNone, IsJob
    <3>3. PageIsTrue' /\ StorageIsTrue'
      BY <1>0, <1>16, <3>1 DEF PageIsTrue, StorageIsTrue, IsJob
    <3> QED
      BY <2>1, <3>2, <3>3 DEF PanelInv
  <2> QED
    BY <2>2, <2>3
<1>17. CASE PostIsAnswered
  <2>1. /\ posting.step = "made" /\ Takes(Remembered, panel = "export") /\ posting' = NoPost
        /\ UNCHANGED <<panel, jobs, filters, mixedUp, mounts>>
    BY <1>17 DEF PostIsAnswered
  <2>2. IsJob(posting.answer) /\ jobs[posting.answer].filters = posting.filters /\ posting.answer \in Nat
    BY <1>0, <2>1 DEF PostInv, Posts
  <2>3. PICK isKnown \in BOOLEAN : (isKnown = TRUE) <=> panel = "export"
    OBVIOUS
  <2>4. Takes(Remembered, isKnown)
    BY <2>1, <2>3 DEF Takes, Shows
  <2>5. /\ Remembered \in Stored /\ Remembered.id = posting.answer
        /\ Remembered.filters = IF panel = "export" THEN posting.filters ELSE NoFilters
    BY <1>0, <2>2 DEF Remembered, Stored, Posts, AnyFilters
  <2>6. isKnown = TRUE /\ posting.mount = mounts /\ ~mixedUp => jobs[posting.answer].filters = filters
    BY <1>0, <2>1, <2>2, <2>3 DEF PostInv
  <2>7. posting.answer # 0 /\ JobOrNone(posting.answer) /\ filters' \in AnyFilters
    BY <1>0, <2>1, <2>2 DEF IsJob, JobOrNone, PanelTyped
  <2> QED
    BY <1>16, <2>1, <2>2, <2>4, <2>5, <2>6, <2>7
<1>18. CASE ConflictIsAnswered
  <2> DEFINE stored == [id |-> posting.answer, filters |-> NoFilters]
  <2>1. /\ posting.answer # 0 /\ Takes(stored, FALSE)
        /\ filters' = (IF panel = "import" /\ posting.mount = mounts THEN NoFilters ELSE filters)
        /\ posting' = NoPost /\ UNCHANGED <<panel, jobs, mixedUp, mounts>>
    BY <1>18 DEF ConflictIsAnswered, KnowsFound
  <2>2. stored \in Stored /\ stored.id = posting.answer /\ stored.filters = NoFilters
    BY <1>0 DEF Stored, Posts, AnyFilters
  <2>3. filters' \in AnyFilters /\ (filters' = filters \/ posting.mount = mounts)
    BY <1>0, <2>1 DEF PanelTyped, AnyFilters
  <2> HIDE DEF stored
  <2> QED
    BY <1>0, <1>16, <2>1, <2>2, <2>3
<1>19. CASE PostFails
  <2>1. /\ posting' = NoPost
        /\ UNCHANGED <<panel, jobs, filters, jobId, known, mixedUp, storage, active, mounts>>
    BY <1>19 DEF PostFails
  <2>2. PostInv' /\ posting' \in Posts /\ JobOrNone(posting.answer)'
    BY <1>5, <2>1 DEF PostInv, JobOrNone
  <2> QED
    BY <1>11, <1>12, <2>1, <2>2
<1>20. ASSUME UNCHANGED <<jobs, posting, mounts, panel, mixedUp, filters>>
       PROVE  PostInv' /\ posting' \in Posts /\ JobOrNone(posting.answer)'
  BY <1>0, <1>20 DEF PostInv, JobOrNone, IsJob
<1>21. CASE ActiveQueryIsHandled
  <2>1. /\ active' = [active EXCEPT !.fetch = "read", !.answer = ActiveJob]
        /\ UNCHANGED <<panel, jobs, filters, jobId, known, mixedUp, storage, posting, mounts>>
    BY <1>21 DEF ActiveQueryIsHandled
  <2>2. JobOrNone(ActiveJob) /\ ActiveJob \in Nat
    BY <1>0, ActiveJobIsOne DEF JobOrNone, IsJob
  <2>3. active' \in Cached /\ active'.data = active.data /\ active'.answer = ActiveJob
    BY <1>0, <2>1, <2>2 DEF Cached
  <2>4. JobOrNone(active.data)' /\ JobOrNone(active.answer)'
    BY <1>0, <2>1, <2>2, <2>3 DEF JobOrNone, IsJob
  <2> QED
    BY <1>11, <1>20, <2>1, <2>3, <2>4
<1>22. ASSUME NEW c \in Cached, JobOrNone(c.data), JobOrNone(c.answer), Shows(jobId, known, storage, c),
              UNCHANGED <<panel, jobs, filters, mixedUp, posting, mounts>>
       PROVE  PanelInv'
  <2>1. /\ JobOrNone(jobId)' /\ known' \in BOOLEAN /\ storage' \in Stored /\ active' \in Cached
        /\ JobOrNone(storage.id)' /\ JobOrNone(active.data)' /\ JobOrNone(active.answer)'
        /\ StorageIsTrue'
        /\ known' = FALSE \/ (jobId' = jobId /\ known' = known)
    BY <1>0, <1>22, ShowsWhatIs
  <2>2. PostInv' /\ posting' \in Posts /\ JobOrNone(posting.answer)'
    BY <1>20, <1>22
  <2>3. PanelTyped'
    BY <1>0, <1>22, <2>1, <2>2 DEF PanelTyped
  <2>4. PageIsTrue'
    BY <1>0, <1>22, <2>1 DEF PageIsTrue
  <2> QED
    BY <2>1, <2>2, <2>3, <2>4 DEF PanelInv
<1>23. CASE ActiveQueryIsAnswered
  <2> DEFINE c == [data |-> active.answer, fresh |-> TRUE, fetch |-> "none", answer |-> 0]
  <2>1. c \in Cached /\ c.data = active.answer /\ c.answer = 0
    BY <1>0 DEF Cached
  <2>2. Shows(jobId, known, storage, c) /\ UNCHANGED <<panel, jobs, filters, mixedUp, posting, mounts>>
    BY <1>23 DEF ActiveQueryIsAnswered
  <2>3. JobOrNone(c.data) /\ JobOrNone(c.answer)
    BY <1>0, <2>1 DEF JobOrNone
  <2> HIDE DEF c
  <2> QED
    BY <1>22, <2>1, <2>2, <2>3
<1>24. CASE ActiveQueryFails
  <2> DEFINE c == [active EXCEPT !.fetch = "none", !.answer = 0]
  <2>1. c \in Cached /\ c.data = active.data /\ c.answer = 0
    BY <1>0 DEF Cached
  <2>2. Shows(jobId, known, storage, c) /\ UNCHANGED <<panel, jobs, filters, mixedUp, posting, mounts>>
    BY <1>24 DEF ActiveQueryFails
  <2>3. JobOrNone(c.data) /\ JobOrNone(c.answer)
    BY <1>0, <2>1 DEF JobOrNone
  <2> HIDE DEF c
  <2> QED
    BY <1>22, <2>1, <2>2, <2>3
<1>25. CASE CacheAges
  <2>1. /\ active' = [active EXCEPT !.fresh = FALSE]
        /\ UNCHANGED <<panel, jobs, filters, jobId, known, mixedUp, storage, posting, mounts>>
    BY <1>25 DEF CacheAges
  <2>2. active' \in Cached /\ active'.data = active.data /\ active'.answer = active.answer
    BY <1>0, <2>1 DEF Cached
  <2>3. JobOrNone(active.data)' /\ JobOrNone(active.answer)'
    BY <1>0, <2>1, <2>2 DEF JobOrNone, IsJob
  <2> QED
    BY <1>11, <1>20, <2>1, <2>2, <2>3
<1>26. CASE Poll
  BY <1>11, <1>12, <1>20, <1>26 DEF Poll
<1>27. CASE JobProceeds
  <2>1. PICK j \in DOMAIN jobs, status \in {"COMPLETED", "FAILED", "GONE"} : jobs' = [jobs EXCEPT ![j].status = status]
    BY <1>27 DEF JobProceeds, Ended
  <2>2. UNCHANGED <<panel, filters, jobId, known, mixedUp, storage, active, posting, mounts>>
    BY <1>27 DEF JobProceeds
  <2> DEFINE job == [jobs[j] EXCEPT !.status = status]
  <2>3. jobs[j] \in Jobs /\ DOMAIN jobs = 1..Len(jobs)
    BY <1>0
  <2>4. job \in Jobs /\ job.filters = jobs[j].filters
    BY <2>1, <2>3 DEF Jobs
  <2>5. jobs' = [jobs EXCEPT ![j] = job]
    BY <2>1
  <2> HIDE DEF job
  <2>6. /\ jobs' \in Seq(Jobs) /\ Len(jobs') = Len(jobs) /\ Len(jobs) <= Len(jobs')
        /\ \A k \in 1..Len(jobs) : jobs'[k].filters = jobs[k].filters
    BY <1>0, <2>3, <2>4, <2>5
  <2>7. /\ active' \in Cached /\ JobOrNone(active.data)' /\ JobOrNone(active.answer)'
        /\ posting' \in Posts /\ JobOrNone(posting.answer)'
    BY <1>0, <2>2, <2>6 DEF JobOrNone, IsJob
  <2>8. PostInv'
    BY <1>0, <2>2, <2>6 DEF PostInv, IsJob
  <2> QED
    BY <2>2, <2>6, <2>7, <2>8, JobsGrow
<1> QED
  BY <1>1, <1>6, <1>8, <1>9, <1>10, <1>13, <1>14, <1>15, <1>17, <1>18, <1>19, <1>21, <1>23,
     <1>24, <1>25, <1>26, <1>27
     DEF PanelNext

(* What a page says of a ZIP, and what is stored of it, is true of the job:    *)
(* handleCreateExport and clearExportJob of the pages, and VehicleImportDialog. *)
THEOREM ContextIsTrueHolds == PanelSpec => []ContextIsTrue
<1>1. PanelInit => PanelInv
  <2> SUFFICES ASSUME PanelInit PROVE PanelInv
    OBVIOUS
  <2>1. jobs = <<>> /\ <<>> \in Seq(Jobs) /\ jobId = 0 /\ known = FALSE /\ mixedUp = FALSE /\ mounts = 1
    BY DEF PanelInit
  <2>2. storage \in Stored /\ storage.id = 0 /\ storage.filters = NoFilters /\ filters \in AnyFilters
    BY DEF PanelInit, NothingStored, Stored, AnyFilters
  <2>3. active \in Cached /\ active.data = 0 /\ active.answer = 0
    BY DEF PanelInit, NothingCached, Cached
  <2>4. posting \in Posts /\ posting.answer = 0 /\ posting.step = "none" /\ posting.mount = 0
    BY DEF PanelInit, NoPost, Posts, AnyFilters
  <2>5. panel \in {"export", "import"}
    BY DEF PanelInit
  <2>6. PanelTyped
    BY <2>1, <2>2, <2>3, <2>4, <2>5 DEF PanelTyped, JobOrNone
  <2>7. PostInv
    BY <2>1, <2>4 DEF PostInv
  <2>8. StorageIsTrue /\ PageIsTrue
    BY <2>1, <2>2 DEF StorageIsTrue, PageIsTrue
  <2> QED
    BY <2>6, <2>7, <2>8 DEF PanelInv
<1>2. PanelInv => ContextIsTrue
  <2> SUFFICES ASSUME PanelInv PROVE ContextIsTrue
    OBVIOUS
  <2>1. IsJob(storage.id) => storage.id # 0
    BY DEF IsJob
  <2> QED
    BY <2>1 DEF PanelInv, StorageIsTrue, PageIsTrue, ContextIsTrue
<1> QED
  BY <1>1, <1>2, PanelStep, PTL DEF PanelSpec

-----------------------------------------------------------------------------
(* The documents of a vehicle *)

Papers == [state: {"none", "current", "expired", "gone"}, scan: Nat, edited: BOOLEAN]
Steps == {"none", "sent", "found", "locked", "refused", "saved", "failed"}
Saves == [step: Steps, paper: 0..MaxPapers, scan: Nat, clash: BOOLEAN]

PaperTyped ==
  /\ papers \in [1..MaxPapers -> Papers] /\ saves \in [Offices -> Saves]
  /\ paperSheet \in [Offices -> {NoDialog} \cup 0..MaxPapers] /\ sentSaves \in Nat /\ sentSaves <= MaxSaves

(* Whoever holds the vehicle holds it alone, and what it looked for is still so. *)
HeldByOne ==
  /\ \A o \in Offices : o \in holder <=> saves[o].step = "locked"
  /\ \A o, q \in Offices : o \in holder /\ q \in holder => o = q
  /\ \A o \in Offices : o \in holder /\ saves[o].clash = FALSE =>
       \A p \in 1..MaxPapers : papers[p].state # "current"

OneIsCurrent ==
  \A p, q \in 1..MaxPapers :
    papers[p].state = "current" /\ papers[q].state = "current" =>
      p = q \/ papers[p].edited = TRUE \/ papers[q].edited = TRUE

(* A scan belongs to one form on its way, or to documents, or to a commit that    *)
(* the API took for a failure; that of a form that was found is on the disk.      *)
ScansAreOwned ==
  /\ \A o \in Offices : saves[o].scan <= sentSaves
  /\ \A o, q \in Offices : saves[o].scan = saves[q].scan /\ saves[o].scan # 0 => o = q
  /\ \A p \in 1..MaxPapers : papers[p].scan <= sentSaves \/ papers[p].scan = MaxSaves + 1
  /\ \A p \in 1..MaxPapers, o \in Offices :
       papers[p].scan = saves[o].scan => papers[p].scan \in unsure \cup {0}
  /\ \A o \in Offices : saves[o].step \in {"found", "locked"} => saves[o].scan \in scans \cup {0}
  /\ \A p \in 1..MaxPapers : papers[p].scan \in scans \cup unsure \cup {0}

PaperInv == PaperTyped /\ HeldByOne /\ OneIsCurrent /\ ScansAreOwned

LEMMA PaperStep == PaperInv /\ [DocumentDeskNext]_documentDeskVars => PaperInv'
<1> SUFFICES ASSUME PaperInv, [DocumentDeskNext]_documentDeskVars PROVE PaperInv'
  OBVIOUS
<1> USE DocumentDeskConstants
<1>0. PaperTyped /\ HeldByOne /\ OneIsCurrent /\ ScansAreOwned /\ DOMAIN papers = 1..MaxPapers
  BY DEF PaperInv, PaperTyped
<1>a. NoSave \in Saves /\ NoSave.step = "none" /\ NoSave.scan = 0
  BY DEF NoSave, Saves, Steps
<1>b. ASSUME NEW step \in Steps, NEW scan \in Nat
      PROVE  LET s == [NoSave EXCEPT !.step = step, !.scan = scan]
             IN  s \in Saves /\ s.step = step /\ s.scan = scan
  BY <1>a DEF Saves
<1>1. ASSUME UNCHANGED <<papers, scans, holder, saves, sentSaves, unsure>>,
             paperSheet' \in [Offices -> {NoDialog} \cup 0..MaxPapers]
      PROVE  PaperInv'
  BY <1>0, <1>1 DEF PaperInv, PaperTyped, HeldByOne, OneIsCurrent, ScansAreOwned
<1>2. CASE UNCHANGED documentDeskVars
  BY <1>0, <1>1, <1>2 DEF documentDeskVars, PaperTyped
<1>3. ASSUME NEW o \in Offices, NEW p \in ListedOnce \cup {0}, OpenPaperSheet(o, p)
      PROVE  PaperInv'
  <2>1. p \in 0..MaxPapers
    BY <1>0 DEF ListedOnce
  <2> QED
    BY <1>0, <1>1, <1>3, <2>1 DEF OpenPaperSheet, PaperTyped
<1>4. ASSUME NEW o \in Offices, ClosePaperSheet(o)
      PROVE  PaperInv'
  BY <1>0, <1>1, <1>4 DEF ClosePaperSheet, PaperTyped
<1>5. ASSUME NEW o \in Offices, NEW withScan \in BOOLEAN, SavePaper(o, withScan)
      PROVE  PaperInv'
  <2> DEFINE name == IF withScan THEN sentSaves + 1 ELSE 0
             sent == [step |-> "sent", paper |-> paperSheet[o], scan |-> name, clash |-> FALSE]
  <2>1. /\ saves' = [saves EXCEPT ![o] = sent] /\ sentSaves' = sentSaves + 1 /\ sentSaves < MaxSaves
        /\ paperSheet[o] # NoDialog /\ saves[o].step = "none"
        /\ UNCHANGED <<papers, kept, scans, holder, paperSheet, unsure>>
    BY <1>5 DEF SavePaper
  <2>2. name \in Nat /\ name <= sentSaves + 1 /\ (name = 0 \/ name = sentSaves + 1)
    BY <1>0 DEF PaperTyped
  <2>3. paperSheet[o] \in 0..MaxPapers
    BY <1>0, <2>1 DEF PaperTyped
  <2> HIDE DEF name
  <2>4. sent \in Saves /\ sent.step = "sent" /\ sent.scan = name
    BY <2>2, <2>3 DEF Saves, Steps
  <2> HIDE DEF sent
  <2>5. saves'[o] = sent /\ \A q \in Offices : q # o => saves'[q] = saves[q]
    BY <1>0, <2>1 DEF PaperTyped
  <2>6. PaperTyped'
    BY <1>0, <2>1, <2>4 DEF PaperTyped
  <2>7. HeldByOne'
    BY <1>0, <2>1, <2>4, <2>5 DEF HeldByOne
  <2>8. /\ \A q \in Offices : saves'[q].scan <= sentSaves'
        /\ \A q, u \in Offices : saves'[q].scan = saves'[u].scan /\ saves'[q].scan # 0 => q = u
        /\ \A p \in 1..MaxPapers : papers[p].scan <= sentSaves' \/ papers[p].scan = MaxSaves + 1
    <3>1. \A q \in Offices : saves[q].scan \in Nat /\ saves[q].scan <= sentSaves
      BY <1>0 DEF ScansAreOwned, PaperTyped, Saves
    <3>2. \A p \in 1..MaxPapers : papers[p].scan \in Nat
      BY <1>0 DEF PaperTyped, Papers
    <3>3. sentSaves \in Nat
      BY <1>0 DEF PaperTyped
    <3>4. \A q \in Offices : saves'[q].scan = (IF q = o THEN name ELSE saves[q].scan)
      BY <2>4, <2>5
    <3>5. /\ \A q, u \in Offices : saves[q].scan = saves[u].scan /\ saves[q].scan # 0 => q = u
          /\ \A p \in 1..MaxPapers : papers[p].scan <= sentSaves \/ papers[p].scan = MaxSaves + 1
      BY <1>0 DEF ScansAreOwned
    <3> QED
      BY <2>1, <2>2, <3>1, <3>2, <3>3, <3>4, <3>5
  <2>9. \A p \in 1..MaxPapers, q \in Offices : papers[p].scan = saves'[q].scan => papers[p].scan \in unsure \cup {0}
    <3>1. ASSUME NEW p \in 1..MaxPapers, papers[p].scan = name
          PROVE  papers[p].scan = 0
      <4>1. papers[p].scan <= sentSaves \/ papers[p].scan = MaxSaves + 1
        BY <1>0 DEF ScansAreOwned
      <4>2. sentSaves \in Nat /\ papers[p].scan \in Nat
        BY <1>0 DEF PaperTyped, Papers
      <4> QED
        BY <2>1, <2>2, <3>1, <4>1, <4>2
    <3> QED
      BY <1>0, <2>4, <2>5, <3>1 DEF ScansAreOwned
  <2>10. \A q \in Offices : saves'[q].step \in {"found", "locked"} => saves'[q].scan \in scans \cup {0}
    BY <1>0, <2>4, <2>5 DEF ScansAreOwned
  <2>11. ScansAreOwned'
    BY <1>0, <2>1, <2>8, <2>9, <2>10 DEF ScansAreOwned
  <2>12. OneIsCurrent'
    BY <1>0, <2>1 DEF OneIsCurrent
  <2> QED
    BY <2>6, <2>7, <2>11, <2>12 DEF PaperInv
(* A step of one form that keeps its scan or forgets it, and no document. *)
<1>6. ASSUME NEW o \in Offices, NEW s \in Saves, saves' = [saves EXCEPT ![o] = s],
             s.scan \in {saves[o].scan, 0}, UNCHANGED <<papers, sentSaves, unsure>>,
             paperSheet' \in [Offices -> {NoDialog} \cup 0..MaxPapers],
             HeldByOne',
             \A q \in Offices : saves'[q].step \in {"found", "locked"} => saves'[q].scan \in scans' \cup {0},
             \A p \in 1..MaxPapers : papers[p].scan \in scans' \cup unsure \cup {0}
      PROVE  PaperInv'
  <2>1. saves'[o] = s /\ \A q \in Offices : q # o => saves'[q] = saves[q]
    BY <1>0, <1>6 DEF PaperTyped
  <2>2. PaperTyped'
    BY <1>0, <1>6 DEF PaperTyped
  <2>3. OneIsCurrent'
    BY <1>0, <1>6 DEF OneIsCurrent
  <2>4. \A q \in Offices : saves'[q].scan \in {saves[q].scan, 0}
    BY <1>6, <2>1
  <2>5. /\ \A q \in Offices : saves'[q].scan <= sentSaves'
        /\ \A q, u \in Offices : saves'[q].scan = saves'[u].scan /\ saves'[q].scan # 0 => q = u
        /\ \A p \in 1..MaxPapers, q \in Offices :
             papers'[p].scan = saves'[q].scan => papers'[p].scan \in unsure' \cup {0}
    BY <1>0, <1>6, <2>4 DEF ScansAreOwned, PaperTyped
  <2>6. ScansAreOwned'
    BY <1>0, <1>6, <2>5 DEF ScansAreOwned
  <2> QED
    BY <2>2, <2>3, <2>6, <1>6 DEF PaperInv
<1>7. ASSUME NEW o \in Offices, NEW valid \in BOOLEAN, FormIsTaken(o, valid)
      PROVE  PaperInv'
  <2>1. PICK s : s = saves'[o]
    OBVIOUS
  <2>2. PICK step \in {"found", "refused"} :
          saves' = [saves EXCEPT ![o].step = step, ![o].scan = IF @ = 0 THEN 0 ELSE UploadName(o)]
    BY <1>7 DEF FormIsTaken
  <2>3. saves[o] \in Saves /\ saves[o].step = "sent"
    BY <1>0, <1>7 DEF FormIsTaken, At, PaperTyped
  <2>4. s \in Saves /\ s.step = step /\ s.scan = saves[o].scan /\ saves' = [saves EXCEPT ![o] = s]
    BY <1>0, <2>1, <2>2, <2>3 DEF PaperTyped, Saves, Steps, UploadName
  <2>5. /\ scans' = (IF saves[o].scan = 0 THEN scans ELSE scans \cup {saves[o].scan})
        /\ UNCHANGED <<papers, kept, holder, paperSheet, sentSaves, unsure>>
    BY <1>7 DEF FormIsTaken, UploadName
  <2>6. saves'[o] = s /\ \A q \in Offices : q # o => saves'[q] = saves[q]
    BY <1>0, <2>4 DEF PaperTyped
  <2>7. HeldByOne'
    BY <1>0, <2>3, <2>4, <2>5, <2>6 DEF HeldByOne
  <2>8. \A q \in Offices : saves'[q].step \in {"found", "locked"} => saves'[q].scan \in scans' \cup {0}
    BY <1>0, <2>4, <2>5, <2>6 DEF ScansAreOwned
  <2>9. /\ \A p \in 1..MaxPapers : papers[p].scan \in scans' \cup unsure \cup {0}
        /\ paperSheet' \in [Offices -> {NoDialog} \cup 0..MaxPapers]
    BY <1>0, <2>5 DEF ScansAreOwned, PaperTyped
  <2> QED
    BY <1>6, <2>4, <2>5, <2>7, <2>8, <2>9
<1>8. ASSUME NEW o \in Offices, LockVehicle(o)
      PROVE  PaperInv'
  <2>1. PICK s : s = saves'[o]
    OBVIOUS
  <2> DEFINE clash == \E p \in 1..MaxPapers : papers[p].state = "current"
  <2>2. Clashing = clash
    BY <1>0 DEF Clashing, PapersThere, There, Current
  <2>3. saves[o] \in Saves /\ saves[o].step = "found" /\ holder = {}
    BY <1>0, <1>8 DEF LockVehicle, At, RowIsFree, PaperTyped
  <2>4. /\ saves' = [saves EXCEPT ![o].step = IF kept THEN "locked" ELSE "refused", ![o].clash = clash]
        /\ holder' = IF kept THEN holder \cup {o} ELSE holder
        /\ UNCHANGED <<papers, kept, scans, paperSheet, sentSaves, unsure>>
    BY <1>8, <2>2 DEF LockVehicle
  <2>5. PICK c \in BOOLEAN : (c = TRUE) <=> clash
    OBVIOUS
  <2>6. saves' = [saves EXCEPT ![o].step = IF kept THEN "locked" ELSE "refused", ![o].clash = c]
    BY <2>4, <2>5
  <2> HIDE DEF clash
  <2>7. s \in Saves /\ s.step = (IF kept THEN "locked" ELSE "refused") /\ s.scan = saves[o].scan /\ s.clash = c
        /\ saves' = [saves EXCEPT ![o] = s]
    BY <1>0, <2>1, <2>3, <2>6 DEF PaperTyped, Saves, Steps
  <2>8. saves'[o] = s /\ \A q \in Offices : q # o => saves'[q] = saves[q]
    BY <1>0, <2>7 DEF PaperTyped
  <2>9. c = FALSE => \A p \in 1..MaxPapers : papers'[p].state # "current"
    BY <2>4, <2>5 DEF clash
  <2>10. HeldByOne'
    <3>1. \A q \in Offices : saves[q].step # "locked"
      BY <1>0, <2>3 DEF HeldByOne
    <3>2. \A q \in Offices : q \in holder' <=> (q = o /\ kept)
      BY <2>3, <2>4
    <3>3. \A q \in Offices : saves'[q].step = "locked" <=> (q = o /\ kept)
      BY <2>7, <2>8, <3>1
    <3> QED
      BY <2>7, <2>8, <2>9, <3>2, <3>3 DEF HeldByOne
  <2>11. \A q \in Offices : saves'[q].step \in {"found", "locked"} => saves'[q].scan \in scans' \cup {0}
    BY <1>0, <2>3, <2>4, <2>7, <2>8 DEF ScansAreOwned
  <2>12. /\ \A p \in 1..MaxPapers : papers[p].scan \in scans' \cup unsure \cup {0}
         /\ paperSheet' \in [Offices -> {NoDialog} \cup 0..MaxPapers]
    BY <1>0, <2>4 DEF ScansAreOwned, PaperTyped
  <2> QED
    BY <1>6, <2>4, <2>7, <2>10, <2>11, <2>12
<1>9. ASSUME NEW o \in Offices, NEW step \in Steps, Ends(o, step), step # "locked", step # "found",
             saves[o].step # "locked"
      PROVE  \E s \in Saves : /\ saves' = [saves EXCEPT ![o] = s] /\ s.step = step
                              /\ s.scan = IF step = "refused" THEN saves[o].scan ELSE 0
  <2> DEFINE scan == IF step = "refused" THEN saves[o].scan ELSE 0
             s == [NoSave EXCEPT !.step = step, !.scan = scan]
  <2>1. scan \in Nat
    BY <1>0 DEF PaperTyped, Saves
  <2> HIDE DEF scan
  <2>2. s \in Saves /\ s.step = step /\ s.scan = scan
    BY <1>9, <1>b, <2>1
  <2>3. saves' = [saves EXCEPT ![o] = s]
    BY <1>9 DEF Ends, scan
  <2> QED
    BY <2>2, <2>3 DEF scan
<1>10. ASSUME NEW o \in Offices, CleanUp(o)
       PROVE  PaperInv'
  <2>1. /\ saves[o].step = "refused" /\ scans' = scans \ {saves[o].scan}
        /\ UNCHANGED <<papers, kept, holder, paperSheet, sentSaves, unsure>>
    BY <1>10 DEF CleanUp, At
  <2>2. PICK s \in Saves : saves' = [saves EXCEPT ![o] = s] /\ s.step = "failed" /\ s.scan = 0
    BY <1>9, <1>10, <2>1 DEF CleanUp, Steps
  <2>3. saves'[o] = s /\ \A q \in Offices : q # o => saves'[q] = saves[q]
    BY <1>0, <2>2 DEF PaperTyped
  <2>4. HeldByOne'
    BY <1>0, <2>1, <2>2, <2>3 DEF HeldByOne
  <2>5. ASSUME NEW q \in Offices, saves'[q].step \in {"found", "locked"}
        PROVE  saves'[q].scan \in scans' \cup {0}
    <3>1. q # o /\ saves'[q] = saves[q]
      BY <2>2, <2>3, <2>5
    <3>2. saves[q].scan \in scans \cup {0} /\ (saves[q].scan = 0 \/ saves[q].scan # saves[o].scan)
      BY <1>0, <2>5, <3>1 DEF ScansAreOwned
    <3> QED
      BY <2>1, <3>1, <3>2
  <2>6. \A p \in 1..MaxPapers : papers[p].scan \in scans' \cup unsure \cup {0}
    BY <1>0, <2>1 DEF ScansAreOwned
  <2>7. paperSheet' \in [Offices -> {NoDialog} \cup 0..MaxPapers]
    BY <1>0, <2>1 DEF PaperTyped
  <2> QED
    BY <1>6, <2>1, <2>2, <2>4, <2>5, <2>6, <2>7
<1>11. ASSUME NEW o \in Offices, NEW arrives \in BOOLEAN, SaveIsAnswered(o, arrives)
       PROVE  PaperInv'
  <2>1. /\ saves[o].step \in {"saved", "failed"} /\ saves' = [saves EXCEPT ![o] = NoSave]
        /\ UNCHANGED <<papers, kept, scans, holder, sentSaves, unsure>>
    BY <1>11 DEF SaveIsAnswered, At
  <2>2. NoSave \in Saves /\ NoSave.step = "none" /\ NoSave.scan = 0
    BY DEF NoSave, Saves, Steps
  <2>3. saves'[o] = NoSave /\ \A q \in Offices : q # o => saves'[q] = saves[q]
    BY <1>0, <2>1 DEF PaperTyped
  <2>4. HeldByOne'
    BY <1>0, <2>1, <2>2, <2>3 DEF HeldByOne
  <2>5. \A q \in Offices : saves'[q].step \in {"found", "locked"} => saves'[q].scan \in scans' \cup {0}
    BY <1>0, <2>1, <2>2, <2>3 DEF ScansAreOwned
  <2>6. \A p \in 1..MaxPapers : papers[p].scan \in scans' \cup unsure \cup {0}
    BY <1>0, <2>1 DEF ScansAreOwned
  <2>7. paperSheet' \in [Offices -> {NoDialog} \cup 0..MaxPapers]
    BY <1>0, <1>11 DEF PaperTyped, SaveIsAnswered
  <2> QED
    BY <1>6, <2>1, <2>2, <2>4, <2>5, <2>6, <2>7
(* A document expires or goes. *)
<1>12. ASSUME NEW p \in 1..MaxPapers, NEW paper \in Papers, papers' = [papers EXCEPT ![p] = paper],
              paper.state # "current", paper.scan \in {papers[p].scan, 0},
              UNCHANGED <<scans, holder, saves, paperSheet, sentSaves, unsure>>
       PROVE  PaperInv'
  <2>1. papers'[p] = paper /\ \A q \in 1..MaxPapers : q # p => papers'[q] = papers[q]
    BY <1>0, <1>12 DEF PaperTyped
  <2>2. PaperTyped'
    BY <1>0, <1>12 DEF PaperTyped
  <2>3. HeldByOne' /\ OneIsCurrent'
    BY <1>0, <1>12, <2>1 DEF HeldByOne, OneIsCurrent
  <2>4. \A q \in 1..MaxPapers : papers'[q].scan \in {papers[q].scan, 0}
    BY <1>12, <2>1
  <2>5. sentSaves \in Nat
    BY <1>0 DEF PaperTyped
  <2>6. ScansAreOwned'
    BY <1>0, <1>12, <2>4, <2>5 DEF ScansAreOwned
  <2> QED
    BY <2>2, <2>3, <2>6 DEF PaperInv
<1>13. ASSUME NEW p \in DOMAIN papers, PaperExpires(p)
       PROVE  PaperInv'
  <2>1. p \in 1..MaxPapers /\ papers[p] \in Papers
    BY <1>0 DEF PaperTyped
  <2> DEFINE paper == [papers[p] EXCEPT !.state = "expired"]
  <2>2. paper \in Papers /\ paper.state = "expired" /\ paper.scan = papers[p].scan
    BY <2>1 DEF Papers
  <2>3. papers' = [papers EXCEPT ![p] = paper] /\ UNCHANGED <<scans, holder, saves, paperSheet, sentSaves, unsure>>
    BY <1>13 DEF PaperExpires
  <2> HIDE DEF paper
  <2> QED
    BY <1>12, <2>1, <2>2, <2>3
<1>14. ASSUME NEW p \in DOMAIN papers, DeletePaper(p)
       PROVE  PaperInv'
  <2>1. GonePaper \in Papers /\ GonePaper.state = "gone" /\ GonePaper.scan = 0
    BY DEF GonePaper, Papers
  <2>2. papers' = [papers EXCEPT ![p] = GonePaper] /\ UNCHANGED <<scans, holder, saves, paperSheet, sentSaves, unsure>>
    BY <1>14 DEF DeletePaper
  <2> QED
    BY <1>0, <1>12, <2>1, <2>2
<1>15. CASE VehicleGoes
  BY <1>0, <1>1, <1>15 DEF VehicleGoes, PaperTyped
<1>16. CASE ApiStops
  <2>1. /\ saves' = [o \in Offices |-> IF saves[o].step = "none" THEN NoSave ELSE [NoSave EXCEPT !.step = "failed"]]
        /\ holder' = {} /\ UNCHANGED <<papers, kept, scans, paperSheet, sentSaves, unsure>>
    BY <1>16 DEF ApiStops, At
  <2>2. ASSUME NEW o \in Offices
        PROVE  saves'[o] \in Saves /\ saves'[o].step \in {"none", "failed"} /\ saves'[o].scan = 0
    <3>1. [NoSave EXCEPT !.step = "failed"] \in Saves /\ [NoSave EXCEPT !.step = "failed"].step = "failed"
          /\ [NoSave EXCEPT !.step = "failed"].scan = 0
      BY <1>a DEF Saves, Steps
    <3> QED
      BY <1>a, <2>1, <3>1
  <2>3. PaperTyped'
    BY <1>0, <2>1, <2>2 DEF PaperTyped
  <2>4. HeldByOne' /\ OneIsCurrent'
    BY <1>0, <2>1, <2>2 DEF HeldByOne, OneIsCurrent
  <2>5. sentSaves \in Nat
    BY <1>0 DEF PaperTyped
  <2>6. ScansAreOwned'
    BY <1>0, <2>1, <2>2, <2>5 DEF ScansAreOwned
  <2> QED
    BY <2>3, <2>4, <2>6 DEF PaperInv
<1>17. ASSUME NEW o \in Offices, NEW heard \in BOOLEAN, WritePaper(o, heard)
       PROVE  PaperInv'
  <2> DEFINE s == saves[o]
             ok == IF s.paper = 0 THEN ~s.clash ELSE There(s.paper)
             t == Target(o)
             end == IF ok /\ heard THEN "saved" ELSE "refused"
  <2>1. /\ s.step = "locked" /\ (ok => t <= MaxPapers) /\ (~heard => ok)
        /\ papers' = (IF ok THEN [papers EXCEPT ![t] = Written(o)] ELSE papers)
        /\ Ends(o, end)
        /\ unsure' = (IF ok /\ ~heard THEN unsure \cup {s.scan} ELSE unsure)
        /\ holder' = holder \ {o} /\ UNCHANGED <<kept, scans, paperSheet, sentSaves>>
    BY <1>17 DEF WritePaper, At
  <2>2. s \in Saves /\ s.scan \in Nat /\ s.clash \in BOOLEAN
    BY <1>0 DEF PaperTyped, Saves
  <2>3. PICK e \in Saves : /\ saves' = [saves EXCEPT ![o] = e] /\ e.step = end
                           /\ e.scan = IF end = "refused" THEN s.scan ELSE 0
    <3>1. PICK last \in Steps : last = end
      BY DEF Steps
    <3>2. PICK scan \in Nat : scan = IF end = "refused" THEN s.scan ELSE 0
      BY <2>2
    <3> DEFINE e == [NoSave EXCEPT !.step = last, !.scan = scan]
    <3>3. e \in Saves /\ e.step = last /\ e.scan = scan
      BY <1>b, <3>1, <3>2, ZenonT(40)
    <3>4. saves' = [saves EXCEPT ![o] = e]
      BY <2>1, <3>1, <3>2 DEF Ends
    <3> HIDE DEF e
    <3> QED
      BY <3>1, <3>2, <3>3, <3>4
  <2>4. saves'[o] = e /\ \A q \in Offices : q # o => saves'[q] = saves[q]
    BY <1>0, <2>3 DEF PaperTyped
  <2>5. end \in {"saved", "refused"}
    OBVIOUS
  <2>6. /\ o \in holder /\ \A q \in Offices : q \notin holder'
        /\ \A q \in Offices : saves'[q].step # "locked"
    BY <1>0, <2>1, <2>3, <2>4, <2>5 DEF HeldByOne
  <2>7. HeldByOne'
    BY <2>6 DEF HeldByOne
  <2>8. ASSUME ok, NEW p \in 1..MaxPapers
        PROVE  \/ papers'[p] = papers[p]
               \/ /\ p = t /\ papers'[p] \in Papers /\ papers'[p].state = "current"
                  /\ papers'[p].edited = (s.paper # 0)
                  /\ papers'[p].scan = IF s.scan = 0 THEN papers[p].scan ELSE s.scan
    <3>1. CASE p = t
      <4>1. papers'[p] = Written(o) /\ papers[p].scan \in Nat
        BY <1>0, <2>1, <2>8, <3>1 DEF PaperTyped, Papers
      <4>2. Written(o) = [state |-> "current", edited |-> s.paper # 0,
                          scan |-> IF s.scan = 0 THEN papers[p].scan ELSE s.scan]
        BY <3>1 DEF Written
      <4> QED
        BY <2>2, <3>1, <4>1, <4>2 DEF Papers
    <3>2. CASE p # t
      BY <1>0, <2>1, <3>2 DEF PaperTyped
    <3> QED
      BY <3>1, <3>2
  <2>9. papers' \in [1..MaxPapers -> Papers]
    <3>1. \A p \in 1..MaxPapers : papers'[p] \in Papers
      BY <1>0, <2>1, <2>8 DEF PaperTyped
    <3>2. papers' = [p \in 1..MaxPapers |-> papers'[p]]
      BY <1>0, <2>1 DEF PaperTyped
    <3> QED
      BY <3>1, <3>2
  <2>10. PaperTyped'
    BY <1>0, <2>1, <2>3, <2>9 DEF PaperTyped
  <2>11. ASSUME ok, s.paper = 0
         PROVE  \A p \in 1..MaxPapers : papers[p].state # "current"
    BY <1>0, <2>2, <2>6, <2>11 DEF HeldByOne
  <2> HIDE DEF ok, t, end
  <2>12. OneIsCurrent'
    <3>1. CASE ~ok
      BY <1>0, <2>1, <3>1 DEF OneIsCurrent
    <3>2. CASE ok /\ s.paper = 0
      BY <2>8, <2>11, <3>2 DEF OneIsCurrent
    <3>3. CASE ok /\ s.paper # 0
      <4>1. \A p \in 1..MaxPapers : papers'[p] = papers[p] \/ papers'[p].edited = TRUE
        BY <2>8, <3>3
      <4> QED
        BY <1>0, <4>1 DEF OneIsCurrent
    <3> QED
      BY <3>1, <3>2, <3>3
  <2>13. \A q \in Offices : saves'[q].scan \in {saves[q].scan, 0} /\ saves[q].scan \in Nat
    <3>1. \A q \in Offices : saves[q].scan \in Nat
      BY <1>0 DEF PaperTyped, Saves
    <3> QED
      BY <2>3, <2>4, <3>1
  <2>14. \A p \in 1..MaxPapers : papers'[p].scan = papers[p].scan \/ (ok /\ s.scan # 0 /\ papers'[p].scan = s.scan)
    BY <2>1, <2>8
  <2>15. sentSaves \in Nat /\ \A p \in 1..MaxPapers : papers[p].scan \in Nat
    BY <1>0 DEF PaperTyped, Papers
  <2>16. /\ \A q \in Offices : saves'[q].scan <= sentSaves'
         /\ \A q, u \in Offices : saves'[q].scan = saves'[u].scan /\ saves'[q].scan # 0 => q = u
         /\ \A p \in 1..MaxPapers : papers'[p].scan <= sentSaves' \/ papers'[p].scan = MaxSaves + 1
    BY <1>0, <2>1, <2>13, <2>14, <2>15, SMTT(30) DEF ScansAreOwned
  <2>17. ASSUME NEW p \in 1..MaxPapers, NEW q \in Offices, papers'[p].scan = saves'[q].scan
         PROVE  papers'[p].scan \in unsure' \cup {0}
    <3>1. unsure \subseteq unsure'
      BY <2>1
    <3>2. CASE papers'[p].scan = papers[p].scan
      BY <1>0, <2>13, <2>17, <3>1, <3>2 DEF ScansAreOwned
    <3>3. CASE ok /\ s.scan # 0 /\ papers'[p].scan = s.scan
      <4>1. saves'[q].scan = saves[q].scan /\ q = o
        BY <1>0, <2>13, <2>17, <3>3 DEF ScansAreOwned
      <4>2. end = "refused"
        BY <2>3, <2>4, <2>17, <3>3, <4>1
      <4>3. ok /\ ~heard
        BY <3>3, <4>2 DEF end
      <4> QED
        BY <2>1, <3>3, <4>3
    <3> QED
      BY <2>14, <3>2, <3>3
  <2>18. \A q \in Offices : saves'[q].step \in {"found", "locked"} => saves'[q].scan \in scans' \cup {0}
    BY <1>0, <2>1, <2>3, <2>4, <2>5 DEF ScansAreOwned
  <2>19. \A p \in 1..MaxPapers : papers'[p].scan \in scans' \cup unsure' \cup {0}
    BY <1>0, <2>1, <2>14 DEF ScansAreOwned
  <2>20. ScansAreOwned'
    BY <2>16, <2>17, <2>18, <2>19 DEF ScansAreOwned
  <2> QED
    BY <2>7, <2>10, <2>12, <2>20 DEF PaperInv
<1> QED
  BY <1>2, <1>3, <1>4, <1>5, <1>7, <1>8, <1>10, <1>11, <1>13, <1>14, <1>15, <1>16, <1>17
     DEF DocumentDeskNext

(* One current document of the kind, unless one was edited, and every document's *)
(* scan on the disk, unless a commit was taken for a failure: createDocument,     *)
(* updateDocument, deleteDocument and cleanupUploadedFilesOnError.                *)
THEOREM PapersStayInOrder == DocumentDeskSpec => []PapersAreInOrder
<1>1. DocumentDeskInit => PaperInv
  <2> SUFFICES ASSUME DocumentDeskInit PROVE PaperInv
    OBVIOUS
  <2>1. NoPaper \in Papers /\ NoPaper.state = "none" /\ NoPaper.scan = 0
    BY DEF NoPaper, Papers
  <2>2. OldPaper \in Papers /\ OldPaper.scan = MaxSaves + 1
    BY DocumentDeskConstants DEF OldPaper, Papers
  <2>3. NoSave \in Saves /\ NoSave.step = "none" /\ NoSave.scan = 0
    BY DocumentDeskConstants DEF NoSave, Saves, Steps
  <2>4. /\ papers \in [1..MaxPapers -> Papers]
        /\ \A p \in 1..MaxPapers : papers[p] = NoPaper \/ (p = 1 /\ papers[p] = OldPaper)
    BY <2>1, <2>2 DEF DocumentDeskInit
  <2>5. /\ \A o \in Offices : saves[o] = NoSave
        /\ saves \in [Offices -> Saves] /\ holder = {} /\ sentSaves = 0 /\ unsure = {}
        /\ scans = {papers[1].scan} \ {0} /\ paperSheet = [o \in Offices |-> NoDialog]
    BY <2>3 DEF DocumentDeskInit
  <2>6. PaperTyped
    BY <2>4, <2>5, DocumentDeskConstants DEF PaperTyped
  <2>7. HeldByOne /\ OneIsCurrent
    BY <2>1, <2>3, <2>4, <2>5 DEF HeldByOne, OneIsCurrent
  <2>8. /\ \A o \in Offices : saves[o].scan = 0 /\ saves[o].step = "none"
        /\ \A p \in 1..MaxPapers : papers[p].scan = 0 \/ (p = 1 /\ papers[p].scan = MaxSaves + 1)
    BY <2>1, <2>2, <2>3, <2>4, <2>5
  <2>9. \A p \in 1..MaxPapers : papers[p].scan \in scans \cup {0}
    BY <2>5, <2>8
  <2>10. ScansAreOwned
    BY <2>5, <2>8, <2>9, DocumentDeskConstants DEF ScansAreOwned
  <2> QED
    BY <2>6, <2>7, <2>10 DEF PaperInv
<1>2. PaperInv => PapersAreInOrder
  BY DEF PaperInv, PaperTyped, OneIsCurrent, ScansAreOwned, PapersAreInOrder, PapersThere,
     There, Current
<1> QED
  BY <1>1, <1>2, PaperStep, PTL DEF DocumentDeskSpec


-----------------------------------------------------------------------------
(* Tickets on their pages.                                                           *)
OfferType == [id : Nat, price : Nat, declined : BOOLEAN]
TicketStatuses == {"ABSENT", "PENDING_ADMIN_APPROVAL", "AWAITING_QUOTES", "APPROVED_FOR_REPAIR",
                   "IN_REPAIR", "COMPLETED", "REJECTED_BY_ADMIN", "REJECTED_FINAL"}
ServerType == [made : Nat, status : TicketStatuses, winner : Nat, photos : Nat, last : Nat,
               offers : [Garages -> OfferType], resent : SUBSET Nat, left : Int,
               reserved : SUBSET [id : Nat, price : Nat, shown : Nat]]

(* Every quote has an id of its own, and the one that won was not withdrawn.          *)
OffersApart(s) ==
  \A g \in Garages : /\ s.offers[g].id <= s.last
                     /\ \A h \in Garages : s.offers[g].id = s.offers[h].id /\ s.offers[g].id # 0 => g = h
Winning(s) ==
  s.winner # 0 => /\ s.status \in {"APPROVED_FOR_REPAIR", "IN_REPAIR", "COMPLETED"}
                  /\ \A g \in Garages : s.offers[g].id = s.winner => ~s.offers[g].declined

NotYet(s) == (s.made = 0 <=> s.status = "ABSENT") /\ (s.made = 0 => s.photos = 0)
Shown(s) == \A r \in s.reserved : r.price = r.shown \/ r.id \in s.resent
ServerInv(s) == s \in ServerType /\ OffersApart(s) /\ Winning(s)

(* What was read of a quote is what it says, unless its workshop has sent it again.   *)
AsOffered(id, price, s) ==
  id # 0 /\ price # 0 =>
    /\ id <= s.last
    /\ \A g \in Garages : s.offers[g].id = id => s.offers[g].price = price \/ id \in s.resent

(* What the handlers do to the ticket.                                               *)
Follows(s, n) ==
  /\ ServerInv(n) /\ s.last <= n.last /\ s.resent \subseteq n.resent
  /\ \A g \in Garages :
       n.offers[g].id # 0 /\ n.offers[g].id <= s.last =>
         /\ n.offers[g].id = s.offers[g].id
         /\ \/ n.offers[g].price = s.offers[g].price \/ s.offers[g].price = 0
            \/ n.offers[g].id \in n.resent

DeskInv ==
  /\ ServerInv(server) /\ NotYet(server) /\ Shown(server)
  /\ context \in [left : Int, offers : [Garages -> OfferType]]
  /\ \A g \in Garages : AsOffered(context.offers[g].id, context.offers[g].price, server)
  /\ picked \in [id : Nat, price : Nat] /\ AsOffered(picked.id, picked.price, server)
  /\ picked # NoPick => picked.id # 0 /\ picked.price # 0
  /\ page = [p \in Pages |-> page[p]]
  /\ form = "photos" => /\ page["executor"].status = "PENDING_ADMIN_APPROVAL"
                        /\ page["executor"].photos = 0
  /\ form = "form" /\ server.made # 0 => "create" \in lost
  /\ OneTicketPerForm

LEMMA OfferStays ==
  ASSUME NEW s, ServerInv(s), NEW n, Follows(s, n), NEW id \in Nat, NEW price \in Nat, AsOffered(id, price, s)
  PROVE  AsOffered(id, price, n)
<1> SUFFICES ASSUME id # 0, price # 0
             PROVE  /\ id <= n.last
                    /\ \A g \in Garages : n.offers[g].id = id => n.offers[g].price = price \/ id \in n.resent
  BY DEF AsOffered
<1>1. id <= s.last /\ \A g \in Garages : s.offers[g].id = id => s.offers[g].price = price \/ id \in s.resent
  BY DEF AsOffered
<1>2. s.last \in Nat /\ n.last \in Nat
  BY DEF ServerInv, ServerType, Follows
<1> QED
  BY <1>1, <1>2 DEF Follows

(* The ids of new quotes: as many as there are new workshops, and all different.      *)
LEMMA NewIds ==
  ASSUME NEW new, new \subseteq Garages, NEW last \in Nat
  PROVE  /\ Cardinality(new) \in Nat
         /\ \E f \in [new -> last + 1 .. last + Cardinality(new)] : \A g, h \in new : g # h => f[g] # f[h]
<1>1. IsFiniteSet(new)
  BY DeskConstants, FS_Subset
<1> DEFINE m == Cardinality(new)
<1>2. m \in Nat /\ ExistsBijection(1..m, new)
  BY <1>1, FS_CardinalityType
<1>3. PICK b : b \in Bijection(1..m, new)
  BY <1>2 DEF ExistsBijection
<1> HIDE DEF m
<1>4. /\ b \in [1..m -> new]
      /\ \A g \in new : \E i \in 1..m : b[i] = g
  BY <1>3 DEF Bijection, Injection, Surjection
<1> DEFINE at == [g \in new |-> CHOOSE i \in 1..m : b[i] = g]
           f == [g \in new |-> last + at[g]]
<1>5. \A g \in new : at[g] \in 1..m /\ b[at[g]] = g
  BY <1>4
<1> HIDE DEF at
<1>6. f \in [new -> last + 1 .. last + m]
  BY <1>2, <1>5
<1>7. \A g, h \in new : f[g] = f[h] => g = h
  <2> SUFFICES ASSUME NEW g \in new, NEW h \in new, f[g] = f[h] PROVE g = h
    OBVIOUS
  <2>1. at[g] \in Nat /\ at[h] \in Nat
    BY <1>2, <1>5
  <2>2. at[g] = at[h]
    BY <2>1
  <2> QED
    BY <1>5, <2>2
<1> HIDE DEF f
<1> QED
  BY <1>2, <1>6, <1>7 DEF m

LEMMA InviteFollows ==
  ASSUME NEW s, ServerInv(s), s.winner = 0, NEW G \in SUBSET Garages
  PROVE  LET n == Invite(s, G)
         IN  /\ Follows(s, n) /\ n.made = s.made /\ n.reserved = s.reserved /\ n.photos = s.photos
             /\ n.status = "AWAITING_QUOTES"
<1> DEFINE new == {g \in G : s.offers[g].id = 0}
           IdFor == CHOOSE f \in [new -> s.last + 1 .. s.last + Cardinality(new)] :
                      \A g, h \in new : g # h => f[g] # f[h]
           m == Cardinality(new)
           offers == [g \in Garages |-> IF g \in new THEN [NoOffer EXCEPT !.id = IdFor[g]]
                                        ELSE IF g \in G THEN s.offers[g] ELSE NoOffer]
           n == [s EXCEPT !.status = "AWAITING_QUOTES", !.last = s.last + m, !.offers = offers]
<1>1. Invite(s, G) = n
  BY DEF Invite
<1>2. s \in ServerType /\ s.last \in Nat
  BY DEF ServerInv, ServerType
<1>3. m \in Nat /\ IdFor \in [new -> s.last + 1 .. s.last + m] /\ \A g, h \in new : g # h => IdFor[g] # IdFor[h]
  <2>1. /\ m \in Nat
        /\ \E f \in [new -> s.last + 1 .. s.last + m] : \A g, h \in new : g # h => f[g] # f[h]
    <3>1. new \subseteq Garages
      OBVIOUS
    <3> HIDE DEF new
    <3> QED
      BY <1>2, <3>1, NewIds
  <2> QED
    BY <2>1
<1> HIDE DEF IdFor, m
<1>4. \A g \in new : IdFor[g] \in Nat /\ s.last < IdFor[g] /\ IdFor[g] <= s.last + m
  BY <1>2, <1>3
<1>5. \A g \in Garages : s.offers[g] \in OfferType /\ s.offers[g].id <= s.last
  BY <1>2 DEF ServerInv, ServerType, OffersApart
<1>6. NoOffer \in OfferType /\ NoOffer.id = 0
  BY DEF NoOffer, OfferType
<1>7. \A g \in Garages : /\ g \in new => offers[g] = [NoOffer EXCEPT !.id = IdFor[g]]
                         /\ g \notin new => offers[g] = s.offers[g] \/ offers[g] = NoOffer
  OBVIOUS
<1>8. \A g \in Garages :
        /\ offers[g] \in OfferType
        /\ g \in new => offers[g].id = IdFor[g]
        /\ g \notin new => offers[g] = s.offers[g] \/ offers[g].id = 0
  <2> SUFFICES ASSUME NEW g \in Garages
               PROVE  /\ offers[g] \in OfferType
                      /\ g \in new => offers[g].id = IdFor[g]
                      /\ g \notin new => offers[g] = s.offers[g] \/ offers[g].id = 0
    OBVIOUS
  <2>1. CASE g \in new
    <3>1. PICK i \in Nat : i = IdFor[g]
      BY <1>4, <2>1
    <3>2. offers[g] = [NoOffer EXCEPT !.id = i]
      BY <1>7, <2>1, <3>1
    <3>3. offers[g] = [id |-> i, price |-> 0, declined |-> FALSE]
      BY <3>2 DEF NoOffer
    <3> HIDE DEF offers, new
    <3>4. offers[g] \in OfferType /\ offers[g].id = i
      BY <3>3 DEF OfferType
    <3> QED
      BY <2>1, <3>1, <3>4
  <2>2. CASE g \notin new
    <3>1. offers[g] = s.offers[g] \/ offers[g] = NoOffer
      BY <1>7, <2>2
    <3> HIDE DEF offers, new
    <3> QED
      BY <1>5, <1>6, <2>2, <3>1
  <2> QED
    BY <2>1, <2>2
<1>a. offers \in [Garages -> OfferType]
  <2>1. offers = [g \in Garages |-> offers[g]]
    OBVIOUS
  <2> HIDE DEF offers
  <2> QED
    BY <1>8, <2>1
<1> HIDE DEF offers, new
<1>9. n \in ServerType /\ n.last = s.last + m /\ n.offers = offers /\ n.winner = 0 /\ n.resent = s.resent
      /\ n.made = s.made /\ n.reserved = s.reserved /\ n.photos = s.photos /\ n.status = "AWAITING_QUOTES"
  <2>1. PICK last \in Nat : last = s.last + m
    BY <1>2, <1>3
  <2>2. n = [s EXCEPT !.status = "AWAITING_QUOTES", !.last = last, !.offers = offers]
    BY <2>1
  <2> HIDE DEF n
  <2>3. /\ n \in ServerType /\ n.last = last /\ n.offers = offers /\ n.winner = s.winner /\ n.resent = s.resent
        /\ n.made = s.made /\ n.reserved = s.reserved /\ n.photos = s.photos /\ n.status = "AWAITING_QUOTES"
    BY <1>2, <1>a, <2>2 DEF ServerType, TicketStatuses
  <2> QED
    BY <2>1, <2>3
<1>10. OffersApart(n)
  <2> SUFFICES ASSUME NEW g \in Garages
               PROVE  /\ offers[g].id <= s.last + m
                      /\ \A h \in Garages : offers[g].id = offers[h].id /\ offers[g].id # 0 => g = h
    BY <1>9 DEF OffersApart
  <2>1. offers[g].id <= s.last + m
    BY <1>2, <1>3, <1>4, <1>5, <1>8 DEF OfferType
  <2>2. ASSUME NEW h \in Garages, offers[g].id = offers[h].id, offers[g].id # 0 PROVE g = h
    <3>1. CASE g \in new /\ h \in new
      BY <1>3, <1>8, <2>2, <3>1
    <3>2. CASE g \notin new /\ h \notin new
      BY <1>8, <2>2, <3>2 DEF ServerInv, OffersApart
    <3>3. CASE g \in new /\ h \notin new
      BY <1>2, <1>4, <1>5, <1>8, <2>2, <3>3 DEF OfferType
    <3>4. CASE g \notin new /\ h \in new
      BY <1>2, <1>4, <1>5, <1>8, <2>2, <3>4 DEF OfferType
    <3> QED
      BY <3>1, <3>2, <3>3, <3>4
  <2> QED
    BY <2>1, <2>2
<1>11. ASSUME NEW g \in Garages, n.offers[g].id # 0, n.offers[g].id <= s.last
       PROVE  n.offers[g] = s.offers[g]
  BY <1>2, <1>4, <1>8, <1>9, <1>11
<1> HIDE DEF n
<1>12. Winning(n) /\ s.last <= n.last /\ s.resent \subseteq n.resent
  BY <1>2, <1>3, <1>9 DEF Winning
<1> QED
  BY <1>1, <1>9, <1>10, <1>11, <1>12 DEF Follows, ServerInv

(* The one workshop a quote belongs to.                                              *)
LEMMA OneGarage ==
  ASSUME NEW s, ServerInv(s), NEW id, id # 0, NEW g \in GarageOf(id, s)
  PROVE  (CHOOSE h \in GarageOf(id, s) : TRUE) = g
<1>1. \A h \in GarageOf(id, s) : h = g
  BY DEF GarageOf, ServerInv, OffersApart
<1>2. (CHOOSE h \in GarageOf(id, s) : TRUE) \in GarageOf(id, s)
  OBVIOUS
<1> QED
  BY <1>1, <1>2

LEMMA SubmittedFollows ==
  ASSUME NEW s, ServerInv(s), NEW g \in Garages, NEW price \in Nat, s.offers[g].id # 0
  PROVE  LET n == Submitted(s, g, price)
         IN  /\ Follows(s, n) /\ n.made = s.made /\ n.reserved = s.reserved /\ n.photos = s.photos
             /\ n.status = s.status
<1> DEFINE offer == [s.offers[g] EXCEPT !.price = price]
           sent == IF s.offers[g].price # 0 THEN s.resent \cup {s.offers[g].id} ELSE s.resent
           n == [s EXCEPT !.offers = [s.offers EXCEPT ![g] = offer], !.resent = sent]
<1>1. s \in ServerType /\ s.offers \in [Garages -> OfferType] /\ s.offers[g] \in OfferType
  BY DEF ServerInv, ServerType
<1>2. Submitted(s, g, price) = n
  BY <1>1 DEF Submitted, ServerType
<1>3. offer \in OfferType /\ offer.id = s.offers[g].id /\ offer.declined = s.offers[g].declined
  BY <1>1 DEF OfferType
<1>4. sent \in SUBSET Nat /\ s.resent \subseteq sent /\ (s.offers[g].price # 0 => s.offers[g].id \in sent)
  BY <1>1 DEF ServerType, OfferType
<1> HIDE DEF offer, sent
<1>5. /\ n \in ServerType /\ n.last = s.last /\ n.winner = s.winner /\ n.resent = sent
      /\ n.made = s.made /\ n.reserved = s.reserved /\ n.photos = s.photos /\ n.status = s.status
      /\ n.offers[g] = offer /\ \A h \in Garages : h # g => n.offers[h] = s.offers[h]
  BY <1>1, <1>3, <1>4 DEF ServerType
<1> HIDE DEF n
<1>6. \A h \in Garages : n.offers[h].id = s.offers[h].id /\ n.offers[h].declined = s.offers[h].declined
  BY <1>3, <1>5
<1>7. OffersApart(n) /\ Winning(n)
  BY <1>5, <1>6 DEF ServerInv, OffersApart, Winning
<1>8. s.last <= n.last
  BY <1>1, <1>5 DEF ServerType
<1>9. \A h \in Garages : \/ n.offers[h].price = s.offers[h].price \/ s.offers[h].price = 0
                         \/ n.offers[h].id \in n.resent
  BY <1>3, <1>4, <1>5
<1> QED
  BY <1>2, <1>4, <1>5, <1>6, <1>7, <1>8, <1>9 DEF Follows, ServerInv

LEMMA ApprovedFollows ==
  ASSUME NEW s, ServerInv(s), NEW g \in Garages, ~s.offers[g].declined, picked.price \in Nat
  PROVE  LET n == ApprovedWith(s, g)
         IN  /\ Follows(s, n) /\ n.made = s.made /\ n.photos = s.photos /\ n.status = "APPROVED_FOR_REPAIR"
             /\ n.reserved = s.reserved \cup
                  {[id |-> s.offers[g].id, price |-> s.offers[g].price, shown |-> picked.price]}
<1> DEFINE n == ApprovedWith(s, g)
<1>1. PICK id \in Nat, price \in Nat, shown \in Nat, left \in Int :
        id = s.offers[g].id /\ price = s.offers[g].price /\ shown = picked.price /\ left = s.left
  BY DEF ServerInv, ServerType, OfferType
<1>2. n = [s EXCEPT !.status = "APPROVED_FOR_REPAIR", !.winner = id, !.left = left - price,
                    !.reserved = s.reserved \cup {[id |-> id, price |-> price, shown |-> shown]}]
  BY <1>1 DEF ApprovedWith, ServerInv, ServerType
<1> HIDE DEF n
<1>3. s \in ServerType /\ left - price \in Int
  BY <1>1 DEF ServerInv
<1>r. PICK rest \in Int, chosen \in SUBSET [id : Nat, price : Nat, shown : Nat] :
        /\ rest = left - price
        /\ chosen = s.reserved \cup {[id |-> id, price |-> price, shown |-> shown]}
  <2>1. [id |-> id, price |-> price, shown |-> shown] \in [id : Nat, price : Nat, shown : Nat]
    OBVIOUS
  <2>2. s.reserved \in SUBSET [id : Nat, price : Nat, shown : Nat]
    BY <1>3 DEF ServerType
  <2> QED
    BY <1>3, <2>1, <2>2
<1>e. n = [s EXCEPT !.status = "APPROVED_FOR_REPAIR", !.winner = id, !.left = rest, !.reserved = chosen]
  BY <1>2, <1>r
<1>4. /\ n \in ServerType /\ n.last = s.last /\ n.winner = id /\ n.resent = s.resent /\ n.offers = s.offers
      /\ n.made = s.made /\ n.photos = s.photos /\ n.status = "APPROVED_FOR_REPAIR"
      /\ n.reserved = s.reserved \cup {[id |-> id, price |-> price, shown |-> shown]}
  <2>1. /\ n \in ServerType /\ n.last = s.last /\ n.winner = id /\ n.resent = s.resent /\ n.offers = s.offers
        /\ n.made = s.made /\ n.photos = s.photos /\ n.status = "APPROVED_FOR_REPAIR" /\ n.reserved = chosen
    BY <1>3, <1>e DEF ServerType, TicketStatuses
  <2> QED
    BY <1>r, <2>1
<1>5. OffersApart(n) /\ (n.winner # 0 => \A h \in Garages : n.offers[h].id = n.winner => h = g)
  BY <1>1, <1>4 DEF ServerInv, OffersApart
<1>6. Winning(n) /\ s.last <= n.last
  BY <1>3, <1>4, <1>5 DEF Winning, ServerType
<1> QED
  BY <1>1, <1>4, <1>5, <1>6 DEF Follows, ServerInv, n

-----------------------------------------------------------------------------
LEMMA WhatIsOffered ==
  ASSUME NEW p \in Pages, NEW what \in Offered(p)
  PROVE  \/ p = "executor" /\ what.op = "create" /\ form = "form"
         \/ p = "executor" /\ what.op = "photo" /\ form # "form"
         \/ p = "admin" /\ what.op \in {"assign", "reassign"} /\ what.garages \in SUBSET Garages
         \/ p = "admin" /\ what.op = "reject"
         \/ p = "admin" /\ what.op = "approve" /\ what.id = picked.id /\ picked # NoPick
         \/ p \in Garages /\ what.op = "submit" /\ what.price \in Prices /\ what.id # 0
         \/ p \in Garages /\ what.op \in {"decline", "start", "complete"}
<1>1. p \in Garages => p # "executor" /\ p # "admin"
  BY DeskConstants
<1>2. CASE p = "executor"
  <2>1. what \in ExecutorOffers(page[p])
    BY <1>1, <1>2 DEF Offered
  <2> QED
    BY <1>2, <2>1 DEF ExecutorOffers
<1>3. CASE p = "admin"
  <2>1. what \in AdminOffers(page[p])
    BY <1>1, <1>3 DEF Offered
  <2>2. /\ \A x \in [op : {"assign"}, garages : Sets] : x.op = "assign" /\ x.garages \in SUBSET Garages
        /\ \A x \in [op : {"reassign"}, garages : Sets] : x.op = "reassign" /\ x.garages \in SUBSET Garages
    BY DEF Sets
  <2> QED
    BY <1>3, <2>1, <2>2 DEF AdminOffers
<1>4. CASE p \in Garages
  <2>1. what \in WorkshopOffers(page[p])
    BY <1>1, <1>4 DEF Offered
  <2>2. ASSUME NEW id, id # 0, NEW x \in [op : {"submit"}, id : {id}, price : Prices]
        PROVE  x.op = "submit" /\ x.price \in Prices /\ x.id # 0
    BY <2>2
  <2>3. CASE page[p].status = "AWAITING_QUOTES"
    <3>1. PICK id : id = page[p].mine.id
      OBVIOUS
    <3>2. /\ id # 0
          /\ what \in [op : {"submit"}, id : {id}, price : Prices] \cup {[op |-> "decline", id |-> id]}
      BY <2>1, <2>3, <3>1 DEF WorkshopOffers, MayStillQuote
    <3> QED
      BY <1>4, <2>2, <3>2
  <2>4. CASE page[p].status # "AWAITING_QUOTES"
    BY <1>4, <2>1, <2>4 DEF WorkshopOffers
  <2> QED
    BY <2>3, <2>4
<1> QED
  BY <1>2, <1>3, <1>4 DEF Pages

(* What an accepted request makes of the ticket, whoever asks.                        *)
Reserves(what, s, n) ==
  \E g \in GarageOf(what.id, s) :
    n.reserved = s.reserved \cup {[id |-> what.id, price |-> s.offers[g].price, shown |-> picked.price]}

LEMMA HandledFollows ==
  ASSUME ServerInv(server), NotYet(server), picked.price \in Nat, picked # NoPick => picked.id # 0,
         NEW p \in Pages, NEW what \in Offered(p), Accepts(p, what, server)
  PROVE  LET n == Handled(p, what, server)
         IN  /\ Follows(server, n) /\ NotYet(n)
             /\ n.made = IF what.op = "create" THEN server.made + 1 ELSE server.made
             /\ what.op = "create" => n.photos = server.photos
             /\ what.op = "create" /\ server.made = 0 => n.status = "PENDING_ADMIN_APPROVAL"
             /\ n.reserved = server.reserved \/ (what.op = "approve" /\ Reserves(what, server, n))
<1> DEFINE n == Handled(p, what, server)
<1>0. server \in ServerType /\ server.made \in Nat /\ server.photos \in Nat
  BY DEF ServerInv, ServerType
<1>1. ASSUME server.status # "ABSENT", Follows(server, n), n.made = server.made, n.status # "ABSENT",
             what.op # "create", n.reserved = server.reserved \/ (what.op = "approve" /\ Reserves(what, server, n))
      PROVE  /\ Follows(server, n) /\ NotYet(n)
             /\ n.made = IF what.op = "create" THEN server.made + 1 ELSE server.made
             /\ what.op = "create" => n.photos = server.photos
             /\ what.op = "create" /\ server.made = 0 => n.status = "PENDING_ADMIN_APPROVAL"
             /\ n.reserved = server.reserved \/ (what.op = "approve" /\ Reserves(what, server, n))
  BY <1>1 DEF NotYet
<1>2. ASSUME n \in ServerType, n.last = server.last, n.winner = server.winner, n.offers = server.offers,
             n.resent = server.resent, n.winner # 0 => n.status \in {"APPROVED_FOR_REPAIR", "IN_REPAIR", "COMPLETED"}
      PROVE  Follows(server, n)
  BY <1>0, <1>2 DEF Follows, ServerInv, ServerType, OffersApart, Winning
<1>3. CASE what.op = "create"
  <2>1. n = IF server.made = 0 THEN [server EXCEPT !.made = 1, !.status = "PENDING_ADMIN_APPROVAL"]
            ELSE [server EXCEPT !.made = server.made + 1]
    BY <1>3 DEF Handled
  <2> HIDE DEF n
  <2>2. CASE server.made = 0
    <3>1. /\ n \in ServerType /\ n.last = server.last /\ n.winner = server.winner /\ n.offers = server.offers
          /\ n.resent = server.resent /\ n.made = 1 /\ n.status = "PENDING_ADMIN_APPROVAL"
          /\ n.photos = server.photos /\ n.reserved = server.reserved
      BY <1>0, <2>1, <2>2 DEF ServerType, TicketStatuses
    <3>2. n.winner = 0
      BY <2>2, <3>1 DEF NotYet, ServerInv, Winning
    <3>3. Follows(server, n)
      BY <1>2, <3>1, <3>2
    <3> QED
      BY <1>3, <2>2, <3>1, <3>3 DEF NotYet, n
  <2>3. CASE server.made # 0
    <3>1. PICK m \in Nat : m = server.made + 1
      BY <1>0
    <3>2. /\ n \in ServerType /\ n.last = server.last /\ n.winner = server.winner /\ n.offers = server.offers
          /\ n.resent = server.resent /\ n.made = m /\ n.status = server.status
          /\ n.photos = server.photos /\ n.reserved = server.reserved
      BY <1>0, <2>1, <2>3, <3>1 DEF ServerType
    <3>3. Follows(server, n)
      BY <1>2, <3>2 DEF ServerInv, Winning
    <3>4. NotYet(n)
      BY <1>0, <2>3, <3>1, <3>2 DEF NotYet
    <3> QED
      BY <1>3, <2>3, <3>1, <3>2, <3>3, <3>4 DEF n
  <2> QED
    BY <2>2, <2>3
<1>4. CASE what.op = "photo"
  <2>1. n = [server EXCEPT !.photos = server.photos + 1] /\ server.status \in Attachable
    BY <1>4 DEF Handled, Accepts
  <2>2. PICK m \in Nat : m = server.photos + 1
    BY <1>0
  <2> HIDE DEF n
  <2>3. /\ n \in ServerType /\ n.last = server.last /\ n.winner = server.winner /\ n.offers = server.offers
        /\ n.resent = server.resent /\ n.made = server.made /\ n.status = server.status /\ n.reserved = server.reserved
    BY <1>0, <2>1, <2>2 DEF ServerType
  <2>4. Follows(server, n)
    BY <1>2, <2>3 DEF ServerInv, Winning
  <2> QED
    BY <1>1, <1>4, <2>1, <2>3, <2>4 DEF n, Attachable
<1>5. CASE what.op \in {"assign", "reassign"}
  <2>1. n = Invite(server, what.garages) /\ what.garages \in SUBSET Garages
    BY <1>5, WhatIsOffered DEF Handled
  <2>2. server.status \in {"PENDING_ADMIN_APPROVAL", "AWAITING_QUOTES"}
    BY <1>5 DEF Accepts
  <2>3. server.winner = 0
    BY <2>2 DEF ServerInv, Winning
  <2> HIDE DEF n
  <2>4. Follows(server, n) /\ n.made = server.made /\ n.reserved = server.reserved /\ n.status = "AWAITING_QUOTES"
    BY <2>1, <2>3, InviteFollows
  <2> QED
    BY <1>1, <1>5, <2>2, <2>4 DEF n
<1>6. CASE what.op = "reject"
  <2>1. PICK status \in {"REJECTED_FINAL", "REJECTED_BY_ADMIN"} : n = [server EXCEPT !.status = status]
    BY <1>6 DEF Handled
  <2>2. server.status \in {"PENDING_ADMIN_APPROVAL", "AWAITING_QUOTES"}
    BY <1>6 DEF Accepts
  <2> HIDE DEF n
  <2>3. /\ n \in ServerType /\ n.last = server.last /\ n.winner = server.winner /\ n.offers = server.offers
        /\ n.resent = server.resent /\ n.made = server.made /\ n.status = status /\ n.reserved = server.reserved
    BY <1>0, <2>1 DEF ServerType, TicketStatuses
  <2>4. Follows(server, n)
    BY <1>2, <2>2, <2>3 DEF ServerInv, Winning
  <2> QED
    BY <1>1, <1>6, <2>2, <2>3, <2>4 DEF n
<1>7. CASE what.op = "approve"
  <2>1. what.id # 0 /\ server.status = "AWAITING_QUOTES"
    BY <1>7, WhatIsOffered DEF Accepts
  <2>2. PICK g \in GarageOf(what.id, server) : ~server.offers[g].declined
    BY <1>7 DEF Accepts, Chosen
  <2>3. n = ApprovedWith(server, CHOOSE h \in GarageOf(what.id, server) : TRUE)
    BY <1>7 DEF Handled, Chosen
  <2>4. n = ApprovedWith(server, g) /\ g \in Garages /\ server.offers[g].id = what.id
    BY <2>1, <2>2, <2>3, OneGarage DEF GarageOf
  <2> HIDE DEF n
  <2>5. /\ Follows(server, n) /\ n.made = server.made /\ n.status = "APPROVED_FOR_REPAIR"
        /\ n.reserved = server.reserved \cup
             {[id |-> server.offers[g].id, price |-> server.offers[g].price, shown |-> picked.price]}
    BY <2>2, <2>4, ApprovedFollows
  <2>6. Reserves(what, server, n)
    BY <2>2, <2>4, <2>5 DEF Reserves
  <2> QED
    BY <1>1, <1>7, <2>1, <2>5, <2>6 DEF n
<1>8. CASE what.op = "submit"
  <2>1. what.id # 0 /\ what.price \in Nat /\ server.status = "AWAITING_QUOTES"
    BY <1>8, WhatIsOffered, DeskConstants DEF Accepts
  <2>2. PICK g : g \in GarageOf(what.id, server)
    BY <1>8 DEF Accepts
  <2>3. n = Submitted(server, CHOOSE h \in GarageOf(what.id, server) : TRUE, what.price)
    BY <1>8 DEF Handled
  <2>4. n = Submitted(server, g, what.price) /\ g \in Garages /\ server.offers[g].id # 0
    BY <2>1, <2>2, <2>3, OneGarage DEF GarageOf
  <2> HIDE DEF n
  <2>5. Follows(server, n) /\ n.made = server.made /\ n.reserved = server.reserved /\ n.status = server.status
    BY <2>1, <2>4, SubmittedFollows
  <2> QED
    BY <1>1, <1>8, <2>1, <2>5 DEF n
<1>9. CASE what.op = "decline"
  <2>1. n = [server EXCEPT !.offers[p].declined = TRUE] /\ p \in Garages /\ server.status = "AWAITING_QUOTES"
    BY <1>9, WhatIsOffered DEF Handled, Accepts
  <2>2. server.offers[p] \in OfferType /\ server.winner = 0
    BY <1>0, <2>1 DEF ServerType, ServerInv, Winning
  <2> DEFINE offer == [server.offers[p] EXCEPT !.declined = TRUE]
  <2>3. offer \in OfferType /\ offer.id = server.offers[p].id /\ offer.price = server.offers[p].price
    BY <2>2 DEF OfferType
  <2>4. n = [server EXCEPT !.offers = [server.offers EXCEPT ![p] = offer]]
    BY <1>0, <2>1 DEF ServerType
  <2> HIDE DEF offer
  <2>o. PICK offers \in [Garages -> OfferType] : offers = [server.offers EXCEPT ![p] = offer]
    BY <1>0, <2>3 DEF ServerType
  <2>n. n = [server EXCEPT !.offers = offers]
    BY <2>4, <2>o
  <2> HIDE DEF n
  <2>5. /\ n \in ServerType /\ n.last = server.last /\ n.winner = 0 /\ n.resent = server.resent
        /\ n.made = server.made /\ n.status = server.status /\ n.reserved = server.reserved
        /\ n.offers[p] = offer /\ \A h \in Garages : h # p => n.offers[h] = server.offers[h]
    <3>1. /\ n \in ServerType /\ n.last = server.last /\ n.winner = server.winner /\ n.resent = server.resent
          /\ n.made = server.made /\ n.status = server.status /\ n.reserved = server.reserved
          /\ n.offers = offers
      BY <1>0, <2>n DEF ServerType
    <3>2. server.offers \in [Garages -> OfferType]
      BY <1>0 DEF ServerType
    <3> QED
      BY <2>1, <2>2, <2>o, <3>1, <3>2
  <2>6. \A h \in Garages : n.offers[h].id = server.offers[h].id /\ n.offers[h].price = server.offers[h].price
    BY <2>3, <2>5
  <2>7. OffersApart(n) /\ Winning(n)
    BY <2>5, <2>6 DEF ServerInv, OffersApart, Winning
  <2>8. Follows(server, n)
    BY <1>0, <2>5, <2>6, <2>7 DEF Follows, ServerInv, ServerType
  <2> QED
    BY <1>1, <1>9, <2>1, <2>5, <2>8 DEF n
<1>10. CASE what.op \in {"start", "complete"}
  <2>1. PICK status \in {"IN_REPAIR", "COMPLETED"} : n = [server EXCEPT !.status = status]
    BY <1>10 DEF Handled
  <2>2. server.status \in {"APPROVED_FOR_REPAIR", "IN_REPAIR"}
    BY <1>10 DEF Accepts
  <2> HIDE DEF n
  <2>3. /\ n \in ServerType /\ n.last = server.last /\ n.winner = server.winner /\ n.offers = server.offers
        /\ n.resent = server.resent /\ n.made = server.made /\ n.status = status /\ n.reserved = server.reserved
    BY <1>0, <2>1 DEF ServerType, TicketStatuses
  <2>4. Follows(server, n)
    BY <1>2, <2>3
  <2> QED
    BY <1>1, <1>10, <2>2, <2>3, <2>4 DEF n
<1> QED
  BY <1>3, <1>4, <1>5, <1>6, <1>7, <1>8, <1>9, <1>10, WhatIsOffered

LEMMA DeskStarts == DeskInit => DeskInv
<1> SUFFICES ASSUME DeskInit PROVE DeskInv
  OBVIOUS
<1>1. NoOffer \in OfferType /\ NoOffer.id = 0
  BY DEF NoOffer, OfferType
<1>2. /\ server \in ServerType /\ server.made = 0 /\ server.status = "ABSENT" /\ server.winner = 0
      /\ server.photos = 0 /\ server.reserved = {} /\ \A g \in Garages : server.offers[g] = NoOffer
      /\ server.last = 0
  <2>1. PICK left \in Funds :
          server = [made |-> 0, status |-> "ABSENT", winner |-> 0, photos |-> 0, last |-> 0,
                    offers |-> [g \in Garages |-> NoOffer], resent |-> {}, left |-> left, reserved |-> {}]
    BY DEF DeskInit
  <2>2. left \in Int
    BY DeskConstants
  <2>3. PICK offers \in [Garages -> OfferType] : offers = [g \in Garages |-> NoOffer]
    BY <1>1
  <2> QED
    BY <2>1, <2>2, <2>3 DEF ServerType, TicketStatuses
<1>3. /\ context \in [left : Int, offers : [Garages -> OfferType]]
      /\ \A g \in Garages : context.offers[g].id = 0
  BY <1>1 DEF DeskInit, NoContext
<1>4. picked = NoPick /\ picked \in [id : Nat, price : Nat] /\ picked.id = 0
  BY DEF DeskInit, NoPick
<1>5. form = "form" /\ page = [p \in Pages |-> page[p]]
  BY DEF DeskInit
<1>6. ServerInv(server)
  BY <1>1, <1>2 DEF ServerInv, OffersApart, Winning
<1> QED
  BY <1>2, <1>3, <1>4, <1>5, <1>6 DEF DeskInv, NotYet, Shown, AsOffered, OneTicketPerForm

(* Pages change, the ticket does not.                                                *)
LEMMA DeskKeeps ==
  ASSUME DeskInv, NEW n, server' = n, Follows(server, n), NotYet(n), Shown(n),
         context' = context \/ context' = Context(n),
         picked' = picked \/ picked' = NoPick
           \/ \E g \in Garages : /\ picked' = [id |-> context.offers[g].id, price |-> context.offers[g].price]
                                 /\ context.offers[g].id # 0 /\ context.offers[g].price # 0
  PROVE  /\ ServerInv(server)' /\ NotYet(server)' /\ Shown(server)'
         /\ context' \in [left : Int, offers : [Garages -> OfferType]]
         /\ \A g \in Garages : AsOffered(context'.offers[g].id, context'.offers[g].price, server')
         /\ picked' \in [id : Nat, price : Nat] /\ AsOffered(picked'.id, picked'.price, server')
         /\ picked' # NoPick => picked'.id # 0 /\ picked'.price # 0
<1>1. ServerInv(server)' /\ NotYet(server)' /\ Shown(server)'
  BY DEF ServerInv, Follows, OffersApart, Winning, NotYet, Shown
<1>2. \A id, price \in Nat : AsOffered(id, price, server) => AsOffered(id, price, n)
  BY OfferStays DEF DeskInv
<1>3. \A g \in Garages : /\ context.offers[g] \in OfferType /\ context.offers[g].id \in Nat
                         /\ context.offers[g].price \in Nat
                         /\ AsOffered(context.offers[g].id, context.offers[g].price, n)
  BY <1>2 DEF DeskInv, OfferType
<1>4. /\ n.left \in Int /\ n.offers \in [Garages -> OfferType]
      /\ \A g \in Garages : AsOffered(n.offers[g].id, n.offers[g].price, n)
  BY DEF Follows, ServerInv, ServerType, OffersApart, AsOffered
<1>5. /\ context' \in [left : Int, offers : [Garages -> OfferType]]
      /\ \A g \in Garages : AsOffered(context'.offers[g].id, context'.offers[g].price, n)
  <2>1. CASE context' = context
    BY <1>3, <2>1 DEF DeskInv
  <2>2. CASE context' = Context(n)
    BY <1>4, <2>2 DEF Context
  <2> QED
    BY <2>1, <2>2
<1>6. /\ picked' \in [id : Nat, price : Nat] /\ AsOffered(picked'.id, picked'.price, n)
      /\ picked' # NoPick => picked'.id # 0 /\ picked'.price # 0
  <2>1. CASE picked' = picked
    <3>1. picked.id \in Nat /\ picked.price \in Nat
      BY DEF DeskInv
    <3> QED
      BY <1>2, <2>1, <3>1 DEF DeskInv
  <2>2. CASE picked' = NoPick
    BY <2>2 DEF NoPick, AsOffered
  <2>3. ASSUME NEW g \in Garages, context.offers[g].id # 0, context.offers[g].price # 0,
               picked' = [id |-> context.offers[g].id, price |-> context.offers[g].price]
        PROVE  /\ picked' \in [id : Nat, price : Nat] /\ AsOffered(picked'.id, picked'.price, n)
               /\ picked' # NoPick => picked'.id # 0 /\ picked'.price # 0
    BY <1>3, <2>3
  <2> QED
    BY <2>1, <2>2, <2>3
<1> QED
  BY <1>1, <1>5, <1>6

LEMMA Standing == ServerInv(server) => Follows(server, server)
BY DEF Follows, ServerInv, ServerType

LEMMA DeskStep == DeskInv /\ [DeskNext]_deskVars => DeskInv'
<1> SUFFICES ASSUME DeskInv, [DeskNext]_deskVars PROVE DeskInv'
  OBVIOUS
<1>0. /\ ServerInv(server) /\ NotYet(server) /\ Shown(server) /\ Follows(server, server)
      /\ page = [p \in Pages |-> page[p]] /\ server.made \in Nat
  BY Standing DEF DeskInv, ServerInv, ServerType
<1>e. "executor" \in Pages /\ "executor" \notin Garages /\ "admin" \in Pages /\ "admin" # "executor"
  BY DeskConstants DEF Pages
<1>p. ASSUME NEW p \in Pages, NEW v
      PROVE  LET w == [page EXCEPT ![p] = v]
             IN  w = [q \in Pages |-> w[q]] /\ w[p] = v /\ (p # "executor" => w["executor"] = page["executor"])
  BY <1>0, <1>e
<1>1. CASE UNCHANGED deskVars
  BY <1>1
     DEF deskVars, DeskInv, ServerInv, NotYet, Shown, OffersApart, Winning, AsOffered,
         OneTicketPerForm
<1>2. ASSUME NEW p \in Pages, Open(p) PROVE DeskInv'
  <2>1. /\ server' = server /\ context' = context /\ lost' = lost /\ (picked' = picked \/ picked' = NoPick)
        /\ page' = [page EXCEPT ![p] = View(p, server)]
        /\ IF p = "executor" THEN form' = "detail" ELSE form' = form
    BY <1>2 DEF Open
  <2>2. page' = [q \in Pages |-> page'[q]] /\ (form' = "photos" => page'["executor"] = page["executor"])
    BY <1>p, <2>1
  <2>3. form' = "photos" => form = "photos"
    BY <2>1
  <2>4. form' = "form" => form = "form"
    BY <2>1
  <2> QED
    BY <1>0, <2>1, <2>2, <2>3, <2>4, DeskKeeps DEF DeskInv, OneTicketPerForm
<1>3. CASE ReadContext
  BY <1>0, <1>3, DeskKeeps DEF ReadContext, DeskInv, OneTicketPerForm
<1>4. ASSUME NEW g \in Garages, Pick(g) PROVE DeskInv'
  <2>1. /\ UNCHANGED <<server, page, context, form, lost>>
        /\ picked' = [id |-> context.offers[g].id, price |-> context.offers[g].price]
        /\ context.offers[g].id # 0 /\ context.offers[g].price # 0
    BY <1>4 DEF Pick, Selectable
  <2> QED
    BY <1>0, <2>1, DeskKeeps DEF DeskInv, OneTicketPerForm
<1>5. ASSUME NEW what \in Offered("executor"), RequestFails(what) PROVE DeskInv'
  <2>1. UNCHANGED <<server, page, context, picked, lost>> /\ form' = IF what.op = "photo" THEN "detail" ELSE form
    BY <1>5 DEF RequestFails, AfterError
  <2> QED
    BY <1>0, <2>1, DeskKeeps DEF DeskInv, OneTicketPerForm
<1>6. CASE BudgetMoves
  <2>1. PICK left \in Funds : server' = [server EXCEPT !.left = left]
    BY <1>6 DEF BudgetMoves
  <2>2. left \in Int /\ UNCHANGED <<page, context, form, picked, lost>>
    BY <1>6, DeskConstants DEF BudgetMoves
  <2> DEFINE n == [server EXCEPT !.left = left]
  <2>3. /\ n \in ServerType /\ n.last = server.last /\ n.winner = server.winner /\ n.offers = server.offers
        /\ n.resent = server.resent /\ n.status = server.status /\ n.reserved = server.reserved
        /\ n.made = server.made /\ n.photos = server.photos
    BY <1>0, <2>2 DEF ServerInv, ServerType
  <2>4. server' = n
    BY <2>1
  <2> HIDE DEF n
  <2>5. Follows(server, n) /\ NotYet(n) /\ Shown(n)
    BY <1>0, <2>3 DEF Follows, ServerInv, OffersApart, Winning, NotYet, Shown
  <2> QED
    BY <1>0, <2>2, <2>3, <2>4, <2>5, DeskKeeps DEF DeskInv, OneTicketPerForm
<1>h. ASSUME NEW p \in Pages, NEW what \in Offered(p), Accepts(p, what, server), server' = Handled(p, what, server)
      PROVE  /\ Follows(server, server') /\ NotYet(server') /\ Shown(server')
             /\ server'.made = IF what.op = "create" THEN server.made + 1 ELSE server.made
             /\ what.op = "create" /\ server.made = 0 =>
                  server'.status = "PENDING_ADMIN_APPROVAL" /\ server'.photos = 0
  <2> DEFINE n == Handled(p, what, server)
  <2>1. /\ Follows(server, n) /\ NotYet(n)
        /\ n.made = IF what.op = "create" THEN server.made + 1 ELSE server.made
        /\ what.op = "create" => n.photos = server.photos
        /\ what.op = "create" /\ server.made = 0 => n.status = "PENDING_ADMIN_APPROVAL"
        /\ n.reserved = server.reserved \/ (what.op = "approve" /\ Reserves(what, server, n))
    BY <1>0, <1>h, HandledFollows DEF DeskInv
  <2>2. server' = n
    BY <1>h
  <2> HIDE DEF n
  <2>3. Shown(n)
    <3>1. \A r \in server.reserved : r.price = r.shown \/ r.id \in n.resent
      BY <1>0, <2>1 DEF Shown, Follows
    <3>2. ASSUME what.op = "approve", Reserves(what, server, n), NEW r \in n.reserved
          PROVE  r.price = r.shown \/ r.id \in n.resent
      <4>1. PICK g \in GarageOf(what.id, server) :
              n.reserved = server.reserved \cup {[id |-> what.id, price |-> server.offers[g].price, shown |-> picked.price]}
        BY <3>2 DEF Reserves
      <4>2. what.id = picked.id /\ picked # NoPick
        BY <3>2, WhatIsOffered
      <4>3. server.offers[g].price = picked.price \/ what.id \in server.resent
        BY <4>1, <4>2 DEF DeskInv, AsOffered, GarageOf
      <4>4. server.resent \subseteq n.resent
        BY <2>1 DEF Follows
      <4> QED
        BY <3>1, <4>1, <4>3, <4>4
    <3> QED
      BY <2>1, <3>1, <3>2 DEF Shown
  <2> QED
    BY <1>0, <2>1, <2>2, <2>3 DEF NotYet
<1>7. ASSUME NEW p \in Pages, NEW what \in Offered(p), Answer(p, what) PROVE DeskInv'
  <2>1. /\ Accepts(p, what, server) /\ server' = Handled(p, what, server) /\ UNCHANGED <<picked, lost>>
        /\ page' = [page EXCEPT ![p] = View(p, server')]
        /\ context' = context \/ context' = Context(server')
        /\ form' = IF p = "executor" THEN AfterAnswer(what) ELSE form
    BY <1>7 DEF Answer
  <2>2. /\ Follows(server, server') /\ NotYet(server') /\ Shown(server')
        /\ server'.made = IF what.op = "create" THEN server.made + 1 ELSE server.made
        /\ what.op = "create" /\ server.made = 0 =>
             server'.status = "PENDING_ADMIN_APPROVAL" /\ server'.photos = 0
    BY <1>h, <2>1
  <2>3. page' = [q \in Pages |-> page'[q]] /\ page'[p] = View(p, server')
        /\ (p # "executor" => page'["executor"] = page["executor"])
    BY <1>p, <2>1
  <2>4. form' = "photos" => page'["executor"].status = "PENDING_ADMIN_APPROVAL" /\ page'["executor"].photos = 0
    <3>1. CASE p # "executor"
      BY <2>1, <2>3, <3>1 DEF DeskInv
    <3>2. CASE p = "executor"
      <4> SUFFICES ASSUME form' = "photos" PROVE page'["executor"].status = "PENDING_ADMIN_APPROVAL" /\ page'["executor"].photos = 0
        OBVIOUS
      <4>1. what.op = "create" /\ server.made = 0
        BY <1>e, <2>1, <3>2, WhatIsOffered DEF AfterAnswer
      <4> QED
        BY <1>e, <2>2, <2>3, <3>2, <4>1 DEF View, Attachable
    <3> QED
      BY <3>1, <3>2
  <2>5. form' = "form" => form = "form" /\ what.op # "create"
    BY <1>e, <2>1, WhatIsOffered DEF AfterAnswer
  <2>6. server'.made > 1 => "create" \in lost'
    BY <1>0, <1>e, <2>1, <2>2, WhatIsOffered DEF DeskInv, OneTicketPerForm
  <2>7. form' = "form" /\ server'.made # 0 => "create" \in lost'
    BY <2>1, <2>2, <2>5 DEF DeskInv
  <2> QED
    BY <2>1, <2>2, <2>3, <2>4, <2>6, <2>7, DeskKeeps DEF DeskInv, OneTicketPerForm
<1>8. ASSUME NEW p \in Pages, NEW what \in Offered(p), AnswerIsLost(p, what) PROVE DeskInv'
  <2>1. /\ Accepts(p, what, server) /\ server' = Handled(p, what, server) /\ UNCHANGED <<page, context, picked>>
        /\ form' = IF p = "executor" THEN AfterError(what) ELSE form
        /\ lost' = lost \cup {what.op}
    BY <1>8 DEF AnswerIsLost
  <2>2. /\ Follows(server, server') /\ NotYet(server') /\ Shown(server')
        /\ server'.made = IF what.op = "create" THEN server.made + 1 ELSE server.made
    BY <1>h, <2>1
  <2>3. form' = "photos" => form = "photos"
    BY <2>1 DEF AfterError
  <2>4. form' = "form" => form = "form"
    BY <2>1 DEF AfterError
  <2>5. /\ server'.made > 1 => "create" \in lost'
        /\ form' = "form" /\ server'.made # 0 => "create" \in lost'
    BY <1>0, <2>1, <2>2, <2>4 DEF DeskInv, OneTicketPerForm
  <2> QED
    BY <1>0, <2>1, <2>2, <2>3, <2>5, DeskKeeps DEF DeskInv, OneTicketPerForm
<1> QED
  BY <1>1, <1>2, <1>3, <1>4, <1>5, <1>6, <1>7, <1>8 DEF DeskNext

(* However the photos of a form fare, it makes one ticket; a second one only when the   *)
(* executor was answered with an error although the first was made: TicketCreateForm.   *)
THEOREM OneTicketIsMade == DeskSpec => []OneTicketPerForm
<1>1. DeskInv => OneTicketPerForm
  BY DEF DeskInv
<1> QED
  BY <1>1, DeskStarts, DeskStep, PTL DEF DeskSpec

(* What approveTicket reserves is the price the administrator was shown when the quote   *)
(* was chosen, whatever has moved since, unless the workshop has sent that quote again.  *)
THEOREM WhatIsShownIsReserved == DeskSpec => []ApprovedAsShown
<1>1. DeskInv => ApprovedAsShown
  BY DEF DeskInv, Shown, ApprovedAsShown
<1> QED
  BY <1>1, DeskStarts, DeskStep, PTL DEF DeskSpec

(* A page that is up to date offers nothing the handlers refuse, and the list of a        *)
(* workshop sends it to a ticket exactly when its page lets it do something there.         *)
THEOREM OffersStayTaken == DeskSpec => []OffersAreTaken
<1>1. DeskInv => OffersAreTaken
  <2> SUFFICES ASSUME DeskInv PROVE OffersAreTaken
    OBVIOUS
  <2>0. /\ server \in ServerType /\ OffersApart(server) /\ Winning(server) /\ "executor" \notin Garages
        /\ "admin" \notin Garages /\ MaxPhotos \in Nat \ {0}
    BY DeskConstants DEF DeskInv, ServerInv
  <2>1. ASSUME UpToDate("executor"), NEW what \in Offered("executor") PROVE Accepts("executor", what, server)
    <3>1. what \in ExecutorOffers(page["executor"])
      BY <2>0, <2>1 DEF Offered
    <3>2. /\ page["executor"].status = IF server.status \in Attachable THEN server.status ELSE "CLOSED"
          /\ page["executor"].photos = server.photos
      BY <2>0, <2>1 DEF UpToDate, View
    <3>3. CASE form = "form"
      <4>1. what.op = "create"
        BY <3>1, <3>3 DEF ExecutorOffers
      <4> QED
        BY <4>1 DEF Accepts
    <3>4. CASE form # "form"
      <4>1. what.op = "photo" /\ (form = "photos" \/ (page["executor"].status \in Attachable /\ page["executor"].photos < MaxPhotos))
        BY <3>1, <3>4 DEF ExecutorOffers
      <4>2. server.status \in Attachable /\ server.photos < MaxPhotos
        BY <2>0, <3>2, <4>1 DEF DeskInv, Attachable
      <4> QED
        BY <4>1, <4>2 DEF Accepts
    <3> QED
      BY <3>3, <3>4
  <2>2. ASSUME UpToDate("admin"), NEW what \in Offered("admin") PROVE Accepts("admin", what, server)
    <3>1. what \in AdminOffers(page["admin"])
      BY <2>0, <2>2 DEF Offered
    <3>2. page["admin"].status = IF server.status \in Attachable THEN server.status ELSE "CLOSED"
      BY <2>0, <2>2 DEF UpToDate, View
    <3>3. CASE server.status = "PENDING_ADMIN_APPROVAL"
      <4>1. what.op \in {"assign", "reject"}
        BY <3>1, <3>2, <3>3 DEF AdminOffers, Attachable
      <4> QED
        BY <3>3, <4>1 DEF Accepts
    <3>4. CASE server.status = "AWAITING_QUOTES"
      <4>1. what.op \in {"reassign", "reject"} \/ (what.op = "approve" /\ what.id = picked.id /\ picked # NoPick)
        BY <3>1, <3>2, <3>4 DEF AdminOffers, Attachable
      <4>2. CASE what.op \in {"reassign", "reject"}
        BY <3>4, <4>2 DEF Accepts
      <4>3. CASE what.op = "approve" /\ what.id = picked.id /\ picked # NoPick
        <5>1. PICK g \in Garages : server.offers[g].id = picked.id /\ Selectable(server.offers[g], server.left)
          BY <2>2, <4>3 DEF UpToDate
        <5>2. g \in Chosen(what, server) /\ server.offers[g].price # 0 /\ ~server.offers[g].declined
              /\ server.offers[g].price <= server.left
          BY <4>3, <5>1 DEF Chosen, GarageOf, Selectable
        <5> QED
          BY <3>4, <4>3, <5>2 DEF Accepts
      <4> QED
        BY <4>1, <4>2, <4>3
    <3>5. CASE server.status \notin Attachable
      BY <3>1, <3>2, <3>5 DEF AdminOffers, Attachable
    <3> QED
      BY <3>3, <3>4, <3>5 DEF Attachable
  <2>3. ASSUME NEW p \in Garages, UpToDate(p), NEW what \in Offered(p) PROVE Accepts(p, what, server)
    <3>1. p # "executor" /\ p # "admin"
      BY <2>0
    <3>2. what \in WorkshopOffers(page[p])
      BY <2>3, <3>1 DEF Offered
    <3>3. /\ page[p].status = server.status /\ page[p].mine = server.offers[p]
          /\ page[p].won => server.winner # 0 /\ server.winner = server.offers[p].id
      <4>1. page[p] = View(p, server)
        BY <2>3 DEF UpToDate
      <4>2. /\ View(p, server).status = server.status /\ View(p, server).mine = server.offers[p]
            /\ View(p, server).won => server.winner # 0 /\ server.winner = server.offers[p].id
        BY DEF View
      <4> QED
        BY <4>1, <4>2
    <3>4. CASE server.status = "AWAITING_QUOTES"
      <4>1. PICK id : id = server.offers[p].id
        OBVIOUS
      <4>2. /\ ~server.offers[p].declined /\ server.offers[p].price = 0
            /\ what \in [op : {"submit"}, id : {id}, price : Prices] \cup {[op |-> "decline", id |-> id]}
        BY <3>2, <3>3, <3>4, <4>1 DEF WorkshopOffers, MayStillQuote
      <4>3. what.op \in {"submit", "decline"} /\ what.id = id
        BY <4>2
      <4>4. p \in GarageOf(what.id, server)
        BY <4>1, <4>3 DEF GarageOf
      <4> QED
        BY <3>4, <4>2, <4>3, <4>4 DEF Accepts
    <3>5. CASE server.status # "AWAITING_QUOTES"
      <4>1. \/ what.op = "start" /\ server.status = "APPROVED_FOR_REPAIR" /\ server.winner = server.offers[p].id
            \/ what.op = "complete" /\ server.status = "IN_REPAIR" /\ server.winner = server.offers[p].id
        BY <3>2, <3>3, <3>5 DEF WorkshopOffers
      <4> QED
        BY <4>1 DEF Accepts
    <3> QED
      BY <3>4, <3>5
  <2>4. ASSUME NEW g \in Garages, Lists(g, server)
        PROVE  Listed(g, server) \in {"TO_QUOTE", "TO_START", "IN_REPAIR"} <=> WorkshopOffers(View(g, server)) # {}
    <3> DEFINE mine == server.offers[g]
               seen == View(g, server)
    <3>1. /\ seen.status = server.status /\ seen.mine = mine /\ mine.id # 0
          /\ seen.won <=> server.winner = mine.id
      BY <2>4 DEF View, Lists
    <3>2. seen.won => ~mine.declined
      BY <2>0, <3>1 DEF Winning
    <3> HIDE DEF seen
    <3>3. CASE server.status = "AWAITING_QUOTES"
      <4>1. ~seen.won
        BY <2>0, <3>1, <3>3 DEF Winning
      <4>2. WorkshopOffers(seen) # {} <=> ~mine.declined /\ mine.price = 0
        <5>1. MayStillQuote(mine) <=> ~mine.declined /\ mine.price = 0
          BY <3>1 DEF MayStillQuote
        <5>2. [op |-> "decline", id |-> mine.id] \in
                [op : {"submit"}, id : {mine.id}, price : Prices] \cup {[op |-> "decline", id |-> mine.id]}
          OBVIOUS
        <5>3. WorkshopOffers(seen) =
                IF MayStillQuote(mine)
                THEN [op : {"submit"}, id : {mine.id}, price : Prices] \cup {[op |-> "decline", id |-> mine.id]}
                ELSE {}
          BY <3>1, <3>3 DEF WorkshopOffers
        <5> QED
          BY <5>1, <5>2, <5>3
      <4> QED
        BY <3>3, <4>2 DEF Listed, seen
    <3>4. CASE server.status # "AWAITING_QUOTES"
      <4>1. WorkshopOffers(seen) # {} <=> seen.won /\ server.status \in {"APPROVED_FOR_REPAIR", "IN_REPAIR"}
        BY <3>1, <3>4 DEF WorkshopOffers
      <4> QED
        BY <3>1, <3>2, <3>4, <4>1 DEF Listed, seen
    <3> QED
      BY <3>3, <3>4
  <2> QED
    BY <2>1, <2>2, <2>3, <2>4 DEF OffersAreTaken, Pages
<1> QED
  BY <1>1, DeskStarts, DeskStep, PTL DEF DeskSpec
=============================================================================
