----------------------------- MODULE MCProgress -----------------------------
(* One run for what has to happen in the end.  A behaviour is one of the systems   *)
(* that part names; the variables of the others stand still.                        *)
EXTENDS BudgetSweep, Compliance, ReportJobs, ReportDesk

VARIABLE part

progressVars == <<sweepVars, complianceVars, vars, reportDeskVars, part>>

OneReport == 1..1

OnlySweep == part = "sweep" /\ UNCHANGED <<complianceVars, vars, reportDeskVars, part>>
OnlyCompliance == part = "compliance" /\ UNCHANGED <<sweepVars, vars, reportDeskVars, part>>
OnlyReports == part = "reports" /\ UNCHANGED <<sweepVars, complianceVars, reportDeskVars, part>>
OnlyDesk == part = "desk" /\ UNCHANGED <<sweepVars, complianceVars, vars, part>>

ProgressInit ==
  /\ SweepInit /\ ComplianceInit /\ Init /\ ReportDeskInit
  /\ part \in {"sweep", "compliance", "reports", "desk"} /\ (part # "sweep" => now = 1)

ProgressNext ==
  \/ part = "sweep" /\ SweepNext /\ OnlySweep
  \/ part = "compliance" /\ ComplianceNext /\ OnlyCompliance
  \/ part = "reports" /\ Next /\ OnlyReports
  \/ part = "desk" /\ ReportDeskNext /\ OnlyDesk

(* SweepFairness, ComplianceFairness, Fairness of ReportJobs, and that of          *)
(* ReportDesk.  A behaviour has one part, so that fairness of a disjunction with one action of each part is      *)
(* fairness of each of them.                                                        *)
ProgressSpec ==
  /\ ProgressInit /\ [][ProgressNext]_progressVars
  /\ WF_progressVars(\/ part = "sweep" /\ SweepGoesOn /\ OnlySweep
                     \/ part = "compliance" /\ DayBegins /\ OnlyCompliance
                     \/ part = "reports" /\ Sweep(1) /\ OnlyReports
                     \/ part = "desk" /\ SomeRunEnds /\ OnlyDesk)
  /\ WF_progressVars(\/ part = "compliance" /\ JobStep /\ OnlyCompliance
                     \/ part = "reports" /\ Redeliver(1) /\ OnlyReports
                     \/ part = "desk" /\ ListingGoesOn /\ OnlyDesk)
  /\ SF_complianceVars(part = "compliance" /\ ApplyStatuses)
  /\ \A d \in Dispatchers : WF_vars(part = "reports" /\ Dispatch(d))
  /\ \A w \in Workers : WF_vars(part = "reports" /\ (Take(w) \/ Attempt(w)))
=============================================================================
