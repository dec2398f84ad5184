------------------------------ MODULE ReportDesk ------------------------------
(* The page of the monthly reports: it asks for a report, reads the list again after its   *)
(* own successes, every ten seconds while the list shows a report in process, and when the  *)
(* page is opened; and it fetches the files of a report that the list shows as completed.   *)
EXTENDS Integers, FiniteSets

CONSTANTS
  LastRun,      \* bound on the reports
  Months,       \* months a report is asked for
  MaxLostReads  \* bound on the readings of the list that fail for good

ASSUME ReportDeskConstants == {LastRun, MaxLostReads} \subseteq Nat

VARIABLES
  history,      \* the rows of report_history, as GET / serializes them
  shownRuns,    \* the list as it is cached
  listing,      \* the request for the list: what it brings back
  asking,       \* the request for a new report
  fetching,     \* the file that is asked for with HEAD, and was offered or refused
  lostReads

reportDeskVars == <<history, shownRuns, listing, asking, fetching, lostReads>>

NoRun == [month |-> 0, status |-> "none"]
Runs == 1..LastRun
Nothing == [r \in Runs |-> NoRun]
AtRest == [step |-> "none", list |-> Nothing]
NotAsking == [step |-> "none", month |-> 0]
NoFile == [run |-> 0, step |-> "none"]
Started == {r \in Runs : history[r] # NoRun}
Running(r) == history[r].status = "PROCESSING"

ReportDeskInit ==
  /\ history = Nothing /\ shownRuns = Nothing /\ lostReads = 0
  /\ listing = [AtRest EXCEPT !.step = "sent"] /\ asking = NotAsking /\ fetching = NoFile

(* requestReportGeneration, from here or elsewhere: one report of a month at a time.        *)
Busy(month) == \E r \in Started : Running(r) /\ history[r].month = month
Begin(month) == [history EXCEPT ![Cardinality(Started) + 1] = [month |-> month, status |-> "PROCESSING"]]

BegunElsewhere(month) ==
  /\ ~Busy(month) /\ Cardinality(Started) < LastRun /\ history' = Begin(month)
  /\ UNCHANGED <<shownRuns, listing, asking, fetching, lostReads>>

(* The worker and the recovery, see ReportJobs.                                            *)
RunEnds(r, status) ==
  /\ Running(r) /\ history' = [history EXCEPT ![r].status = status]
  /\ UNCHANGED <<shownRuns, listing, asking, fetching, lostReads>>

(* handleGenerate, useGenerateReport; the button rests while an answer is on its way.        *)
HandleGenerate(month) ==
  /\ asking = NotAsking /\ Cardinality(Started) < LastRun
  /\ asking' = [step |-> "sent", month |-> month]
  /\ UNCHANGED <<history, shownRuns, listing, fetching, lostReads>>

(* POST /generate.                                                                       *)
GenerateIsHandled ==
  LET ok == ~Busy(asking.month) /\ Cardinality(Started) < LastRun
  IN  /\ asking.step = "sent"
      /\ history' = IF ok THEN Begin(asking.month) ELSE history
      /\ asking' = [asking EXCEPT !.step = IF ok THEN "accepted" ELSE "refused"]
      /\ UNCHANGED <<shownRuns, listing, fetching, lostReads>>

(* A success reads the list again, in place of a reading that is on its way.               *)
GenerateIsAnswered(arrives) ==
  /\ asking.step \in {"accepted", "refused"}
  /\ listing' = IF asking.step = "accepted" /\ arrives THEN [AtRest EXCEPT !.step = "sent"] ELSE listing
  /\ asking' = NotAsking
  /\ UNCHANGED <<history, shownRuns, fetching, lostReads>>

Shown(r, status) == shownRuns[r].status = status

\* a plausible mistake for FollowsUp: the page waits as long as all it shows is in process
FollowsWhole == shownRuns # Nothing /\ \A r \in Runs : shownRuns[r] # NoRun => Shown(r, "PROCESSING")

(* refetchInterval.                                                                      *)
FollowsUp == \E r \in Runs : Shown(r, "PROCESSING")

Poll ==
  /\ listing.step = "none" /\ FollowsUp
  /\ listing' = [AtRest EXCEPT !.step = "sent"]
  /\ UNCHANGED <<history, shownRuns, asking, fetching, lostReads>>

(* The page is opened again, or Reintentar.                                               *)
OpenReports ==
  /\ listing.step = "none" /\ ~FollowsUp /\ shownRuns # history
  /\ listing' = [AtRest EXCEPT !.step = "sent"]
  /\ UNCHANGED <<history, shownRuns, asking, fetching, lostReads>>

(* GET /: getReportHistory.                                                               *)
ListIsRead ==
  /\ listing.step = "sent" /\ listing' = [step |-> "read", list |-> history]
  /\ UNCHANGED <<history, shownRuns, asking, fetching, lostReads>>

ListArrives ==
  /\ listing.step = "read" /\ shownRuns' = listing.list /\ listing' = AtRest
  /\ UNCHANGED <<history, asking, fetching, lostReads>>

(* Twice in a row, retry: 1; what the page has stays.                                      *)
ListIsLost ==
  /\ listing.step # "none" /\ lostReads < MaxLostReads
  /\ listing' = AtRest /\ lostReads' = lostReads + 1
  /\ UNCHANGED <<history, shownRuns, asking, fetching>>

(* downloadReport asks for the file before it lets the browser fetch it.                   *)
Download(r) ==
  /\ fetching = NoFile /\ Shown(r, "COMPLETED") /\ fetching' = [run |-> r, step |-> "sent"]
  /\ UNCHANGED <<history, shownRuns, listing, asking, lostReads>>

(* HEAD /:id/download/:type, with the files of a completed report in place.                *)
HeadIsAnswered ==
  /\ fetching.step = "sent"
  /\ fetching' = [fetching EXCEPT !.step = IF history[fetching.run].status = "COMPLETED" THEN "offered" ELSE "refused"]
  /\ UNCHANGED <<history, shownRuns, listing, asking, lostReads>>

DownloadEnds ==
  /\ fetching.step \in {"offered", "refused"} /\ fetching' = NoFile
  /\ UNCHANGED <<history, shownRuns, listing, asking, lostReads>>

SomeRunEnds == \E r \in Runs, status \in {"COMPLETED", "FAILED"} : RunEnds(r, status)
ListingGoesOn == Poll \/ ListIsRead \/ ListArrives

ReportDeskNext ==
  \/ SomeRunEnds \/ ListingGoesOn \/ ListIsLost \/ OpenReports
  \/ GenerateIsHandled \/ HeadIsAnswered \/ DownloadEnds
  \/ \E month \in Months : BegunElsewhere(month) \/ HandleGenerate(month)
  \/ \E r \in Runs : Download(r)
  \/ \E arrives \in BOOLEAN : GenerateIsAnswered(arrives)

(* Every report ends some time (EventuallyClosed of ReportJobs), and the page's timer and    *)
(* its requests go on as long as it is open.                                              *)
ReportDeskSpec ==
  /\ ReportDeskInit /\ [][ReportDeskNext]_reportDeskVars
  /\ WF_reportDeskVars(SomeRunEnds) /\ WF_reportDeskVars(ListingGoesOn)

-----------------------------------------------------------------------------
(* A report that the page shows in process is shown ended some time, without anything that    *)
(* the user does, whichever other reports begin and end and whichever readings are lost:       *)
(* refetchInterval of useReports.                                                          *)
RunsAreFollowed == \A r \in Runs : Shown(r, "PROCESSING") ~> ~Shown(r, "PROCESSING")
=============================================================================
