---------------------------- MODULE SurveyExport ----------------------------
(* The two downloads of a reviewer, while phones go on handing in surveys and         *)
(* recordings (module Surveys): the CSV, which the api reads and sends batch by        *)
(* batch, each batch at a moment of its own, and the ZIP, which a worker writes from   *)
(* one snapshot of the database and from the disk.  Ids come from a sequence and may   *)
(* be committed in another order.  Surveys differ only in having a recording or not.   *)
EXTENDS Integers, FiniteSets, FiniteSetsExt

CONSTANTS
  LastId,       \* surveys are 1..LastId
  Blobs,        \* contents of recordings, one unit of bytes each
  Filters,      \* values of conAudio the reviewer may choose: "all", "with", "without"
  BatchSize, MaxRecords, MaxBytes, ZipAttempts

NoBlob == "no blob"

ASSUME ExportConstants ==
  /\ {LastId, MaxRecords, MaxBytes, ZipAttempts} \subseteq Nat /\ BatchSize \in Nat \ {0}
  /\ Filters \subseteq {"all", "with", "without"} /\ NoBlob \notin Blobs

VARIABLES
  stored,       \* [1..LastId -> {"none", "pending", "in"}]
  recording,    \* [1..LastId -> Blobs \cup {NoBlob}], a row of encuestas_audios
  onDisk,       \* the blobs there are files of
  filter, download, \* which surveys the reviewer asks for, and in what form
  csv,          \* the CSV: where the api is, and what it has sent
  zip,          \* the ZIP: the snapshot, and what has been written
  steady        \* the surveys that have matched the filter ever since the CSV was begun

exportVars == <<stored, recording, onDisk, filter, download, csv, zip, steady>>

Surveyed == 1..LastId

MatchesIn(st, rec, i) ==
  st[i] = "in" /\ CASE filter = "all" -> TRUE
                    [] filter = "with" -> rec[i] # NoBlob
                    [] filter = "without" -> rec[i] = NoBlob
Matching == {i \in Surveyed : MatchesIn(stored, recording, i)}

ExportInit ==
  /\ stored \in [Surveyed -> {"none", "in"}]
  /\ \A i, j \in Surveyed : i < j /\ stored[j] = "in" => stored[i] = "in"
  /\ recording = [i \in Surveyed |-> NoBlob] /\ onDisk = {} /\ filter \in Filters /\ download \in {"csv", "zip"}
  /\ csv = [pc |-> "idle", cursor |-> 0, sent |-> {}, status |-> "none"]
  /\ zip = [pc |-> "idle", snapshot |-> <<>>, surveys |-> {}, manifest |-> {}, left |-> ZipAttempts]
  /\ steady = {}

-----------------------------------------------------------------------------
(* What the phones do.                                                                *)
StillSteady == steady' = steady \cap {i \in Surveyed : MatchesIn(stored', recording', i)}

TakeId(i) ==
  /\ stored[i] = "none" /\ \A j \in 1..(i - 1) : stored[j] # "none"
  /\ stored' = [stored EXCEPT ![i] = "pending"]
  /\ UNCHANGED <<recording, onDisk, filter, download, csv, zip, steady>>

CommitSurvey(i) ==
  /\ stored[i] = "pending" /\ stored' = [stored EXCEPT ![i] = "in"]
  /\ UNCHANGED <<recording, onDisk, filter, download, csv, zip, steady>>

(* The file first, then the row, which may be replaced by another content.            *)
RecordingArrives(i, b) ==
  /\ stored[i] = "in" /\ recording[i] # b
  /\ recording' = [recording EXCEPT ![i] = b] /\ onDisk' = onDisk \cup {b}
  /\ stored' = stored /\ StillSteady
  /\ UNCHANGED <<filter, download, csv, zip>>

(* Files the restore of a backup did not bring back.                                   *)
FileIsMissing(b) ==
  /\ b \in onDisk /\ onDisk' = onDisk \ {b}
  /\ UNCHANGED <<stored, recording, filter, download, csv, zip, steady>>

-----------------------------------------------------------------------------
(* The CSV.                                                                            *)
BeginCsv ==
  /\ download = "csv" /\ csv.pc = "idle" /\ csv' = [csv EXCEPT !.pc = "reading"] /\ steady' = Matching
  /\ UNCHANGED <<stored, recording, onDisk, filter, download, zip>>

(* findMany({where, take, orderBy: id, cursor, skip}): the rows that match now, from    *)
(* the cursor on, without the first ones: the cursor is one of them if it still matches. *)
Skipped(cursor) == IF cursor = 0 THEN 0 ELSE 1

From(cursor) == {i \in Matching : i >= cursor}
Place(i, S) == Cardinality({j \in S : j <= i})

FindMany(take, cursor) ==
  {i \in From(cursor) : /\ Place(i, From(cursor)) > Skipped(cursor)
                        /\ Place(i, From(cursor)) <= Skipped(cursor) + take}

Take == Min({BatchSize, MaxRecords - Cardinality(csv.sent)})

(* Nothing is sent before the first batch is there, so that its failure is a 500; a     *)
(* short batch, or the limit, ends the file.                                             *)
NextBatch ==
  /\ csv.pc = "reading"
  /\ LET rows == FindMany(Take, csv.cursor)
         sent == csv.sent \cup rows
     IN  csv' = IF Cardinality(rows) < Take \/ Cardinality(sent) = MaxRecords
                THEN [csv EXCEPT !.pc = "over", !.sent = sent, !.status = "complete"]
                ELSE [csv EXCEPT !.sent = sent, !.cursor = Max(rows)]
  /\ UNCHANGED <<stored, recording, onDisk, filter, download, zip, steady>>

ReadFails ==
  /\ csv.pc = "reading"
  /\ csv' = [csv EXCEPT !.pc = "over", !.status = IF csv.cursor = 0 THEN "error" ELSE "truncated"]
  /\ UNCHANGED <<stored, recording, onDisk, filter, download, zip, steady>>

(* The reviewer leaves.                                                                 *)
ConnectionCloses ==
  /\ csv.pc = "reading" /\ csv' = [csv EXCEPT !.pc = "over", !.status = "closed"]
  /\ UNCHANGED <<stored, recording, onDisk, filter, download, zip, steady>>

-----------------------------------------------------------------------------
(* The ZIP: one attempt of the worker.  REPEATABLE READ takes its snapshot at the first  *)
(* query, which measures what is to be written.                                          *)
\* a plausible mistake for Seen: every query sees what has been committed by now
SeenNow(at) == [stored |-> stored, recording |-> recording]

Seen(at) == at

InZip(i) == MatchesIn(Seen(zip.snapshot).stored, Seen(zip.snapshot).recording, i)
DueAudios == {i \in Surveyed : InZip(i) /\ Seen(zip.snapshot).recording[i] # NoBlob}

Measure ==
  /\ download = "zip" /\ zip.pc = "idle" /\ zip.left > 0
  /\ LET audios == {i \in Matching : recording[i] # NoBlob}
     IN  zip' = [zip EXCEPT !.left = zip.left - 1,
                            !.snapshot = [stored |-> stored, recording |-> recording],
                            !.pc = IF Cardinality(Matching) > MaxRecords \/ Cardinality(audios) > MaxBytes
                                   THEN "failed" ELSE "surveys"]
  /\ UNCHANGED <<stored, recording, onDisk, filter, download, csv, steady>>

WriteSurveys ==
  /\ zip.pc = "surveys"
  /\ zip' = [zip EXCEPT !.surveys = {i \in Surveyed : InZip(i)}, !.pc = "audios"]
  /\ UNCHANGED <<stored, recording, onDisk, filter, download, csv, steady>>

(* One recording after the other, in the order of the surveys; the disk is not part of   *)
(* the snapshot.                                                                         *)
WriteAudio ==
  /\ zip.pc = "audios"
  /\ \E i \in DueAudios :
       /\ \A m \in zip.manifest : m.survey < i
       /\ \A j \in DueAudios : j < i => \E m \in zip.manifest : m.survey = j
       /\ zip' = [zip EXCEPT !.manifest = @ \cup
                    {[survey |-> i, blob |-> Seen(zip.snapshot).recording[i],
                      missing |-> Seen(zip.snapshot).recording[i] \notin onDisk]}]
  /\ UNCHANGED <<stored, recording, onDisk, filter, download, csv, steady>>

Publish ==
  /\ zip.pc = "audios" /\ DueAudios = {m.survey : m \in zip.manifest}
  /\ zip' = [zip EXCEPT !.pc = "published"]
  /\ UNCHANGED <<stored, recording, onDisk, filter, download, csv, steady>>

(* The temporary file goes; the job may be tried again, under another name.              *)
AttemptFails ==
  /\ zip.pc \in {"surveys", "audios"}
  /\ zip' = [zip EXCEPT !.pc = "idle", !.snapshot = <<>>, !.surveys = {}, !.manifest = {}]
  /\ UNCHANGED <<stored, recording, onDisk, filter, download, csv, steady>>

-----------------------------------------------------------------------------
ExportNext ==
  \/ \E i \in Surveyed : TakeId(i) \/ CommitSurvey(i) \/ \E b \in Blobs : RecordingArrives(i, b)
  \/ \E b \in Blobs : FileIsMissing(b)
  \/ BeginCsv \/ NextBatch \/ ReadFails \/ ConnectionCloses
  \/ Measure \/ WriteSurveys \/ WriteAudio \/ Publish \/ AttemptFails

ExportSpec == ExportInit /\ [][ExportNext]_exportVars

-----------------------------------------------------------------------------
CsvOver == csv.status = "complete" /\ Cardinality(csv.sent) < MaxRecords

(* docs/encuestas-okrean.md:1140: the filters cut the list, the CSV and the ZIP alike.    *)
(* A survey that was on the reviewer's list from before the download until after it is in *)
(* the CSV, except that with conAudio = false a survey that was the last of its batch and  *)
(* gets its recording before the next batch takes the place of the one row that is skipped: *)
(* one is missing at most for each survey sent that stopped matching.                      *)
(* And a published ZIP is of one moment: its manifest has just the recordings of the       *)
(* surveys of its CSV, one for each of them when only surveys with recordings were asked    *)
(* for and none when only those without, although phones went on meanwhile.                *)
DownloadsAgree ==
  /\ CsvOver => Cardinality(steady \ csv.sent) <= Cardinality(csv.sent \ Matching)
  /\ zip.pc = "published" =>
       LET listed == {m.survey : m \in zip.manifest}
       IN  /\ listed \subseteq zip.surveys /\ Cardinality(zip.surveys) <= MaxRecords
           /\ filter = "with" => listed = zip.surveys
           /\ filter = "without" => listed = {}
           /\ Cardinality(listed) = Cardinality(zip.manifest)
=============================================================================
