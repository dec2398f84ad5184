------------------------------ MODULE Thumbnails ------------------------------
(* The small pictures of photos: a job is published when a photo is stored or asked for,   *)
(* and every fifteen minutes a job goes through all photos and renders what is missing.    *)
(* One worker takes the jobs; a photo that cannot be rendered must not hold up the others. *)
EXTENDS Integers, Sequences, FiniteSets, FiniteSetsExt

CONSTANTS
  LastPhoto,    \* photos are 1..LastPhoto, in the order of their rows
  Broken,       \* photos that no attempt can render
  PageSize,     \* rows that the backfill reads at a time
  Attempts,     \* attempts of a job
  MaxStops      \* bound on how often the process stops or Redis refuses

ASSUME ThumbnailConstants == Broken \subseteq 1..LastPhoto /\ {PageSize, Attempts, MaxStops} \subseteq Nat \ {0}

VARIABLES
  stored,       \* the photos that have a row, the first so many
  thumbs,       \* the photos that have a small picture
  queue,        \* the job of every photo: its state, the attempts it has left
  backfill,     \* the backfill: "idle", "waiting", "active" or "failed"
  cursor,       \* the last row that the backfill has read
  batch,        \* what it has yet to render of the page it read
  working,      \* the photo whose job the worker does, 0 if none
  stops         \* stops and refusals so far

thumbVars == <<stored, thumbs, queue, backfill, cursor, batch, working, stops>>

Photos == 1..LastPhoto
NoJob == [state |-> "none", left |-> 0]
NewJob == [state |-> "waiting", left |-> Attempts]
Free == working = 0 /\ backfill # "active"

ThumbnailsInit ==
  /\ stored = 0 /\ thumbs = {} /\ queue = [p \in Photos |-> NoJob]
  /\ backfill = "idle" /\ cursor = 0 /\ batch = {} /\ working = 0 /\ stops = 0

(* enqueue: a job that has ended makes room for a new one, any other is enough; Redis may   *)
(* refuse, which the backfill is there for.                                              *)
Published(p) ==
  \/ /\ p \in thumbs \/ queue[p].state \in {"waiting", "active"}
     /\ UNCHANGED <<queue, stops>>
  \/ /\ p \notin thumbs /\ queue[p].state \in {"none", "failed", "completed"}
     /\ \/ queue' = [queue EXCEPT ![p] = NewJob] /\ UNCHANGED stops
        \/ stops < MaxStops /\ stops' = stops + 1 /\ UNCHANGED queue

StorePhoto ==
  /\ stored < LastPhoto /\ stored' = stored + 1 /\ Published(stored')
  /\ UNCHANGED <<thumbs, backfill, cursor, batch, working>>

(* serveQaThumbnail: a small picture that is missing is asked for.                          *)
AskForThumbnail(p) ==
  /\ p <= stored /\ p \notin thumbs /\ Published(p) /\ queue' # queue
  /\ UNCHANGED <<stored, thumbs, backfill, cursor, batch, working>>

TakePhotoJob(p) ==
  /\ Free /\ queue[p].state = "waiting" /\ working' = p
  /\ queue' = [queue EXCEPT ![p].state = "active"]
  /\ UNCHANGED <<stored, thumbs, backfill, cursor, batch, stops>>

(* renderThumbnail: nothing to do if it is there.                                          *)
Renders(p) == p \in thumbs \/ p \notin Broken

EndPhotoJob ==
  /\ working # 0 /\ working' = 0
  /\ thumbs' = IF Renders(working) THEN thumbs \cup {working} ELSE thumbs
  /\ queue' = [queue EXCEPT ![working] =
       [state |-> IF Renders(working) THEN "completed" ELSE IF @.left = 1 THEN "failed" ELSE "waiting",
        left |-> @.left - 1]]
  /\ UNCHANGED <<stored, backfill, cursor, batch, stops>>

(* scheduleThumbnailBackfill: every fifteen minutes, one at a time.                         *)
ScheduleBackfill ==
  /\ backfill \in {"idle", "failed"} /\ backfill' = "waiting"
  /\ UNCHANGED <<stored, thumbs, queue, cursor, batch, working, stops>>

StartBackfill ==
  /\ Free /\ backfill = "waiting" /\ backfill' = "active" /\ cursor' = 0 /\ batch' = {}
  /\ UNCHANGED <<stored, thumbs, queue, working, stops>>

Page == {p \in Photos : cursor < p /\ p <= Min({stored, cursor + PageSize})}

(* The rows after the cursor; none are left, or they are the next page.                     *)
ReadPage ==
  /\ backfill = "active" /\ batch = {}
  /\ IF Page = {} THEN backfill' = "idle" /\ UNCHANGED <<cursor, batch>>
     ELSE batch' = Page /\ cursor' = Max(Page) /\ UNCHANGED backfill
  /\ UNCHANGED <<stored, thumbs, queue, working, stops>>

\* a plausible mistake for Survives: a picture that cannot be rendered fails the job
SurvivesIfSound(p) == Renders(p)

(* runResilientThumbnailBatch goes on after a picture that cannot be rendered.              *)
Survives(p) == TRUE

RenderOne ==
  /\ backfill = "active" /\ batch # {}
  /\ LET p == Min(batch)
     IN  /\ thumbs' = IF Renders(p) THEN thumbs \cup {p} ELSE thumbs
         /\ backfill' = IF Survives(p) THEN backfill ELSE "failed"
         /\ batch' = IF Survives(p) THEN batch \ {p} ELSE {}
  /\ UNCHANGED <<stored, queue, cursor, working, stops>>

(* The process stops: BullMQ gives a job that was active to the next worker, or fails it if  *)
(* that has happened to it before.                                                        *)
StopWorker ==
  /\ stops < MaxStops /\ ~Free /\ stops' = stops + 1 /\ working' = 0
  /\ \E next \in {"waiting", "failed"} :
       /\ queue' = IF working = 0 THEN queue ELSE [queue EXCEPT ![working].state = next]
       /\ backfill' = IF backfill = "active" THEN next ELSE backfill
  /\ batch' = {} /\ cursor' = 0
  /\ UNCHANGED <<stored, thumbs>>

WorkerStep ==
  EndPhotoJob \/ StartBackfill \/ ReadPage \/ RenderOne \/ \E p \in Photos : TakePhotoJob(p)

ThumbnailsNext ==
  WorkerStep \/ StorePhoto \/ ScheduleBackfill \/ StopWorker \/ \E p \in Photos : AskForThumbnail(p)

(* The worker works, the clock of the scheduler ticks, and the backfill gets its turn among  *)
(* the jobs that people publish by asking: BullMQ takes jobs in the order they came.        *)
ThumbnailsFairness ==
  /\ WF_thumbVars(WorkerStep) /\ WF_thumbVars(ScheduleBackfill) /\ SF_thumbVars(StartBackfill)

ThumbnailsSpec == ThumbnailsInit /\ [][ThumbnailsNext]_thumbVars /\ ThumbnailsFairness

-----------------------------------------------------------------------------
(* Every photo that can be rendered gets its small picture, though publishing it failed, the *)
(* process stopped, or another photo cannot be rendered: backfill of mediaThumbnailService.  *)
EveryPhotoGetsOne == \A p \in Photos \ Broken : (p <= stored) ~> (p \in thumbs)
=============================================================================
