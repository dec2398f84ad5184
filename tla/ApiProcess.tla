------------------------------ MODULE ApiProcess ------------------------------
(* The life of the process of the API: it listens before its workers of BullMQ are there, *)
(* which it starts one after the other, and when it is told to stop, or an error was        *)
(* caught by nobody, it closes the server, the workers and the database in this order.     *)
EXTENDS Integers, FiniteSets, Sequences

CONSTANTS
  Roster,       \* the workers, in the order in which they are started
  MaxOpen       \* bound on the requests that are answered at once

ASSUME ApiConstants == Roster \in Seq(STRING) /\ MaxOpen \in Nat

VARIABLES
  workers,      \* workers that were started
  starting,     \* initializeJobs has not come to its end
  open,         \* how many requests are being answered
  at,           \* what every worker is at: "none", "idle", "busy" or "closed"
  stopping,     \* where the shutdown is: "no" or one of Steps
  late,         \* workers that were started when those there were had been told to close
  exit          \* "alive", "clean", "forced" or "killed"

apiVars == <<workers, starting, open, at, stopping, late, exit>>

Crew == {Roster[i] : i \in DOMAIN Roster}
Steps == {"http", "jobs", "database", "redis"}
Alive == exit = "alive"

ApiInit ==
  /\ workers = 0 /\ starting = TRUE /\ open = 0 /\ at = [w \in Crew |-> "none"]
  /\ stopping = "no" /\ late = {} /\ exit = "alive"

(* initializeJobs does not look at the shutdown: what it starts then nobody closes.         *)
StartWorker ==
  /\ Alive /\ starting /\ workers < Len(Roster) /\ workers' = workers + 1
  /\ at' = [at EXCEPT ![Roster[workers']] = "idle"]
  /\ starting' = (workers' < Len(Roster))
  /\ late' = IF stopping \in {"no", "http"} THEN late ELSE late \cup {Roster[workers']}
  /\ UNCHANGED <<open, stopping, exit>>

(* shutdown: the first signal or uncaught error begins it, the others change nothing.       *)
BeginShutdown == stopping' = IF stopping = "no" THEN "http" ELSE stopping

(* Redis does not answer: nobody catches what initializeJobs throws.                        *)
StartFails ==
  /\ Alive /\ starting /\ starting' = FALSE /\ BeginShutdown
  /\ UNCHANGED <<workers, open, at, late, exit>>

Signal ==
  /\ Alive /\ stopping = "no" /\ BeginShutdown
  /\ UNCHANGED <<workers, starting, open, at, late, exit>>

TakeRequest ==
  /\ Alive /\ stopping = "no" /\ open < MaxOpen /\ open' = open + 1
  /\ UNCHANGED <<workers, starting, at, stopping, late, exit>>

AnswerRequest ==
  /\ Alive /\ open > 0 /\ open' = open - 1
  /\ UNCHANGED <<workers, starting, at, stopping, late, exit>>

(* A worker that was told to close ends the job it has and takes no other.                  *)
Closing(w) == stopping \in Steps \ {"http"} /\ w \notin late

TakeJob(w) ==
  /\ Alive /\ at[w] = "idle" /\ ~Closing(w) /\ at' = [at EXCEPT ![w] = "busy"]
  /\ UNCHANGED <<workers, starting, open, stopping, late, exit>>

EndJob(w) ==
  /\ Alive /\ at[w] = "busy" /\ at' = [at EXCEPT ![w] = "idle"]
  /\ UNCHANGED <<workers, starting, open, stopping, late, exit>>

CloseWorker(w) ==
  /\ Alive /\ at[w] = "idle" /\ Closing(w) /\ at' = [at EXCEPT ![w] = "closed"]
  /\ UNCHANGED <<workers, starting, open, stopping, late, exit>>

\* a plausible mistake for Done: the workers are told to close, and not waited for
DoneAtOnce(step) == step = "http" => open = 0

(* What a step of the shutdown waits for: server.close, and the workers it found.           *)
Done(step) ==
  /\ step = "http" => open = 0
  /\ step = "jobs" => \A w \in Crew \ late : at[w] \in {"none", "closed"}

After(step) == CASE step = "http" -> "jobs" [] step = "jobs" -> "database" [] OTHER -> "redis"

ShutdownStep ==
  /\ Alive /\ stopping \in Steps \ {"redis"} /\ Done(stopping) /\ stopping' = After(stopping)
  /\ UNCHANGED <<workers, starting, open, at, late, exit>>

Leave(how) == exit' = how /\ UNCHANGED <<workers, starting, open, at, stopping, late>>

ExitClean == Alive /\ stopping = "redis" /\ Leave("clean")

(* Thirty seconds; the container runtime, which waits for ten, may be faster.               *)
ExitForced == Alive /\ stopping # "no" /\ Leave("forced")
Killed == Alive /\ Leave("killed")

ApiNext ==
  \/ StartWorker \/ StartFails \/ Signal \/ TakeRequest \/ AnswerRequest \/ ShutdownStep
  \/ ExitClean \/ ExitForced \/ Killed
  \/ \E w \in Crew : TakeJob(w) \/ EndJob(w) \/ CloseWorker(w)

ApiSpec == ApiInit /\ [][ApiNext]_apiVars

-----------------------------------------------------------------------------
(* From the moment the database is closed, and so when the process ends with 0, no request  *)
(* is being answered and no job is being done, but for a worker that was started when the   *)
(* shutdown had passed by: shutdown of index.ts and shutdownJobs.                          *)
OrderlyExit ==
  stopping \in {"database", "redis"} => open = 0 /\ \A w \in Crew \ late : at[w] # "busy"
=============================================================================
