--------------------------- MODULE DataJobsProofs ---------------------------
(***************************************************************************)
(* Proofs about the heavy jobs, for any number of workers, sweepers,       *)
(* attempts, faults and late errors.                                       *)
(***************************************************************************)
EXTENDS DataJobs, TLAPS

-----------------------------------------------------------------------------
(* Types *)

HasToken(w) == worker[w].pc \notin {"idle", "claim"}

(* TypeOK, with what it rests on: a job that can be attempted has an attempt  *)
(* left, and only a token that was handed out names an artifact.              *)
Typed ==
  /\ TypeOK
  /\ bull.state \in {"waiting", "active"} => bull.left > 0
  /\ \A w \in Workers : HasToken(w) => worker[w].token \in 1..runs
  /\ row.artifact \in 1..runs \cup {None}

LEMMA ConstantsApart == None \notin Nat /\ None \notin Workers /\ Input \notin Nat /\ Input # None
BY DataJobsAssumption

(* What the helpers write. *)
LEMMA SetStatusRow ==
  ASSUME row \in Row, NEW status \in {"QUEUED", "PROCESSING", "COMPLETED", "FAILED", "DELETED"},
         SetStatus(status)
  PROVE  /\ row' \in Row /\ row'.status = status
         /\ row'.artifact = row.artifact /\ row'.expired = row.expired
BY DEF SetStatus, Row

LEMMA EndAttemptTyped ==
  ASSUME Typed, NEW w \in Workers, NEW success \in BOOLEAN, EndAttempt(w, success)
  PROVE  /\ bull' \in Bull /\ (bull'.state \in {"waiting", "active"} => bull'.left > 0)
         /\ worker' \in [Workers -> Worker]
         /\ \A v \in Workers : HasToken(v)' => v # w /\ HasToken(v) /\ worker'[v] = worker[v]
<1>1. Resting \in Worker
  BY DEF Resting, Worker
<1>2. /\ worker' \in [Workers -> Worker]
      /\ \A v \in Workers : HasToken(v)' => v # w /\ HasToken(v) /\ worker'[v] = worker[v]
  BY <1>1 DEF EndAttempt, Typed, TypeOK, HasToken, Resting
<1>3. CASE bull.state # "active" \/ bull.holder # w
  BY <1>2, <1>3 DEF EndAttempt, Typed, TypeOK
<1>4. CASE ~(bull.state # "active" \/ bull.holder # w)
  <2> DEFINE state == IF success \/ bull.left = 1 THEN "terminal" ELSE "waiting"
             left == bull.left - 1
  <2>1. bull.left \in 0..ExportAttempts /\ bull.left > 0
    BY <1>4 DEF Typed, TypeOK, Bull
  <2>2. left \in 0..ExportAttempts /\ (bull.left # 1 => left > 0)
    BY <2>1, DataJobsAssumption
  <2>3. state \in {"terminal", "waiting"} /\ (state = "waiting" => bull.left # 1)
    OBVIOUS
  <2>4. bull' = [state |-> state, left |-> left, holder |-> None]
    BY <1>4 DEF EndAttempt
  <2> HIDE DEF state, left
  <2>5. bull' \in Bull /\ (bull'.state \in {"waiting", "active"} => bull'.left > 0)
    BY <2>2, <2>3, <2>4 DEF Bull
  <2> QED
    BY <1>2, <2>5
<1> QED
  BY <1>3, <1>4

LEMMA TypedInit == Init => Typed
<1> SUFFICES ASSUME Init PROVE Typed
  OBVIOUS
<1>1. row \in Row /\ row.artifact = None
  BY DEF Init, Row
<1>2. bull \in Bull /\ bull.state = "absent"
  BY DataJobsAssumption DEF Init, NoJob, Bull
<1>3. Resting \in Worker /\ Resting.pc = "idle" /\ Idle \in Sweeper
  BY DEF Resting, Worker, Idle, Sweeper
<1>4. faults \in 0..MaxFaults /\ late \in 0..LateErrors
  BY DataJobsAssumption DEF Init
<1> QED
  BY <1>1, <1>2, <1>3, <1>4 DEF Init, Typed, TypeOK, HasToken

(* Every step keeps the types. *)
LEMMA TypedStep == Typed /\ [Next]_vars => Typed'
<1> SUFFICES ASSUME Typed, [Next]_vars PROVE Typed'
  OBVIOUS
<1> USE ConstantsApart, DataJobsAssumption
<1>1. ASSUME NEW s \in Sweepers, getState(s)
      PROVE  Typed'
  BY <1>1
     DEF getState, Typed, TypeOK, HasToken, Row, Bull, Worker, Sweeper, NoJob, Resting,
         Idle, Attempts, Fault, SetStatus, EndAttempt, ClaimFails, Claimable, Artifact,
         Failable, Recovered
<1>2. ASSUME NEW s \in Sweepers, removeTerminal(s)
      PROVE  Typed'
  BY <1>2
     DEF removeTerminal, Typed, TypeOK, HasToken, Row, Bull, Worker, Sweeper, NoJob,
         Resting, Idle, Attempts, Fault, SetStatus, EndAttempt, ClaimFails, Claimable,
         Artifact, Failable, Recovered
<1>3. ASSUME NEW s \in Sweepers, addJob(s)
      PROVE  Typed'
  BY <1>3
     DEF addJob, Typed, TypeOK, HasToken, Row, Bull, Worker, Sweeper, NoJob, Resting, Idle,
         Attempts, Fault, SetStatus, EndAttempt, ClaimFails, Claimable, Artifact, Failable,
         Recovered
<1>4. ASSUME NEW w \in Workers, takeJob(w)
      PROVE  Typed'
  BY <1>4
     DEF takeJob, Typed, TypeOK, HasToken, Row, Bull, Worker, Sweeper, NoJob, Resting,
         Idle, Attempts, Fault, SetStatus, EndAttempt, ClaimFails, Claimable, Artifact,
         Failable, Recovered
<1>5. ASSUME NEW w \in Workers, claim_data_job(w)
      PROVE  Typed'
  <2>1. CASE Claimable /\ SetStatus("PROCESSING") /\ runs' = runs + 1
             /\ worker' = [worker EXCEPT ![w].pc = "work", ![w].token = runs + 1] /\ UNCHANGED bull
    <3>1. row' \in Row /\ row'.artifact = row.artifact
      BY <2>1, SetStatusRow DEF Typed, TypeOK
    <3>2. runs \in Nat /\ runs' \in Nat /\ runs' = runs + 1 /\ worker[w] \in Worker
      BY <2>1 DEF Typed, TypeOK
    <3>3. worker' = [worker EXCEPT ![w] = [worker[w] EXCEPT !.pc = "work", !.token = runs']]
      BY <2>1
    <3>4. /\ worker'[w] \in Worker /\ worker'[w].token = runs'
          /\ \A v \in Workers : v # w => worker'[v] = worker[v]
      BY <3>2, <3>3 DEF Worker, Typed, TypeOK
    <3>5. worker' \in [Workers -> Worker]
      BY <3>3, <3>4 DEF Typed, TypeOK
    <3>6. \A v \in Workers : HasToken(v)' => worker'[v].token \in 1..runs'
      <4>1. \A v \in Workers : HasToken(v) => worker[v].token \in 1..runs'
        BY <3>2 DEF Typed
      <4>2. worker'[w].token \in 1..runs'
        BY <3>2, <3>4
      <4> QED
        BY <3>4, <4>1, <4>2 DEF HasToken
    <3> QED
      BY <1>5, <2>1, <3>1, <3>2, <3>5, <3>6 DEF claim_data_job, Typed, TypeOK
  <2>2. CASE ~Claimable /\ ClaimFails(w) /\ UNCHANGED <<row, runs>>
    <3>1. EndAttempt(w, row.status = "COMPLETED") /\ (row.status = "COMPLETED") \in BOOLEAN
      BY <2>2 DEF ClaimFails
    <3> QED
      <4>1. /\ bull' \in Bull /\ (bull'.state \in {"waiting", "active"} => bull'.left > 0)
            /\ worker' \in [Workers -> Worker]
            /\ \A v \in Workers : HasToken(v)' => v # w /\ HasToken(v) /\ worker'[v] = worker[v]
        BY <3>1, EndAttemptTyped
      <4> QED
        BY <1>5, <2>2, <4>1 DEF claim_data_job, Typed, TypeOK
  <2> QED
    BY <1>5, <2>1, <2>2 DEF claim_data_job
<1>6. ASSUME NEW w \in Workers, update_data_job_progress(w)
      PROVE  Typed'
  BY <1>6
     DEF update_data_job_progress, Typed, TypeOK, HasToken, Row, Bull, Worker, Sweeper,
         NoJob, Resting, Idle, Attempts, Fault, SetStatus, EndAttempt, ClaimFails,
         Claimable, Artifact, Failable, Recovered
<1>7. ASSUME NEW w \in Workers, work(w)
      PROVE  Typed'
  BY <1>7
     DEF work, Typed, TypeOK, HasToken, Row, Bull, Worker, Sweeper, NoJob, Resting, Idle,
         Attempts, Fault, SetStatus, EndAttempt, ClaimFails, Claimable, Artifact, Failable,
         Recovered
<1>8. ASSUME NEW w \in Workers, complete_data_job(w)
      PROVE  Typed'
  <2>1. CASE UNCHANGED row
    BY <1>8, <2>1 DEF complete_data_job, Typed, TypeOK, HasToken, Worker
  <2>2. CASE ~UNCHANGED row
    <3> DEFINE artifact == IF kind = "EXPORT" THEN Artifact(w) ELSE None
    <3>1. artifact \in 1..runs \cup {None} /\ artifact \in Nat \cup {None}
      BY <1>8 DEF complete_data_job, Artifact, Typed, TypeOK, HasToken
    <3>2. row' = [row EXCEPT !.status = "COMPLETED", !.stale = FALSE, !.artifact = artifact]
      BY <1>8, <2>2 DEF complete_data_job
    <3> HIDE DEF artifact
    <3>3. row' \in Row /\ row'.artifact \in 1..runs \cup {None}
      BY <3>1, <3>2 DEF Row, Typed, TypeOK
    <3>4. worker' = [worker EXCEPT ![w].pc = "committed"]
      BY <1>8, <2>2 DEF complete_data_job
    <3> QED
      BY <1>8, <3>3, <3>4 DEF complete_data_job, Typed, TypeOK, HasToken, Worker
  <2> QED
    BY <2>1, <2>2
<1>9. ASSUME NEW w \in Workers, raise(w)
      PROVE  Typed'
  BY <1>9
     DEF raise, Typed, TypeOK, HasToken, Row, Bull, Worker, Sweeper, NoJob, Resting, Idle,
         Attempts, Fault, SetStatus, EndAttempt, ClaimFails, Claimable, Artifact, Failable,
         Recovered
<1>10. ASSUME NEW w \in Workers, finish(w)
      PROVE  Typed'
  BY <1>10
     DEF finish, Typed, TypeOK, HasToken, Row, Bull, Worker, Sweeper, NoJob, Resting, Idle,
         Attempts, Fault, SetStatus, EndAttempt, ClaimFails, Claimable, Artifact, Failable,
         Recovered
<1>11. ASSUME NEW w \in Workers, remove_generated_file(w)
      PROVE  Typed'
  BY <1>11
     DEF remove_generated_file, Typed, TypeOK, HasToken, Row, Bull, Worker, Sweeper, NoJob,
         Resting, Idle, Attempts, Fault, SetStatus, EndAttempt, ClaimFails, Claimable,
         Artifact, Failable, Recovered
<1>12. ASSUME NEW w \in Workers, fail_data_job(w)
      PROVE  Typed'
  <2>1. row' \in Row /\ row'.artifact = row.artifact
    <3>1. CASE UNCHANGED row
      BY <3>1 DEF Typed, TypeOK
    <3>2. CASE SetStatus(IF worker[w].final THEN "FAILED" ELSE "QUEUED")
      BY <3>2, SetStatusRow DEF Typed, TypeOK
    <3> QED
      BY <1>12, <3>1, <3>2 DEF fail_data_job
  <2>2. files' \subseteq files /\ UNCHANGED <<kind, applied, sweeper, runs, late>> /\ EndAttempt(w, FALSE)
    BY <1>12 DEF fail_data_job
  <2>3. faults' \in 0..MaxFaults
    BY <1>12 DEF fail_data_job, Fault, Typed, TypeOK
  <2> QED
    <3>1. /\ bull' \in Bull /\ (bull'.state \in {"waiting", "active"} => bull'.left > 0)
          /\ worker' \in [Workers -> Worker]
          /\ \A v \in Workers : HasToken(v)' => v # w /\ HasToken(v) /\ worker'[v] = worker[v]
      BY <2>2, EndAttemptTyped
    <3> QED
      BY <2>1, <2>2, <2>3, <3>1 DEF Typed, TypeOK
<1>13. ASSUME NEW w \in Workers, crashWorker(w)
      PROVE  Typed'
  BY <1>13
     DEF crashWorker, Typed, TypeOK, HasToken, Row, Bull, Worker, Sweeper, NoJob, Resting,
         Idle, Attempts, Fault, SetStatus, EndAttempt, ClaimFails, Claimable, Artifact,
         Failable, Recovered
<1>14. ASSUME NEW s \in Sweepers, inspectStale(s)
      PROVE  Typed'
  BY <1>14
     DEF inspectStale, Typed, TypeOK, HasToken, Row, Bull, Worker, Sweeper, NoJob, Resting,
         Idle, Attempts, Fault, SetStatus, EndAttempt, ClaimFails, Claimable, Artifact,
         Failable, Recovered
<1>15. ASSUME NEW s \in Sweepers, recoverStale(s)
      PROVE  Typed'
  <2>1. row' \in Row /\ row'.artifact = row.artifact
    BY <1>15, SetStatusRow DEF recoverStale, Recovered, Typed, TypeOK
  <2>2. bull' \in Bull /\ (bull'.state \in {"waiting", "active"} => bull'.left > 0)
    BY <1>15 DEF recoverStale, NoJob, Bull, Typed, TypeOK
  <2>3. sweeper' \in [Sweepers -> Sweeper]
    BY <1>15 DEF recoverStale, Idle, Sweeper, Typed, TypeOK
  <2> QED
    BY <1>15, <2>1, <2>2, <2>3 DEF recoverStale, Typed, TypeOK, HasToken
<1>16. ASSUME NEW s \in Sweepers, selectExpired(s)
      PROVE  Typed'
  BY <1>16
     DEF selectExpired, Typed, TypeOK, HasToken, Row, Bull, Worker, Sweeper, NoJob,
         Resting, Idle, Attempts, Fault, SetStatus, EndAttempt, ClaimFails, Claimable,
         Artifact, Failable, Recovered
<1>17. ASSUME NEW s \in Sweepers, unlinkExpired(s)
      PROVE  Typed'
  BY <1>17
     DEF unlinkExpired, Typed, TypeOK, HasToken, Row, Bull, Worker, Sweeper, NoJob,
         Resting, Idle, Attempts, Fault, SetStatus, EndAttempt, ClaimFails, Claimable,
         Artifact, Failable, Recovered
<1>18. ASSUME NEW s \in Sweepers, deleteExpired(s)
      PROVE  Typed'
  BY <1>18
     DEF deleteExpired, Typed, TypeOK, HasToken, Row, Bull, Worker, Sweeper, NoJob,
         Resting, Idle, Attempts, Fault, SetStatus, EndAttempt, ClaimFails, Claimable,
         Artifact, Failable, Recovered
<1>19. ASSUME NEW s \in Sweepers, listOrphans(s)
      PROVE  Typed'
  BY <1>19
     DEF listOrphans, Typed, TypeOK, HasToken, Row, Bull, Worker, Sweeper, NoJob, Resting,
         Idle, Attempts, Fault, SetStatus, EndAttempt, ClaimFails, Claimable, Artifact,
         Failable, Recovered
<1>20. ASSUME NEW s \in Sweepers, pruneOrphans(s)
      PROVE  Typed'
  BY <1>20
     DEF pruneOrphans, Typed, TypeOK, HasToken, Row, Bull, Worker, Sweeper, NoJob, Resting,
         Idle, Attempts, Fault, SetStatus, EndAttempt, ClaimFails, Claimable, Artifact,
         Failable, Recovered
<1>21. ASSUME NEW s \in Sweepers, crashSweeper(s)
      PROVE  Typed'
  BY <1>21
     DEF crashSweeper, Typed, TypeOK, HasToken, Row, Bull, Worker, Sweeper, NoJob, Resting,
         Idle, Attempts, Fault, SetStatus, EndAttempt, ClaimFails, Claimable, Artifact,
         Failable, Recovered
<1>22. CASE redeliver
  <2>1. bull' \in Bull /\ (bull'.state \in {"waiting", "active"} => bull'.left > 0)
    BY <1>22 DEF redeliver, Bull, Typed, TypeOK
  <2>2. faults' \in 0..MaxFaults
    BY <1>22 DEF redeliver, Fault, Typed, TypeOK
  <2> QED
    BY <1>22, <2>1, <2>2 DEF redeliver, Typed, TypeOK, HasToken
<1>23. CASE rowGoesStale
  <2>1. row' \in Row /\ row'.artifact = row.artifact
    BY <1>23 DEF rowGoesStale, Row, Typed, TypeOK
  <2>2. faults' \in 0..MaxFaults
    BY <1>23 DEF rowGoesStale, Fault, Typed, TypeOK
  <2> QED
    BY <1>23, <2>1, <2>2 DEF rowGoesStale, Typed, TypeOK, HasToken
<1>24. CASE rowExpires
  BY <1>24
     DEF rowExpires, Typed, TypeOK, HasToken, Row, Bull, Worker, Sweeper, NoJob, Resting,
         Idle, Attempts, Fault, SetStatus, EndAttempt, ClaimFails, Claimable, Artifact,
         Failable, Recovered
<1>25. CASE UNCHANGED vars
  BY <1>25 DEF vars, Typed, TypeOK, HasToken
<1> QED
  BY <1>1, <1>2, <1>3, <1>4, <1>5, <1>6, <1>7, <1>8, <1>9, <1>10, <1>11, <1>12, <1>13,
     <1>14, <1>15, <1>16, <1>17, <1>18, <1>19, <1>20, <1>21, <1>22, <1>23, <1>24, <1>25
     DEF Next, Attempt, Publish, Recover, Clean

-----------------------------------------------------------------------------
(* Outcomes *)

(* What a job came to is final (the guards of claim_data_job, complete_data_job, *)
(* fail_data_job and of the recovery in reconcileDataJobs).                      *)
THEOREM OutcomeIsFinal == Spec => OutcomeFinal
<1> DEFINE Stays == row.status \in {"COMPLETED", "FAILED"} =>
             row'.status = "DELETED" \/ (row'.status = row.status /\ row'.artifact = row.artifact)
<1>1. Typed /\ [Next]_vars => Stays
  <2> SUFFICES ASSUME Typed, [Next]_vars PROVE Stays
    OBVIOUS
  <2>1. CASE UNCHANGED row
    BY <2>1
  <2>2. ASSUME NEW w \in Workers,
               \/ claim_data_job(w) \/ update_data_job_progress(w)
               \/ complete_data_job(w) \/ fail_data_job(w)
        PROVE  Stays
    BY <2>2 DEF claim_data_job, Claimable, update_data_job_progress, complete_data_job,
                fail_data_job, Failable
  <2>3. ASSUME NEW s \in Sweepers, recoverStale(s) \/ deleteExpired(s)
        PROVE  Stays
    BY <2>3, SetStatusRow DEF recoverStale, deleteExpired, Typed, TypeOK
  <2>4. CASE rowGoesStale \/ rowExpires
    BY <2>4 DEF rowGoesStale, rowExpires, Typed, TypeOK, Row
  <2> QED
    BY <2>1, <2>2, <2>3, <2>4
       DEF Next, Attempt, Publish, Recover, Clean, vars, getState, removeTerminal, addJob,
              takeJob,
           work, raise, finish, remove_generated_file, crashWorker, inspectStale, selectExpired,
           unlinkExpired, listOrphans, pruneOrphans, crashSweeper, redeliver
<1> QED
  BY <1>1, TypedInit, TypedStep, PTL DEF Spec, OutcomeFinal

-----------------------------------------------------------------------------
(* An import is applied once *)

(* An import has one attempt in BullMQ, so that every attempt is its last and  *)
(* the row never returns to QUEUED; then only one attempt ever claims it.      *)
OneAttempt ==
  /\ bull.state \in {"waiting", "active"} => bull.left = 1
  /\ \A w \in Workers : worker[w].pc # "idle" => worker[w].final = TRUE

OneClaim ==
  /\ row.status = "QUEUED" => applied = 0 /\ \A w \in Workers : ~HasToken(w)
  /\ \A w, v \in Workers : w # v /\ HasToken(w) => ~HasToken(v)
  /\ \A w \in Workers : worker[w].pc = "work" => applied = 0

Once ==
  /\ applied <= 1
  /\ kind = "EXPORT" => applied = 0
  /\ kind = "IMPORT" => OneAttempt /\ OneClaim

LEMMA OnceInit == Init => Once
BY DEF Init, Once, OneAttempt, OneClaim, HasToken, NoJob, Resting

(* Every step keeps this. *)
LEMMA OnceStep == Typed /\ Once /\ [Next]_vars => Once'
<1> SUFFICES ASSUME Typed, Once, [Next]_vars PROVE Once'
  OBVIOUS
<1>1. ASSUME NEW s \in Sweepers, getState(s)
      PROVE  Once'
  BY <1>1
     DEF getState, Once, OneAttempt, OneClaim, HasToken, Typed, TypeOK, Row, Bull, Worker,
         NoJob, Resting, Attempts, SetStatus, EndAttempt, ClaimFails, Claimable, Failable,
         Recovered
<1>2. ASSUME NEW s \in Sweepers, removeTerminal(s)
      PROVE  Once'
  BY <1>2
     DEF removeTerminal, Once, OneAttempt, OneClaim, HasToken, Typed, TypeOK, Row, Bull,
         Worker, NoJob, Resting, Attempts, SetStatus, EndAttempt, ClaimFails, Claimable,
         Failable, Recovered
<1>3. ASSUME NEW s \in Sweepers, addJob(s)
      PROVE  Once'
  BY <1>3
     DEF addJob, Once, OneAttempt, OneClaim, HasToken, Typed, TypeOK, Row, Bull, Worker,
         NoJob, Resting, Attempts, SetStatus, EndAttempt, ClaimFails, Claimable, Failable,
         Recovered
<1>4. ASSUME NEW w \in Workers, takeJob(w)
      PROVE  Once'
  <2>1. /\ bull.state = "waiting" /\ bull'.state = "active" /\ bull'.left = bull.left
        /\ UNCHANGED <<kind, row, applied>> /\ worker[w].pc = "idle"
    BY <1>4 DEF takeJob, Typed, TypeOK, Bull
  <2>2. /\ worker'[w].pc = "claim" /\ (bull.left = 1 => worker'[w].final = TRUE)
        /\ \A v \in Workers : v # w => worker'[v] = worker[v]
    BY <1>4 DEF takeJob, Typed, TypeOK, Worker
  <2>3. CASE kind = "EXPORT"
    BY <2>1, <2>3 DEF Once
  <2>4. CASE kind = "IMPORT"
    <3>1. OneAttempt'
      BY <2>1, <2>2, <2>4 DEF Once, OneAttempt
    <3>2. OneClaim'
      BY <2>1, <2>2, <2>4 DEF Once, OneClaim, HasToken
    <3> QED
      BY <2>1, <2>4, <3>1, <3>2 DEF Once
  <2> QED
    BY <2>3, <2>4 DEF Typed, TypeOK
<1>5. ASSUME NEW w \in Workers, claim_data_job(w)
      PROVE  Once'
  <2>1. CASE ~Claimable
    BY <1>5, <2>1, SMTT(30)
       DEF claim_data_job, Once, OneAttempt, OneClaim, HasToken, Typed, TypeOK, Row, Bull,
           Worker, NoJob, Resting, Attempts, SetStatus, EndAttempt, ClaimFails, Claimable,
           Failable, Recovered
  <2>2. CASE Claimable /\ row'.status = "PROCESSING" /\ UNCHANGED <<bull, kind, applied>>
             /\ worker' = [worker EXCEPT ![w].pc = "work", ![w].token = runs + 1]
    <3>1. /\ worker'[w].pc = "work" /\ worker'[w].final = worker[w].final
          /\ \A v \in Workers : v # w => worker'[v] = worker[v]
      BY <2>2 DEF Typed, TypeOK, Worker
    <3>2. worker[w].pc = "claim" /\ row.status = "QUEUED"
      BY <1>5, <2>2 DEF claim_data_job, Claimable
    <3>3. CASE kind = "EXPORT"
      BY <2>2, <3>3 DEF Once
    <3>4. CASE kind = "IMPORT"
      <4>1. OneAttempt'
        BY <2>2, <3>1, <3>2, <3>4 DEF Once, OneAttempt
      <4>2. OneClaim'
        BY <2>2, <3>1, <3>2, <3>4 DEF Once, OneClaim, HasToken
      <4> QED
        BY <2>2, <3>4, <4>1, <4>2 DEF Once
    <3> QED
      BY <3>3, <3>4 DEF Typed, TypeOK
  <2> QED
    BY <1>5, <2>1, <2>2, SetStatusRow DEF claim_data_job, Typed, TypeOK
<1>6. ASSUME NEW w \in Workers, update_data_job_progress(w)
      PROVE  Once'
  BY <1>6
     DEF update_data_job_progress, Once, OneAttempt, OneClaim, HasToken, Typed, TypeOK,
         Row, Bull, Worker, NoJob, Resting, Attempts, SetStatus, EndAttempt, ClaimFails,
         Claimable, Failable, Recovered
<1>7. ASSUME NEW w \in Workers, work(w)
      PROVE  Once'
  BY <1>7
     DEF work, Once, OneAttempt, OneClaim, HasToken, Typed, TypeOK, Row, Bull, Worker,
         NoJob, Resting, Attempts, SetStatus, EndAttempt, ClaimFails, Claimable, Failable,
         Recovered
<1>8. ASSUME NEW w \in Workers, complete_data_job(w)
      PROVE  Once'
  <2>1. \/ row'.status # "QUEUED" /\ UNCHANGED <<bull, kind, applied>>
        \/ UNCHANGED <<row, bull, kind, applied>>
    BY <1>8 DEF complete_data_job, Typed, TypeOK, Row
  <2>2. /\ worker[w].pc = "commit" /\ worker'[w].pc \in {"committed", "cleanup"}
        /\ worker'[w].final = worker[w].final
        /\ \A v \in Workers : v # w => worker'[v] = worker[v]
    BY <1>8 DEF complete_data_job, Typed, TypeOK, Worker
  <2>3. CASE kind = "EXPORT"
    BY <2>1, <2>3 DEF Once
  <2>4. CASE kind = "IMPORT"
    <3>1. OneAttempt'
      BY <2>1, <2>2, <2>4 DEF Once, OneAttempt
    <3>2. OneClaim'
      BY <2>1, <2>2, <2>4 DEF Once, OneClaim, HasToken
    <3> QED
      BY <2>1, <2>4, <3>1, <3>2 DEF Once
  <2> QED
    BY <2>3, <2>4 DEF Typed, TypeOK
<1>9. ASSUME NEW w \in Workers, raise(w)
      PROVE  Once'
  BY <1>9
     DEF raise, Once, OneAttempt, OneClaim, HasToken, Typed, TypeOK, Row, Bull, Worker,
         NoJob, Resting, Attempts, SetStatus, EndAttempt, ClaimFails, Claimable, Failable,
         Recovered
<1>10. ASSUME NEW w \in Workers, finish(w)
      PROVE  Once'
  BY <1>10
     DEF finish, Once, OneAttempt, OneClaim, HasToken, Typed, TypeOK, Row, Bull, Worker,
         NoJob, Resting, Attempts, SetStatus, EndAttempt, ClaimFails, Claimable, Failable,
         Recovered
<1>11. ASSUME NEW w \in Workers, remove_generated_file(w)
      PROVE  Once'
  BY <1>11
     DEF remove_generated_file, Once, OneAttempt, OneClaim, HasToken, Typed, TypeOK, Row,
         Bull, Worker, NoJob, Resting, Attempts, SetStatus, EndAttempt, ClaimFails,
         Claimable, Failable, Recovered
<1>12. ASSUME NEW w \in Workers, fail_data_job(w)
      PROVE  Once'
  BY <1>12, ZenonT(40)
     DEF fail_data_job, Once, OneAttempt, OneClaim, HasToken, Typed, TypeOK, Row, Bull,
         Worker, NoJob, Resting, Attempts, SetStatus, EndAttempt, ClaimFails, Claimable,
         Failable, Recovered
<1>13. ASSUME NEW w \in Workers, crashWorker(w)
      PROVE  Once'
  BY <1>13
     DEF crashWorker, Once, OneAttempt, OneClaim, HasToken, Typed, TypeOK, Row, Bull,
         Worker, NoJob, Resting, Attempts, SetStatus, EndAttempt, ClaimFails, Claimable,
         Failable, Recovered
<1>14. ASSUME NEW s \in Sweepers, inspectStale(s)
      PROVE  Once'
  BY <1>14
     DEF inspectStale, Once, OneAttempt, OneClaim, HasToken, Typed, TypeOK, Row, Bull,
         Worker, NoJob, Resting, Attempts, SetStatus, EndAttempt, ClaimFails, Claimable,
         Failable, Recovered
<1>15. ASSUME NEW s \in Sweepers, recoverStale(s)
      PROVE  Once'
  <2>1. UNCHANGED <<kind, worker, applied>>
    BY <1>15 DEF recoverStale
  <2>2. CASE kind = "EXPORT"
    BY <2>1, <2>2 DEF Once
  <2>3. CASE kind = "IMPORT"
    <3>1. row'.status = row.status \/ row'.status = "FAILED"
      BY <1>15, <2>3, SetStatusRow DEF recoverStale, Recovered, Typed, TypeOK
    <3>2. UNCHANGED bull \/ bull'.state = "absent"
      BY <1>15 DEF recoverStale, NoJob
    <3>3. OneAttempt' /\ OneClaim'
      BY <2>1, <2>3, <3>1, <3>2 DEF Once, OneAttempt, OneClaim, HasToken
    <3> QED
      BY <2>1, <2>3, <3>3 DEF Once
  <2> QED
    BY <2>2, <2>3 DEF Typed, TypeOK
<1>16. ASSUME NEW s \in Sweepers, selectExpired(s)
      PROVE  Once'
  BY <1>16
     DEF selectExpired, Once, OneAttempt, OneClaim, HasToken, Typed, TypeOK, Row, Bull,
         Worker, NoJob, Resting, Attempts, SetStatus, EndAttempt, ClaimFails, Claimable,
         Failable, Recovered
<1>17. ASSUME NEW s \in Sweepers, unlinkExpired(s)
      PROVE  Once'
  BY <1>17
     DEF unlinkExpired, Once, OneAttempt, OneClaim, HasToken, Typed, TypeOK, Row, Bull,
         Worker, NoJob, Resting, Attempts, SetStatus, EndAttempt, ClaimFails, Claimable,
         Failable, Recovered
<1>18. ASSUME NEW s \in Sweepers, deleteExpired(s)
      PROVE  Once'
  BY <1>18
     DEF deleteExpired, Once, OneAttempt, OneClaim, HasToken, Typed, TypeOK, Row, Bull,
         Worker, NoJob, Resting, Attempts, SetStatus, EndAttempt, ClaimFails, Claimable,
         Failable, Recovered
<1>19. ASSUME NEW s \in Sweepers, listOrphans(s)
      PROVE  Once'
  BY <1>19
     DEF listOrphans, Once, OneAttempt, OneClaim, HasToken, Typed, TypeOK, Row, Bull,
         Worker, NoJob, Resting, Attempts, SetStatus, EndAttempt, ClaimFails, Claimable,
         Failable, Recovered
<1>20. ASSUME NEW s \in Sweepers, pruneOrphans(s)
      PROVE  Once'
  BY <1>20
     DEF pruneOrphans, Once, OneAttempt, OneClaim, HasToken, Typed, TypeOK, Row, Bull,
         Worker, NoJob, Resting, Attempts, SetStatus, EndAttempt, ClaimFails, Claimable,
         Failable, Recovered
<1>21. ASSUME NEW s \in Sweepers, crashSweeper(s)
      PROVE  Once'
  BY <1>21
     DEF crashSweeper, Once, OneAttempt, OneClaim, HasToken, Typed, TypeOK, Row, Bull,
         Worker, NoJob, Resting, Attempts, SetStatus, EndAttempt, ClaimFails, Claimable,
         Failable, Recovered
<1>22. CASE redeliver
  BY <1>22
     DEF redeliver, Once, OneAttempt, OneClaim, HasToken, Typed, TypeOK, Row, Bull, Worker,
         NoJob, Resting, Attempts, SetStatus, EndAttempt, ClaimFails, Claimable, Failable,
         Recovered
<1>23. CASE rowGoesStale
  BY <1>23
     DEF rowGoesStale, Once, OneAttempt, OneClaim, HasToken, Typed, TypeOK, Row, Bull,
         Worker, NoJob, Resting, Attempts, SetStatus, EndAttempt, ClaimFails, Claimable,
         Failable, Recovered
<1>24. CASE rowExpires
  BY <1>24
     DEF rowExpires, Once, OneAttempt, OneClaim, HasToken, Typed, TypeOK, Row, Bull,
         Worker, NoJob, Resting, Attempts, SetStatus, EndAttempt, ClaimFails, Claimable,
         Failable, Recovered
<1>25. CASE UNCHANGED vars
  BY <1>25 DEF vars, Once, OneAttempt, OneClaim, HasToken
<1> QED
  BY <1>1, <1>2, <1>3, <1>4, <1>5, <1>6, <1>7, <1>8, <1>9, <1>10, <1>11, <1>12, <1>13,
     <1>14, <1>15, <1>16, <1>17, <1>18, <1>19, <1>20, <1>21, <1>22, <1>23, <1>24, <1>25
     DEF Next, Attempt, Publish, Recover, Clean

(* The rows of an uploaded file are applied at most once: claim_data_job gives  *)
(* an import to one attempt, and neither redelivery, fail_data_job nor the      *)
(* recovery offers it to another.                                               *)
THEOREM ImportIsAppliedOnce == Spec => []ImportedAtMostOnce
<1>1. Init => Typed /\ Once
  BY TypedInit, OnceInit
<1>2. Typed /\ Once /\ [Next]_vars => (Typed /\ Once)'
  BY TypedStep, OnceStep
<1>3. Once => ImportedAtMostOnce
  BY DEF Once, ImportedAtMostOnce
<1> QED
  BY <1>1, <1>2, <1>3, PTL DEF Spec

-----------------------------------------------------------------------------
(* Files *)

(* Whoever deletes by age does so for a job that has expired. *)
OnlyExpiredIsCleaned ==
  \A s \in Sweepers : sweeper[s].pc \in {"unlink", "delete", "prune"} => row.expired = TRUE

(* Of an export: a token has one owner, a run that commits has written its    *)
(* file, and one that cleans up has not been completed, unless it met an      *)
(* error after its commit.                                                    *)
OwnToken ==
  \A w, v \in Workers :
    w # v /\ HasToken(w) /\ HasToken(v) => worker[w].token # worker[v].token

ArtifactsAreKept ==
  /\ \A w \in Workers :
       HasToken(w) /\ worker[w].pc # "committed" /\ row.status = "COMPLETED" /\ late = 0
         => row.artifact # worker[w].token
  /\ row.expired = FALSE =>
       /\ \A w \in Workers : worker[w].pc = "commit" => worker[w].token \in files
       /\ row.status = "COMPLETED" /\ late = 0 => row.artifact \in files

(* Of an import: the uploaded file is there until it is claimed, and while it *)
(* is being applied.                                                          *)
InputIsKept ==
  row.expired = FALSE =>
    /\ row.status = "QUEUED" => Input \in files
    /\ \A w \in Workers : worker[w].pc = "work" => Input \in files

Kept ==
  /\ OnlyExpiredIsCleaned
  /\ OwnToken
  /\ kind = "EXPORT" => ArtifactsAreKept
  /\ kind = "IMPORT" => InputIsKept

LEMMA KeptInit == Init => Kept
BY DEF Init, Kept, OnlyExpiredIsCleaned, OwnToken, ArtifactsAreKept, InputIsKept, HasToken,
   Resting, Idle

(* Every step keeps the files. *)
LEMMA KeptStep == Typed /\ Once /\ Kept /\ [Next]_vars => Kept'
<1> SUFFICES ASSUME Typed, Once, Kept, [Next]_vars PROVE Kept'
  OBVIOUS
<1> USE ConstantsApart
<1>1. ASSUME NEW s \in Sweepers, getState(s)
      PROVE  Kept'
  <2>1. /\ UNCHANGED <<kind, row, files, worker, late>>
        /\ \A t \in Sweepers : sweeper'[t] = sweeper[t] \/ sweeper'[t].pc \in {"add", "remove"}
    BY <1>1 DEF getState, Typed, TypeOK, Sweeper
  <2>2. OnlyExpiredIsCleaned'
    BY <2>1 DEF Kept, OnlyExpiredIsCleaned
  <2>3. OwnToken' /\ (kind = "EXPORT" => ArtifactsAreKept') /\ (kind = "IMPORT" => InputIsKept')
    BY <2>1 DEF Kept, OwnToken, ArtifactsAreKept, InputIsKept, HasToken
  <2> QED
    BY <2>1, <2>2, <2>3 DEF Kept
<1>2. ASSUME NEW s \in Sweepers, removeTerminal(s)
      PROVE  Kept'
  BY <1>2
     DEF removeTerminal, Kept, OnlyExpiredIsCleaned, OwnToken, ArtifactsAreKept,
         InputIsKept, Once, OneClaim, HasToken, Typed, TypeOK, Row, Worker, Sweeper,
         Resting, Idle, Artifact, SetStatus, EndAttempt, ClaimFails, Claimable, Failable,
         Recovered
<1>3. ASSUME NEW s \in Sweepers, addJob(s)
      PROVE  Kept'
  BY <1>3
     DEF addJob, Kept, OnlyExpiredIsCleaned, OwnToken, ArtifactsAreKept, InputIsKept, Once,
         OneClaim, HasToken, Typed, TypeOK, Row, Worker, Sweeper, Resting, Idle, Artifact,
         SetStatus, EndAttempt, ClaimFails, Claimable, Failable, Recovered
<1>4. ASSUME NEW w \in Workers, takeJob(w)
      PROVE  Kept'
  BY <1>4
     DEF takeJob, Kept, OnlyExpiredIsCleaned, OwnToken, ArtifactsAreKept, InputIsKept,
         Once, OneClaim, HasToken, Typed, TypeOK, Row, Worker, Sweeper, Resting, Idle,
         Artifact, SetStatus, EndAttempt, ClaimFails, Claimable, Failable, Recovered
<1>5. ASSUME NEW w \in Workers, claim_data_job(w)
      PROVE  Kept'
  <2>1. CASE ~Claimable
    <3>1. worker' = [worker EXCEPT ![w] = Resting] /\ UNCHANGED <<kind, row, files, sweeper, late>>
      BY <1>5, <2>1 DEF claim_data_job, ClaimFails, EndAttempt
    <3>2. \A v \in Workers : HasToken(v)' => v # w /\ HasToken(v) /\ worker'[v] = worker[v]
      BY <3>1 DEF HasToken, Resting, Typed, TypeOK
    <3> QED
      BY <3>1, <3>2
         DEF Kept, OnlyExpiredIsCleaned, OwnToken, ArtifactsAreKept, InputIsKept, HasToken
  <2>2. CASE Claimable
    <3>1. /\ worker[w].pc = "claim" /\ row.status = "QUEUED" /\ runs \in Nat
          /\ SetStatus("PROCESSING") /\ UNCHANGED <<kind, files, sweeper, late>>
      BY <1>5, <2>2 DEF claim_data_job, Claimable, Typed, TypeOK
    <3>2. row'.status = "PROCESSING" /\ row'.expired = row.expired
      BY <3>1, SetStatusRow DEF Typed, TypeOK
    <3>3. worker' = [worker EXCEPT ![w].pc = "work", ![w].token = runs + 1]
      BY <1>5, <2>2 DEF claim_data_job
    <3>4. /\ worker'[w].pc = "work" /\ worker'[w].token = runs + 1
          /\ \A v \in Workers : v # w => worker'[v] = worker[v]
      BY <3>3 DEF Typed, TypeOK, Worker
    <3>5. \A v \in Workers : HasToken(v) => worker[v].token # runs + 1
      BY <3>1 DEF Typed
    <3>6. OnlyExpiredIsCleaned' /\ OwnToken'
      BY <3>1, <3>2, <3>4, <3>5 DEF Kept, OnlyExpiredIsCleaned, OwnToken, HasToken
    <3>7. kind = "EXPORT" => ArtifactsAreKept'
      BY <3>1, <3>2, <3>4 DEF Kept, ArtifactsAreKept, HasToken
    <3>8. kind = "IMPORT" => InputIsKept'
      BY <3>1, <3>2, <3>4 DEF Kept, InputIsKept
    <3> QED
      BY <3>1, <3>6, <3>7, <3>8 DEF Kept
  <2> QED
    BY <2>1, <2>2
<1>6. ASSUME NEW w \in Workers, update_data_job_progress(w)
      PROVE  Kept'
  BY <1>6
     DEF update_data_job_progress, Kept, OnlyExpiredIsCleaned, OwnToken, ArtifactsAreKept,
         InputIsKept, Once, OneClaim, HasToken, Typed, TypeOK, Row, Worker, Sweeper,
         Resting, Idle, Artifact, SetStatus, EndAttempt, ClaimFails, Claimable, Failable,
         Recovered
<1>7. ASSUME NEW w \in Workers, work(w)
      PROVE  Kept'
  BY <1>7
     DEF work, Kept, OnlyExpiredIsCleaned, OwnToken, ArtifactsAreKept, InputIsKept, Once,
         OneClaim, HasToken, Typed, TypeOK, Row, Worker, Sweeper, Resting, Idle, Artifact,
         SetStatus, EndAttempt, ClaimFails, Claimable, Failable, Recovered
<1>8. ASSUME NEW w \in Workers, complete_data_job(w)
      PROVE  Kept'
  <2>1. /\ worker[w].pc = "commit" /\ UNCHANGED <<kind, files, sweeper, late>>
        /\ worker'[w].token = worker[w].token
        /\ \A v \in Workers : v # w => worker'[v] = worker[v]
    BY <1>8 DEF complete_data_job, Typed, TypeOK, Worker
  <2>2. row'.expired = row.expired
    BY <1>8 DEF complete_data_job, Typed, TypeOK, Row
  <2>3. OnlyExpiredIsCleaned' /\ OwnToken'
    BY <2>1, <2>2 DEF Kept, OnlyExpiredIsCleaned, OwnToken, HasToken
  <2>4. CASE row.status # "PROCESSING"
    <3>1. UNCHANGED row /\ worker'[w].pc = "cleanup"
      BY <1>8, <2>4 DEF complete_data_job, Typed, TypeOK, Worker
    <3> QED
      BY <2>1, <2>3, <3>1 DEF Kept, ArtifactsAreKept, InputIsKept, HasToken
  <2>5. CASE row.status = "PROCESSING"
    <3> DEFINE artifact == IF kind = "EXPORT" THEN Artifact(w) ELSE None
    <3>1. row' = [row EXCEPT !.status = "COMPLETED", !.stale = FALSE, !.artifact = artifact]
      BY <1>8, <2>5 DEF complete_data_job
    <3>2. (kind = "EXPORT" => artifact = worker[w].token)
      BY DEF Artifact
    <3> HIDE DEF artifact
    <3>3. row'.status = "COMPLETED" /\ (kind = "EXPORT" => row'.artifact = worker[w].token)
      BY <3>1, <3>2 DEF Typed, TypeOK, Row
    <3>4. worker'[w].pc = "committed"
      BY <1>8, <2>5 DEF complete_data_job, Typed, TypeOK, Worker
    <3>5. kind = "EXPORT" => ArtifactsAreKept'
      BY <2>1, <2>2, <3>3, <3>4 DEF Kept, OwnToken, ArtifactsAreKept, HasToken
    <3>6. kind = "IMPORT" => InputIsKept'
      BY <2>1, <2>2, <3>3, <3>4 DEF Kept, InputIsKept
    <3> QED
      BY <2>1, <2>3, <3>5, <3>6 DEF Kept
  <2> QED
    BY <2>4, <2>5
<1>9. ASSUME NEW w \in Workers, raise(w)
      PROVE  Kept'
  BY <1>9
     DEF raise, Kept, OnlyExpiredIsCleaned, OwnToken, ArtifactsAreKept, InputIsKept, Once,
         OneClaim, HasToken, Typed, TypeOK, Row, Worker, Sweeper, Resting, Idle, Artifact,
         SetStatus, EndAttempt, ClaimFails, Claimable, Failable, Recovered
<1>10. ASSUME NEW w \in Workers, finish(w)
      PROVE  Kept'
  <2>1. EndAttempt(w, TRUE) /\ worker[w].pc = "committed"
    BY <1>10 DEF finish
  <2>2. \A v \in Workers : HasToken(v)' => v # w /\ HasToken(v) /\ worker'[v] = worker[v]
    BY <2>1, EndAttemptTyped
  <2>3. files' = files \ {Input} /\ UNCHANGED <<kind, row, sweeper, late>> /\ HasToken(w)
    BY <1>10, <2>1 DEF finish, HasToken
  <2>4. OnlyExpiredIsCleaned' /\ OwnToken'
    BY <2>2, <2>3 DEF Kept, OnlyExpiredIsCleaned, OwnToken
  <2>t. row.artifact # Input /\ \A v \in Workers : HasToken(v) => worker[v].token # Input
    BY DEF Typed, TypeOK
  <2>5. kind = "EXPORT" => ArtifactsAreKept'
    BY <2>2, <2>3, <2>t DEF Kept, ArtifactsAreKept, HasToken
  <2>6. kind = "IMPORT" => InputIsKept'
    BY <2>2, <2>3 DEF Kept, InputIsKept, Once, OneClaim, HasToken
  <2> QED
    BY <2>3, <2>4, <2>5, <2>6 DEF Kept
<1>11. ASSUME NEW w \in Workers, remove_generated_file(w)
      PROVE  Kept'
  BY <1>11
     DEF remove_generated_file, Kept, OnlyExpiredIsCleaned, OwnToken, ArtifactsAreKept,
         InputIsKept, Once, OneClaim, HasToken, Typed, TypeOK, Row, Worker, Sweeper,
         Resting, Idle, Artifact, SetStatus, EndAttempt, ClaimFails, Claimable, Failable,
         Recovered
<1>12. ASSUME NEW w \in Workers, fail_data_job(w)
      PROVE  Kept'
  <2>1. EndAttempt(w, FALSE) /\ worker[w].pc = "fail"
    BY <1>12 DEF fail_data_job
  <2>2. \A v \in Workers : HasToken(v)' => v # w /\ HasToken(v) /\ worker'[v] = worker[v]
    BY <2>1, EndAttemptTyped
  <2>3. /\ files' = files \/ (worker[w].final = TRUE /\ files' = files \ {Input})
        /\ UNCHANGED <<kind, sweeper, late>> /\ HasToken(w)
    BY <1>12, <2>1 DEF fail_data_job, HasToken
  <2>4. /\ row'.expired = row.expired /\ row'.artifact = row.artifact
        /\ row'.status = row.status \/ row'.status = "FAILED"
             \/ (worker[w].final # TRUE /\ row'.status = "QUEUED")
    BY <1>12, SetStatusRow DEF fail_data_job, Typed, TypeOK
  <2>5. OnlyExpiredIsCleaned' /\ OwnToken'
    BY <2>2, <2>3, <2>4 DEF Kept, OnlyExpiredIsCleaned, OwnToken
  <2>t. row.artifact # Input /\ \A v \in Workers : HasToken(v) => worker[v].token # Input
    BY DEF Typed, TypeOK
  <2>6. kind = "EXPORT" => ArtifactsAreKept'
    BY <2>2, <2>3, <2>4, <2>t DEF Kept, ArtifactsAreKept, HasToken
  <2>7. kind = "IMPORT" => InputIsKept'
    BY <2>2, <2>3, <2>4 DEF Kept, InputIsKept, Once, OneAttempt, OneClaim, HasToken
  <2> QED
    BY <2>3, <2>5, <2>6, <2>7 DEF Kept
<1>13. ASSUME NEW w \in Workers, crashWorker(w)
      PROVE  Kept'
  BY <1>13
     DEF crashWorker, Kept, OnlyExpiredIsCleaned, OwnToken, ArtifactsAreKept, InputIsKept,
         Once, OneClaim, HasToken, Typed, TypeOK, Row, Worker, Sweeper, Resting, Idle,
         Artifact, SetStatus, EndAttempt, ClaimFails, Claimable, Failable, Recovered
<1>14. ASSUME NEW s \in Sweepers, inspectStale(s)
      PROVE  Kept'
  BY <1>14
     DEF inspectStale, Kept, OnlyExpiredIsCleaned, OwnToken, ArtifactsAreKept, InputIsKept,
         Once, OneClaim, HasToken, Typed, TypeOK, Row, Worker, Sweeper, Resting, Idle,
         Artifact, SetStatus, EndAttempt, ClaimFails, Claimable, Failable, Recovered
<1>15. ASSUME NEW s \in Sweepers, recoverStale(s)
      PROVE  Kept'
  <2>1. UNCHANGED <<kind, worker, files, late>>
    BY <1>15 DEF recoverStale
  <2>2. \A t \in Sweepers : sweeper'[t] = sweeper[t] \/ sweeper'[t].pc = "idle"
    BY <1>15 DEF recoverStale, Idle, Typed, TypeOK
  <2>3. \/ UNCHANGED row
        \/ /\ row'.expired = row.expired
           /\ row'.status = IF kind = "EXPORT" THEN "QUEUED" ELSE "FAILED"
    BY <1>15, SetStatusRow DEF recoverStale, Recovered, Typed, TypeOK
  <2>4. OnlyExpiredIsCleaned' /\ OwnToken'
    BY <2>1, <2>2, <2>3 DEF Kept, OnlyExpiredIsCleaned, OwnToken, HasToken
  <2>5. kind = "EXPORT" => ArtifactsAreKept'
    BY <2>1, <2>3 DEF Kept, ArtifactsAreKept, HasToken
  <2>6. kind = "IMPORT" => InputIsKept'
    BY <2>1, <2>3 DEF Kept, InputIsKept
  <2> QED
    BY <2>1, <2>4, <2>5, <2>6 DEF Kept
<1>16. ASSUME NEW s \in Sweepers, selectExpired(s)
      PROVE  Kept'
  BY <1>16
     DEF selectExpired, Kept, OnlyExpiredIsCleaned, OwnToken, ArtifactsAreKept,
         InputIsKept, Once, OneClaim, HasToken, Typed, TypeOK, Row, Worker, Sweeper,
         Resting, Idle, Artifact, SetStatus, EndAttempt, ClaimFails, Claimable, Failable,
         Recovered
<1>17. ASSUME NEW s \in Sweepers, unlinkExpired(s)
      PROVE  Kept'
  BY <1>17
     DEF unlinkExpired, Kept, OnlyExpiredIsCleaned, OwnToken, ArtifactsAreKept,
         InputIsKept, Once, OneClaim, HasToken, Typed, TypeOK, Row, Worker, Sweeper,
         Resting, Idle, Artifact, SetStatus, EndAttempt, ClaimFails, Claimable, Failable,
         Recovered
<1>18. ASSUME NEW s \in Sweepers, deleteExpired(s)
      PROVE  Kept'
  BY <1>18
     DEF deleteExpired, Kept, OnlyExpiredIsCleaned, OwnToken, ArtifactsAreKept,
         InputIsKept, Once, OneClaim, HasToken, Typed, TypeOK, Row, Worker, Sweeper,
         Resting, Idle, Artifact, SetStatus, EndAttempt, ClaimFails, Claimable, Failable,
         Recovered
<1>19. ASSUME NEW s \in Sweepers, listOrphans(s)
      PROVE  Kept'
  BY <1>19
     DEF listOrphans, Kept, OnlyExpiredIsCleaned, OwnToken, ArtifactsAreKept, InputIsKept,
         Once, OneClaim, HasToken, Typed, TypeOK, Row, Worker, Sweeper, Resting, Idle,
         Artifact, SetStatus, EndAttempt, ClaimFails, Claimable, Failable, Recovered
<1>20. ASSUME NEW s \in Sweepers, pruneOrphans(s)
      PROVE  Kept'
  BY <1>20
     DEF pruneOrphans, Kept, OnlyExpiredIsCleaned, OwnToken, ArtifactsAreKept, InputIsKept,
         Once, OneClaim, HasToken, Typed, TypeOK, Row, Worker, Sweeper, Resting, Idle,
         Artifact, SetStatus, EndAttempt, ClaimFails, Claimable, Failable, Recovered
<1>21. ASSUME NEW s \in Sweepers, crashSweeper(s)
      PROVE  Kept'
  BY <1>21
     DEF crashSweeper, Kept, OnlyExpiredIsCleaned, OwnToken, ArtifactsAreKept, InputIsKept,
         Once, OneClaim, HasToken, Typed, TypeOK, Row, Worker, Sweeper, Resting, Idle,
         Artifact, SetStatus, EndAttempt, ClaimFails, Claimable, Failable, Recovered
<1>22. CASE redeliver
  BY <1>22
     DEF redeliver, Kept, OnlyExpiredIsCleaned, OwnToken, ArtifactsAreKept, InputIsKept,
         Once, OneClaim, HasToken, Typed, TypeOK, Row, Worker, Sweeper, Resting, Idle,
         Artifact, SetStatus, EndAttempt, ClaimFails, Claimable, Failable, Recovered
<1>23. CASE rowGoesStale
  BY <1>23
     DEF rowGoesStale, Kept, OnlyExpiredIsCleaned, OwnToken, ArtifactsAreKept, InputIsKept,
         Once, OneClaim, HasToken, Typed, TypeOK, Row, Worker, Sweeper, Resting, Idle,
         Artifact, SetStatus, EndAttempt, ClaimFails, Claimable, Failable, Recovered
<1>24. CASE rowExpires
  BY <1>24
     DEF rowExpires, Kept, OnlyExpiredIsCleaned, OwnToken, ArtifactsAreKept, InputIsKept,
         Once, OneClaim, HasToken, Typed, TypeOK, Row, Worker, Sweeper, Resting, Idle,
         Artifact, SetStatus, EndAttempt, ClaimFails, Claimable, Failable, Recovered
<1>25. CASE UNCHANGED vars
  BY <1>25
     DEF vars, Kept, OnlyExpiredIsCleaned, OwnToken, ArtifactsAreKept, InputIsKept, HasToken
<1> QED
  BY <1>1, <1>2, <1>3, <1>4, <1>5, <1>6, <1>7, <1>8, <1>9, <1>10, <1>11, <1>12, <1>13,
     <1>14, <1>15, <1>16, <1>17, <1>18, <1>19, <1>20, <1>21, <1>22, <1>23, <1>24, <1>25
     DEF Next, Attempt, Publish, Recover, Clean

(* A completed export that has not expired can be downloaded, but for a late   *)
(* error of its worker, and nobody takes the uploaded file from the attempt    *)
(* that applies it: remove_generated_file, finish, fail_data_job and the       *)
(* cleaning of the sweep.                                                      *)
THEOREM FilesStayThere == Spec => []FilesAreThere
<1>1. Init => Typed /\ Once /\ Kept
  BY TypedInit, OnceInit, KeptInit
<1>2. Typed /\ Once /\ Kept /\ [Next]_vars => (Typed /\ Once /\ Kept)'
  BY TypedStep, OnceStep, KeptStep
<1>3. Typed /\ Kept => FilesAreThere
  BY DEF Typed, TypeOK, Row, Kept, ArtifactsAreKept, InputIsKept, FilesAreThere
<1> QED
  BY <1>1, <1>2, <1>3, PTL DEF Spec
=============================================================================
