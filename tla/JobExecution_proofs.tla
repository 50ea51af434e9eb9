------------------------ MODULE JobExecution_proofs -------------------------
(***************************************************************************)
(* Proofs about JobExecution, for every number of jobs, workers, retries   *)
(* and every value of the bounds.                                          *)
(***************************************************************************)
EXTENDS JobExecution, TLAPS

(* A worker with an exception still holds its lock, or the loss is recorded. *)
AbortRecorded ==
  \A w \in Worker : pc[w] \in {"retrying", "failing"} =>
    aborted[jobOf[w]] \/ holder[jobOf[w]] = w

(* Committed work leaves nothing behind that could make the job run again.  *)
CommittedIsSettled ==
  \A j \in Job : effects[j] > 0 /\ ~aborted[j] =>
    /\ effects[j] = 1
    /\ state[j] = "done"
    /\ view[j] # "pending"
    /\ \A w \in Worker : jobOf[w] = j => pc[w] \in {"acquired", "closing"}

(* The inductive invariant. *)
IInv ==
  /\ TypeOK
  /\ LocksHeld
  /\ PerformedIsStarted
  /\ ActiveIsCounted
  /\ RunnerUpToDate
  /\ AbortRecorded
  /\ CommittedIsSettled

-----------------------------------------------------------------------------

(* Every step preserves the types. *)
LEMMA TypeStep == TypeOK /\ [Next]_vars => TypeOK'
<1> SUFFICES ASSUME TypeOK, [Next]_vars PROVE TypeOK'
  OBVIOUS
<1> USE ConstantsAssumption DEF TypeOK, States, Views, Locations
<1>1. ASSUME NEW j \in Job, process_notifications(j) PROVE TypeOK'
  BY <1>1 DEF process_notifications, ViewOf, dbVars, workerVars, historyVars, budgetVars
<1>2. ASSUME NEW j \in Job, run_jobs(j) PROVE TypeOK'
  BY <1>2 DEF run_jobs, set_job_enqueued, async_http_get, Commit, historyVars, budgetVars
<1>3. CASE requeue_dead_jobs_select
  BY <1>3 DEF requeue_dead_jobs_select, DeadCandidates, workerVars, historyVars, budgetVars
<1>4. CASE requeue_dead_jobs_update
  BY <1>4 DEF requeue_dead_jobs_update, TooManyRetries, Released, Commit, historyVars, budgetVars
<1>5. CASE initialize_databases
  BY <1>5 DEF initialize_databases, ViewOf, Fault, Released, workerVars, historyVars
<1>6. ASSUME NEW j \in Job, Age(j) PROVE TypeOK'
  BY <1>6 DEF Age, workerVars, runnerVars, historyVars, budgetVars
<1>7. ASSUME NEW w \in Worker, NEW j \in Job, acquire_job(w, j) PROVE TypeOK'
  BY <1>7 DEF acquire_job, Commit, historyVars, budgetVars
<1>8. ASSUME NEW j \in Job, acquire_job_rejected(j) PROVE TypeOK'
  BY <1>8 DEF acquire_job_rejected, dbVars, workerVars, historyVars, budgetVars
<1>9. ASSUME NEW j \in Job, lose_request(j) PROVE TypeOK'
  BY <1>9 DEF lose_request, Fault, dbVars, workerVars, historyVars
<1>10. ASSUME NEW w \in Worker, lock(w) PROVE TypeOK'
  BY <1>10 DEF lock, Lockable, runnerVars, budgetVars
<1>11. ASSUME NEW w \in Worker, lock_failed(w) PROVE TypeOK'
  BY <1>11 DEF lock_failed, Lockable, Leave, dbVars, runnerVars, historyVars, budgetVars
<1>12. ASSUME NEW w \in Worker, perform_done(w) PROVE TypeOK'
  BY <1>12 DEF perform_done, Leave, Commit, Released, budgetVars
<1>13. ASSUME NEW w \in Worker, store_conflict(w) PROVE TypeOK'
  BY <1>13 DEF store_conflict, Raise, Released, runnerVars
<1>14. ASSUME NEW w \in Worker, perform_retryable(w) PROVE TypeOK'
  BY <1>14 DEF perform_retryable, Raise, Released, runnerVars
<1>15. ASSUME NEW w \in Worker, perform_ignored(w) PROVE TypeOK'
  BY <1>15 DEF perform_ignored, Raise, Released, runnerVars
<1>16. ASSUME NEW w \in Worker, perform_error(w) PROVE TypeOK'
  BY <1>16 DEF perform_error, Raise, Released, runnerVars
<1>17. ASSUME NEW w \in Worker, perform_sql_retry(w) PROVE TypeOK'
  BY <1>17 DEF perform_sql_retry, Fault, Raise, Released, runnerVars
<1>18. ASSUME NEW w \in Worker, perform_sql_error(w) PROVE TypeOK'
  BY <1>18 DEF perform_sql_error, Fault, Raise, Released, runnerVars
<1>19. ASSUME NEW w \in Worker, store_exception(w) PROVE TypeOK'
  BY <1>19 DEF store_exception, Commit, historyVars, budgetVars
<1>20. ASSUME NEW w \in Worker, rollback(w) PROVE TypeOK'
  BY <1>20 DEF rollback, Leave, Released, runnerVars, historyVars, budgetVars
<1>21. ASSUME NEW w \in Worker, crash(w) PROVE TypeOK'
  BY <1>21 DEF crash, Leave, Released, Fault, runnerVars, historyVars
<1>22. ASSUME NEW j \in Job, button_done(j) PROVE TypeOK'
  BY <1>22 DEF button_done, ChangeState, Commit, historyVars
<1>23. ASSUME NEW j \in Job, button_cancelled(j) PROVE TypeOK'
  BY <1>23 DEF button_cancelled, ChangeState, Commit, historyVars
<1>24. ASSUME NEW j \in Job, requeue(j) PROVE TypeOK'
  BY <1>24 DEF requeue, ChangeState, Commit
<1>25. CASE UNCHANGED vars
  BY <1>25 DEF vars, dbVars, workerVars, runnerVars, historyVars, budgetVars
<1>26. QED
  BY <1>1, <1>2, <1>3, <1>4, <1>5, <1>6, <1>7, <1>8, <1>9, <1>10, <1>11, <1>12,
     <1>13, <1>14, <1>15, <1>16, <1>17, <1>18, <1>19, <1>20, <1>21, <1>22, <1>23, <1>24,
     <1>25
     DEF Next, RunnerStep, WorkerStep, Environment

(* Every step preserves the agreement of locks and performers. *)
LEMMA LocksStep == TypeOK /\ LocksHeld /\ [Next]_vars => LocksHeld'
<1> SUFFICES ASSUME TypeOK, LocksHeld, [Next]_vars PROVE LocksHeld'
  OBVIOUS
<1> USE ConstantsAssumption DEF TypeOK, LocksHeld
<1>1. ASSUME NEW j \in Job, process_notifications(j) PROVE LocksHeld'
  BY <1>1 DEF process_notifications, ViewOf, dbVars, workerVars, historyVars, budgetVars
<1>2. ASSUME NEW j \in Job, run_jobs(j) PROVE LocksHeld'
  BY <1>2 DEF run_jobs, set_job_enqueued, async_http_get, Commit, historyVars, budgetVars
<1>3. CASE requeue_dead_jobs_select
  BY <1>3 DEF requeue_dead_jobs_select, DeadCandidates, workerVars, historyVars, budgetVars
<1>4. CASE requeue_dead_jobs_update
  BY <1>4 DEF requeue_dead_jobs_update, TooManyRetries, Released, Commit, historyVars, budgetVars
<1>5. CASE initialize_databases
  BY <1>5 DEF initialize_databases, ViewOf, Fault, Released, workerVars, historyVars
<1>6. ASSUME NEW j \in Job, Age(j) PROVE LocksHeld'
  BY <1>6 DEF Age, workerVars, runnerVars, historyVars, budgetVars
<1>7. ASSUME NEW w \in Worker, NEW j \in Job, acquire_job(w, j) PROVE LocksHeld'
  BY <1>7 DEF acquire_job, Commit, historyVars, budgetVars
<1>8. ASSUME NEW j \in Job, acquire_job_rejected(j) PROVE LocksHeld'
  BY <1>8 DEF acquire_job_rejected, dbVars, workerVars, historyVars, budgetVars
<1>9. ASSUME NEW j \in Job, lose_request(j) PROVE LocksHeld'
  BY <1>9 DEF lose_request, Fault, dbVars, workerVars, historyVars
<1>10. ASSUME NEW w \in Worker, lock(w) PROVE LocksHeld'
  BY <1>10 DEF lock, Lockable, runnerVars, budgetVars
<1>11. ASSUME NEW w \in Worker, lock_failed(w) PROVE LocksHeld'
  BY <1>11 DEF lock_failed, Lockable, Leave, dbVars, runnerVars, historyVars, budgetVars
<1>12. ASSUME NEW w \in Worker, perform_done(w) PROVE LocksHeld'
  BY <1>12 DEF perform_done, Leave, Commit, Released, budgetVars
<1>13. ASSUME NEW w \in Worker, store_conflict(w) PROVE LocksHeld'
  BY <1>13 DEF store_conflict, Raise, Released, runnerVars
<1>14. ASSUME NEW w \in Worker, perform_retryable(w) PROVE LocksHeld'
  BY <1>14 DEF perform_retryable, Raise, Released, runnerVars
<1>15. ASSUME NEW w \in Worker, perform_ignored(w) PROVE LocksHeld'
  BY <1>15 DEF perform_ignored, Raise, Released, runnerVars
<1>16. ASSUME NEW w \in Worker, perform_error(w) PROVE LocksHeld'
  BY <1>16 DEF perform_error, Raise, Released, runnerVars
<1>17. ASSUME NEW w \in Worker, perform_sql_retry(w) PROVE LocksHeld'
  BY <1>17 DEF perform_sql_retry, Fault, Raise, Released, runnerVars
<1>18. ASSUME NEW w \in Worker, perform_sql_error(w) PROVE LocksHeld'
  BY <1>18 DEF perform_sql_error, Fault, Raise, Released, runnerVars
<1>19. ASSUME NEW w \in Worker, store_exception(w) PROVE LocksHeld'
  BY <1>19 DEF store_exception, Commit, historyVars, budgetVars
<1>20. ASSUME NEW w \in Worker, rollback(w) PROVE LocksHeld'
  BY <1>20 DEF rollback, Leave, Released, runnerVars, historyVars, budgetVars
<1>21. ASSUME NEW w \in Worker, crash(w) PROVE LocksHeld'
  BY <1>21 DEF crash, Leave, Released, Fault, runnerVars, historyVars
<1>22. ASSUME NEW j \in Job, button_done(j) PROVE LocksHeld'
  BY <1>22 DEF button_done, ChangeState, Commit, historyVars
<1>23. ASSUME NEW j \in Job, button_cancelled(j) PROVE LocksHeld'
  BY <1>23 DEF button_cancelled, ChangeState, Commit, historyVars
<1>24. ASSUME NEW j \in Job, requeue(j) PROVE LocksHeld'
  BY <1>24 DEF requeue, ChangeState, Commit
<1>25. CASE UNCHANGED vars
  BY <1>25 DEF vars, dbVars, workerVars, runnerVars, historyVars, budgetVars
<1>26. QED
  BY <1>1, <1>2, <1>3, <1>4, <1>5, <1>6, <1>7, <1>8, <1>9, <1>10, <1>11, <1>12,
     <1>13, <1>14, <1>15, <1>16, <1>17, <1>18, <1>19, <1>20, <1>21, <1>22, <1>23, <1>24,
     <1>25
     DEF Next, RunnerStep, WorkerStep, Environment

(* Every step preserves what a performer's snapshot has seen. *)
LEMMA StartedStep == TypeOK /\ PerformedIsStarted /\ [Next]_vars => PerformedIsStarted'
<1> SUFFICES ASSUME TypeOK, PerformedIsStarted, [Next]_vars PROVE PerformedIsStarted'
  OBVIOUS
<1> USE ConstantsAssumption DEF TypeOK, PerformedIsStarted
<1>1. ASSUME NEW j \in Job, process_notifications(j) PROVE PerformedIsStarted'
  BY <1>1 DEF process_notifications, ViewOf, dbVars, workerVars, historyVars, budgetVars
<1>2. ASSUME NEW j \in Job, run_jobs(j) PROVE PerformedIsStarted'
  BY <1>2 DEF run_jobs, set_job_enqueued, async_http_get, Commit, historyVars, budgetVars
<1>3. CASE requeue_dead_jobs_select
  BY <1>3 DEF requeue_dead_jobs_select, DeadCandidates, workerVars, historyVars, budgetVars
<1>4. CASE requeue_dead_jobs_update
  BY <1>4 DEF requeue_dead_jobs_update, TooManyRetries, Released, Commit, historyVars, budgetVars
<1>5. CASE initialize_databases
  BY <1>5 DEF initialize_databases, ViewOf, Fault, Released, workerVars, historyVars
<1>6. ASSUME NEW j \in Job, Age(j) PROVE PerformedIsStarted'
  BY <1>6 DEF Age, workerVars, runnerVars, historyVars, budgetVars
<1>7. ASSUME NEW w \in Worker, NEW j \in Job, acquire_job(w, j) PROVE PerformedIsStarted'
  BY <1>7 DEF acquire_job, Commit, historyVars, budgetVars
<1>8. ASSUME NEW j \in Job, acquire_job_rejected(j) PROVE PerformedIsStarted'
  BY <1>8 DEF acquire_job_rejected, dbVars, workerVars, historyVars, budgetVars
<1>9. ASSUME NEW j \in Job, lose_request(j) PROVE PerformedIsStarted'
  BY <1>9 DEF lose_request, Fault, dbVars, workerVars, historyVars
<1>10. ASSUME NEW w \in Worker, lock(w) PROVE PerformedIsStarted'
  BY <1>10 DEF lock, Lockable, runnerVars, budgetVars
<1>11. ASSUME NEW w \in Worker, lock_failed(w) PROVE PerformedIsStarted'
  BY <1>11 DEF lock_failed, Lockable, Leave, dbVars, runnerVars, historyVars, budgetVars
<1>12. ASSUME NEW w \in Worker, perform_done(w) PROVE PerformedIsStarted'
  BY <1>12 DEF perform_done, Leave, Commit, Released, budgetVars
<1>13. ASSUME NEW w \in Worker, store_conflict(w) PROVE PerformedIsStarted'
  BY <1>13 DEF store_conflict, Raise, Released, runnerVars
<1>14. ASSUME NEW w \in Worker, perform_retryable(w) PROVE PerformedIsStarted'
  BY <1>14 DEF perform_retryable, Raise, Released, runnerVars
<1>15. ASSUME NEW w \in Worker, perform_ignored(w) PROVE PerformedIsStarted'
  BY <1>15 DEF perform_ignored, Raise, Released, runnerVars
<1>16. ASSUME NEW w \in Worker, perform_error(w) PROVE PerformedIsStarted'
  BY <1>16 DEF perform_error, Raise, Released, runnerVars
<1>17. ASSUME NEW w \in Worker, perform_sql_retry(w) PROVE PerformedIsStarted'
  BY <1>17 DEF perform_sql_retry, Fault, Raise, Released, runnerVars
<1>18. ASSUME NEW w \in Worker, perform_sql_error(w) PROVE PerformedIsStarted'
  BY <1>18 DEF perform_sql_error, Fault, Raise, Released, runnerVars
<1>19. ASSUME NEW w \in Worker, store_exception(w) PROVE PerformedIsStarted'
  BY <1>19 DEF store_exception, Commit, historyVars, budgetVars
<1>20. ASSUME NEW w \in Worker, rollback(w) PROVE PerformedIsStarted'
  BY <1>20 DEF rollback, Leave, Released, runnerVars, historyVars, budgetVars
<1>21. ASSUME NEW w \in Worker, crash(w) PROVE PerformedIsStarted'
  BY <1>21 DEF crash, Leave, Released, Fault, runnerVars, historyVars
<1>22. ASSUME NEW j \in Job, button_done(j) PROVE PerformedIsStarted'
  BY <1>22 DEF button_done, ChangeState, Commit, historyVars
<1>23. ASSUME NEW j \in Job, button_cancelled(j) PROVE PerformedIsStarted'
  BY <1>23 DEF button_cancelled, ChangeState, Commit, historyVars
<1>24. ASSUME NEW j \in Job, requeue(j) PROVE PerformedIsStarted'
  BY <1>24 DEF requeue, ChangeState, Commit
<1>25. CASE UNCHANGED vars
  BY <1>25 DEF vars, dbVars, workerVars, runnerVars, historyVars, budgetVars
<1>26. QED
  BY <1>1, <1>2, <1>3, <1>4, <1>5, <1>6, <1>7, <1>8, <1>9, <1>10, <1>11, <1>12,
     <1>13, <1>14, <1>15, <1>16, <1>17, <1>18, <1>19, <1>20, <1>21, <1>22, <1>23, <1>24,
     <1>25
     DEF Next, RunnerStep, WorkerStep, Environment

(* Every step preserves the agreement of the runner with the rows. *)
LEMMA ViewStep == TypeOK /\ ActiveIsCounted /\ RunnerUpToDate /\ [Next]_vars => (ActiveIsCounted /\ RunnerUpToDate)'
<1> SUFFICES ASSUME TypeOK, ActiveIsCounted, RunnerUpToDate, [Next]_vars PROVE (ActiveIsCounted /\ RunnerUpToDate)'
  OBVIOUS
<1> USE ConstantsAssumption DEF TypeOK, ActiveIsCounted, RunnerUpToDate, ViewOf, States
<1>1. ASSUME NEW j \in Job, process_notifications(j) PROVE (ActiveIsCounted /\ RunnerUpToDate)'
  BY <1>1 DEF process_notifications, ViewOf, dbVars, workerVars, historyVars, budgetVars
<1>2. ASSUME NEW j \in Job, run_jobs(j) PROVE (ActiveIsCounted /\ RunnerUpToDate)'
  BY <1>2 DEF run_jobs, set_job_enqueued, async_http_get, Commit, historyVars, budgetVars
<1>3. CASE requeue_dead_jobs_select
  BY <1>3 DEF requeue_dead_jobs_select, DeadCandidates, workerVars, historyVars, budgetVars
<1>4. CASE requeue_dead_jobs_update
  BY <1>4 DEF requeue_dead_jobs_update, TooManyRetries, Released, Commit, historyVars, budgetVars
<1>5. CASE initialize_databases
  BY <1>5 DEF initialize_databases, ViewOf, Fault, Released, workerVars, historyVars
<1>6. ASSUME NEW j \in Job, Age(j) PROVE (ActiveIsCounted /\ RunnerUpToDate)'
  BY <1>6 DEF Age, workerVars, runnerVars, historyVars, budgetVars
<1>7. ASSUME NEW w \in Worker, NEW j \in Job, acquire_job(w, j) PROVE (ActiveIsCounted /\ RunnerUpToDate)'
  BY <1>7 DEF acquire_job, Commit, historyVars, budgetVars
<1>8. ASSUME NEW j \in Job, acquire_job_rejected(j) PROVE (ActiveIsCounted /\ RunnerUpToDate)'
  BY <1>8 DEF acquire_job_rejected, dbVars, workerVars, historyVars, budgetVars
<1>9. ASSUME NEW j \in Job, lose_request(j) PROVE (ActiveIsCounted /\ RunnerUpToDate)'
  BY <1>9 DEF lose_request, Fault, dbVars, workerVars, historyVars
<1>10. ASSUME NEW w \in Worker, lock(w) PROVE (ActiveIsCounted /\ RunnerUpToDate)'
  BY <1>10 DEF lock, Lockable, runnerVars, budgetVars
<1>11. ASSUME NEW w \in Worker, lock_failed(w) PROVE (ActiveIsCounted /\ RunnerUpToDate)'
  BY <1>11 DEF lock_failed, Lockable, Leave, dbVars, runnerVars, historyVars, budgetVars
<1>12. ASSUME NEW w \in Worker, perform_done(w) PROVE (ActiveIsCounted /\ RunnerUpToDate)'
  BY <1>12 DEF perform_done, Leave, Commit, Released, budgetVars
<1>13. ASSUME NEW w \in Worker, store_conflict(w) PROVE (ActiveIsCounted /\ RunnerUpToDate)'
  BY <1>13 DEF store_conflict, Raise, Released, runnerVars
<1>14. ASSUME NEW w \in Worker, perform_retryable(w) PROVE (ActiveIsCounted /\ RunnerUpToDate)'
  BY <1>14 DEF perform_retryable, Raise, Released, runnerVars
<1>15. ASSUME NEW w \in Worker, perform_ignored(w) PROVE (ActiveIsCounted /\ RunnerUpToDate)'
  BY <1>15 DEF perform_ignored, Raise, Released, runnerVars
<1>16. ASSUME NEW w \in Worker, perform_error(w) PROVE (ActiveIsCounted /\ RunnerUpToDate)'
  BY <1>16 DEF perform_error, Raise, Released, runnerVars
<1>17. ASSUME NEW w \in Worker, perform_sql_retry(w) PROVE (ActiveIsCounted /\ RunnerUpToDate)'
  BY <1>17 DEF perform_sql_retry, Fault, Raise, Released, runnerVars
<1>18. ASSUME NEW w \in Worker, perform_sql_error(w) PROVE (ActiveIsCounted /\ RunnerUpToDate)'
  BY <1>18 DEF perform_sql_error, Fault, Raise, Released, runnerVars
<1>19. ASSUME NEW w \in Worker, store_exception(w) PROVE (ActiveIsCounted /\ RunnerUpToDate)'
  BY <1>19 DEF store_exception, Commit, historyVars, budgetVars
<1>20. ASSUME NEW w \in Worker, rollback(w) PROVE (ActiveIsCounted /\ RunnerUpToDate)'
  BY <1>20 DEF rollback, Leave, Released, runnerVars, historyVars, budgetVars
<1>21. ASSUME NEW w \in Worker, crash(w) PROVE (ActiveIsCounted /\ RunnerUpToDate)'
  BY <1>21 DEF crash, Leave, Released, Fault, runnerVars, historyVars
<1>22. ASSUME NEW j \in Job, button_done(j) PROVE (ActiveIsCounted /\ RunnerUpToDate)'
  BY <1>22 DEF button_done, ChangeState, Commit, historyVars
<1>23. ASSUME NEW j \in Job, button_cancelled(j) PROVE (ActiveIsCounted /\ RunnerUpToDate)'
  BY <1>23 DEF button_cancelled, ChangeState, Commit, historyVars
<1>24. ASSUME NEW j \in Job, requeue(j) PROVE (ActiveIsCounted /\ RunnerUpToDate)'
  BY <1>24 DEF requeue, ChangeState, Commit
<1>25. CASE UNCHANGED vars
  BY <1>25 DEF vars, dbVars, workerVars, runnerVars, historyVars, budgetVars
<1>26. QED
  BY <1>1, <1>2, <1>3, <1>4, <1>5, <1>6, <1>7, <1>8, <1>9, <1>10, <1>11, <1>12,
     <1>13, <1>14, <1>15, <1>16, <1>17, <1>18, <1>19, <1>20, <1>21, <1>22, <1>23, <1>24,
     <1>25
     DEF Next, RunnerStep, WorkerStep, Environment

(* An SQL error that costs a performer its lock is recorded. *)
LEMMA SqlErrorRecorded ==
  ASSUME TypeOK, AbortRecorded, NEW w \in Worker, NEW where, NEW n,
         Raise(w, where, n, TRUE)
  PROVE  AbortRecorded'
<1> USE DEF Raise
<1>1. jobOf[w] \in Job
  BY ConstantsAssumption DEF TypeOK
<1>2. aborted' = [aborted EXCEPT ![jobOf[w]] = TRUE]
  OBVIOUS
<1>3. aborted'[jobOf[w]] = TRUE
  BY <1>1, <1>2 DEF TypeOK
<1>4. ASSUME NEW v \in Worker, pc'[v] \in {"retrying", "failing"}
      PROVE  aborted'[jobOf'[v]] \/ holder'[jobOf'[v]] = v
  <2>1. CASE v = w
    BY <1>3, <2>1
  <2>2. CASE v # w
    <3>1. pc[v] \in {"retrying", "failing"} /\ jobOf[v] \in Job
      BY <1>4, <2>2, ConstantsAssumption DEF TypeOK
    <3>2. CASE aborted[jobOf[v]]
      BY <1>2, <3>1, <3>2 DEF TypeOK
    <3>3. CASE holder[jobOf[v]] = v
      BY <2>2, <3>1, <3>3, ConstantsAssumption DEF TypeOK, Released
    <3>4. QED
      BY <3>1, <3>2, <3>3 DEF AbortRecorded
  <2>3. QED
    BY <2>1, <2>2
<1>5. QED
  BY <1>4 DEF AbortRecorded

(* Every step preserves the record of the lost locks. *)
LEMMA AbortStep == TypeOK /\ LocksHeld /\ AbortRecorded /\ [Next]_vars => AbortRecorded'
<1> SUFFICES ASSUME TypeOK, LocksHeld, AbortRecorded, [Next]_vars PROVE AbortRecorded'
  OBVIOUS
<1> USE ConstantsAssumption DEF TypeOK, LocksHeld, AbortRecorded
<1>1. ASSUME NEW j \in Job, process_notifications(j) PROVE AbortRecorded'
  BY <1>1 DEF process_notifications, ViewOf, dbVars, workerVars, historyVars, budgetVars
<1>2. ASSUME NEW j \in Job, run_jobs(j) PROVE AbortRecorded'
  BY <1>2 DEF run_jobs, set_job_enqueued, async_http_get, Commit, historyVars, budgetVars
<1>3. CASE requeue_dead_jobs_select
  BY <1>3 DEF requeue_dead_jobs_select, DeadCandidates, workerVars, historyVars, budgetVars
<1>4. CASE requeue_dead_jobs_update
  BY <1>4 DEF requeue_dead_jobs_update, TooManyRetries, Released, Commit, historyVars, budgetVars
<1>5. CASE initialize_databases
  BY <1>5 DEF initialize_databases, ViewOf, Fault, Released, workerVars, historyVars
<1>6. ASSUME NEW j \in Job, Age(j) PROVE AbortRecorded'
  BY <1>6 DEF Age, workerVars, runnerVars, historyVars, budgetVars
<1>7. ASSUME NEW w \in Worker, NEW j \in Job, acquire_job(w, j) PROVE AbortRecorded'
  BY <1>7 DEF acquire_job, Commit, historyVars, budgetVars
<1>8. ASSUME NEW j \in Job, acquire_job_rejected(j) PROVE AbortRecorded'
  BY <1>8 DEF acquire_job_rejected, dbVars, workerVars, historyVars, budgetVars
<1>9. ASSUME NEW j \in Job, lose_request(j) PROVE AbortRecorded'
  BY <1>9 DEF lose_request, Fault, dbVars, workerVars, historyVars
<1>10. ASSUME NEW w \in Worker, lock(w) PROVE AbortRecorded'
  BY <1>10 DEF lock, Lockable, runnerVars, budgetVars
<1>11. ASSUME NEW w \in Worker, lock_failed(w) PROVE AbortRecorded'
  BY <1>11 DEF lock_failed, Lockable, Leave, dbVars, runnerVars, historyVars, budgetVars
<1>12. ASSUME NEW w \in Worker, perform_done(w) PROVE AbortRecorded'
  BY <1>12 DEF perform_done, Leave, Commit, Released, budgetVars
<1>13. ASSUME NEW w \in Worker, store_conflict(w) PROVE AbortRecorded'
  <2>1. Raise(w, "retrying", tries[w] + 1, TRUE)
    BY <1>13 DEF store_conflict
  <2>2. QED
    BY <2>1, SqlErrorRecorded
<1>14. ASSUME NEW w \in Worker, perform_retryable(w) PROVE AbortRecorded'
  BY <1>14 DEF perform_retryable, Raise, Released, runnerVars
<1>15. ASSUME NEW w \in Worker, perform_ignored(w) PROVE AbortRecorded'
  BY <1>15 DEF perform_ignored, Raise, Released, runnerVars
<1>16. ASSUME NEW w \in Worker, perform_error(w) PROVE AbortRecorded'
  BY <1>16 DEF perform_error, Raise, Released, runnerVars
<1>17. ASSUME NEW w \in Worker, perform_sql_retry(w) PROVE AbortRecorded'
  <2>1. Raise(w, "retrying", tries[w] + 1, TRUE)
    BY <1>17 DEF perform_sql_retry
  <2>2. QED
    BY <2>1, SqlErrorRecorded
<1>18. ASSUME NEW w \in Worker, perform_sql_error(w) PROVE AbortRecorded'
  <2>1. Raise(w, "failing", tries[w] + 1, TRUE)
    BY <1>18 DEF perform_sql_error
  <2>2. QED
    BY <2>1, SqlErrorRecorded
<1>19. ASSUME NEW w \in Worker, store_exception(w) PROVE AbortRecorded'
  BY <1>19 DEF store_exception, Commit, historyVars, budgetVars
<1>20. ASSUME NEW w \in Worker, rollback(w) PROVE AbortRecorded'
  BY <1>20 DEF rollback, Leave, Released, runnerVars, historyVars, budgetVars
<1>21. ASSUME NEW w \in Worker, crash(w) PROVE AbortRecorded'
  BY <1>21 DEF crash, Leave, Released, Fault, runnerVars, historyVars
<1>22. ASSUME NEW j \in Job, button_done(j) PROVE AbortRecorded'
  BY <1>22 DEF button_done, ChangeState, Commit, historyVars
<1>23. ASSUME NEW j \in Job, button_cancelled(j) PROVE AbortRecorded'
  BY <1>23 DEF button_cancelled, ChangeState, Commit, historyVars
<1>24. ASSUME NEW j \in Job, requeue(j) PROVE AbortRecorded'
  BY <1>24 DEF requeue, ChangeState, Commit
<1>25. CASE UNCHANGED vars
  BY <1>25 DEF vars, dbVars, workerVars, runnerVars, historyVars, budgetVars
<1>26. QED
  BY <1>1, <1>2, <1>3, <1>4, <1>5, <1>6, <1>7, <1>8, <1>9, <1>10, <1>11, <1>12,
     <1>13, <1>14, <1>15, <1>16, <1>17, <1>18, <1>19, <1>20, <1>21, <1>22, <1>23, <1>24,
     <1>25
     DEF Next, RunnerStep, WorkerStep, Environment

(* Every step preserves that committed work is settled. *)
LEMMA CommittedStep == IInv /\ [Next]_vars => CommittedIsSettled'
<1> SUFFICES ASSUME IInv, [Next]_vars PROVE CommittedIsSettled'
  OBVIOUS
<1> USE ConstantsAssumption DEF IInv, TypeOK, LocksHeld, PerformedIsStarted, ActiveIsCounted, AbortRecorded, CommittedIsSettled, ViewOf
<1>1. ASSUME NEW j \in Job, process_notifications(j) PROVE CommittedIsSettled'
  BY <1>1 DEF process_notifications, ViewOf, dbVars, workerVars, historyVars, budgetVars
<1>2. ASSUME NEW j \in Job, run_jobs(j) PROVE CommittedIsSettled'
  BY <1>2 DEF run_jobs, set_job_enqueued, async_http_get, Commit, historyVars, budgetVars
<1>3. CASE requeue_dead_jobs_select
  BY <1>3 DEF requeue_dead_jobs_select, DeadCandidates, workerVars, historyVars, budgetVars
<1>4. CASE requeue_dead_jobs_update
  BY <1>4 DEF requeue_dead_jobs_update, TooManyRetries, Released, Commit, historyVars, budgetVars
<1>5. CASE initialize_databases
  BY <1>5 DEF initialize_databases, ViewOf, Fault, Released, workerVars, historyVars
<1>6. ASSUME NEW j \in Job, Age(j) PROVE CommittedIsSettled'
  BY <1>6 DEF Age, workerVars, runnerVars, historyVars, budgetVars
<1>7. ASSUME NEW w \in Worker, NEW j \in Job, acquire_job(w, j) PROVE CommittedIsSettled'
  BY <1>7 DEF acquire_job, Commit, historyVars, budgetVars
<1>8. ASSUME NEW j \in Job, acquire_job_rejected(j) PROVE CommittedIsSettled'
  BY <1>8 DEF acquire_job_rejected, dbVars, workerVars, historyVars, budgetVars
<1>9. ASSUME NEW j \in Job, lose_request(j) PROVE CommittedIsSettled'
  BY <1>9 DEF lose_request, Fault, dbVars, workerVars, historyVars
<1>10. ASSUME NEW w \in Worker, lock(w) PROVE CommittedIsSettled'
  BY <1>10 DEF lock, Lockable, runnerVars, budgetVars
<1>11. ASSUME NEW w \in Worker, lock_failed(w) PROVE CommittedIsSettled'
  BY <1>11 DEF lock_failed, Lockable, Leave, dbVars, runnerVars, historyVars, budgetVars
<1>12. ASSUME NEW w \in Worker, perform_done(w) PROVE CommittedIsSettled'
  <2> DEFINE J == jobOf[w]
  <2>1. /\ J \in Job
        /\ holder[J] = w
        /\ state[J] = "started"
        /\ view[J] = "running"
    BY <1>12 DEF perform_done
  <2>2. /\ effects' = [effects EXCEPT ![J] = @ + 1]
        /\ state' = [state EXCEPT ![J] = "done"]
        /\ aborted' = aborted /\ view' = view
        /\ jobOf' = [jobOf EXCEPT ![w] = NoOne]
        /\ pc' = [pc EXCEPT ![w] = "idle"]
    BY <1>12 DEF perform_done, Leave
  <2>3. ASSUME NEW j \in Job, effects'[j] > 0, ~aborted'[j]
        PROVE  /\ effects'[j] = 1
               /\ state'[j] = "done"
               /\ view'[j] # "pending"
               /\ \A v \in Worker : jobOf'[v] = j => pc'[v] \in {"acquired", "closing"}
    <3>1. CASE j # J
      BY <2>1, <2>2, <2>3, <3>1
    <3>2. CASE j = J
      <4>1. effects[J] = 0
        BY <2>1, <2>2, <2>3, <3>2
      <4>2. effects'[j] = 1 /\ state'[j] = "done" /\ view'[j] # "pending"
        BY <2>1, <2>2, <3>2, <4>1
      <4>3. ASSUME NEW v \in Worker, jobOf'[v] = j
            PROVE  pc'[v] \in {"acquired", "closing"}
        <5>1. v # w /\ jobOf[v] = J /\ pc'[v] = pc[v]
          BY <2>1, <2>2, <3>2, <4>3
        <5>2. pc[v] \notin {"performing", "retrying", "failing"}
          BY <2>1, <2>2, <2>3, <3>2, <5>1
        <5>3. QED
          BY <2>1, <5>1, <5>2 DEF Locations
      <4>4. QED
        BY <4>2, <4>3
    <3>3. QED
      BY <3>1, <3>2
  <2>4. QED
    BY <2>3
<1>13. ASSUME NEW w \in Worker, store_conflict(w) PROVE CommittedIsSettled'
  BY <1>13 DEF store_conflict, Raise, Released, runnerVars
<1>14. ASSUME NEW w \in Worker, perform_retryable(w) PROVE CommittedIsSettled'
  BY <1>14 DEF perform_retryable, Raise, Released, runnerVars
<1>15. ASSUME NEW w \in Worker, perform_ignored(w) PROVE CommittedIsSettled'
  BY <1>15 DEF perform_ignored, Raise, Released, runnerVars
<1>16. ASSUME NEW w \in Worker, perform_error(w) PROVE CommittedIsSettled'
  BY <1>16 DEF perform_error, Raise, Released, runnerVars
<1>17. ASSUME NEW w \in Worker, perform_sql_retry(w) PROVE CommittedIsSettled'
  BY <1>17 DEF perform_sql_retry, Fault, Raise, Released, runnerVars
<1>18. ASSUME NEW w \in Worker, perform_sql_error(w) PROVE CommittedIsSettled'
  BY <1>18 DEF perform_sql_error, Fault, Raise, Released, runnerVars
<1>19. ASSUME NEW w \in Worker, store_exception(w) PROVE CommittedIsSettled'
  BY <1>19 DEF store_exception, Commit, historyVars, budgetVars
<1>20. ASSUME NEW w \in Worker, rollback(w) PROVE CommittedIsSettled'
  BY <1>20 DEF rollback, Leave, Released, runnerVars, historyVars, budgetVars
<1>21. ASSUME NEW w \in Worker, crash(w) PROVE CommittedIsSettled'
  BY <1>21 DEF crash, Leave, Released, Fault, runnerVars, historyVars
<1>22. ASSUME NEW j \in Job, button_done(j) PROVE CommittedIsSettled'
  BY <1>22 DEF button_done, ChangeState, Commit, historyVars
<1>23. ASSUME NEW j \in Job, button_cancelled(j) PROVE CommittedIsSettled'
  BY <1>23 DEF button_cancelled, ChangeState, Commit, historyVars
<1>24. ASSUME NEW j \in Job, requeue(j) PROVE CommittedIsSettled'
  BY <1>24 DEF requeue, ChangeState, Commit
<1>25. CASE UNCHANGED vars
  BY <1>25 DEF vars, dbVars, workerVars, runnerVars, historyVars, budgetVars
<1>26. QED
  BY <1>1, <1>2, <1>3, <1>4, <1>5, <1>6, <1>7, <1>8, <1>9, <1>10, <1>11, <1>12,
     <1>13, <1>14, <1>15, <1>16, <1>17, <1>18, <1>19, <1>20, <1>21, <1>22, <1>23, <1>24,
     <1>25
     DEF Next, RunnerStep, WorkerStep, Environment

-----------------------------------------------------------------------------

(* The initial states satisfy the invariant. *)
LEMMA InitInvariant == Init => IInv
BY ConstantsAssumption
   DEF Init, IInv, TypeOK, LocksHeld, PerformedIsStarted, ActiveIsCounted, RunnerUpToDate,
       AbortRecorded, CommittedIsSettled, States, Views, Locations

(* The invariant is inductive. *)
LEMMA NextInvariant == IInv /\ [Next]_vars => IInv'
BY TypeStep, LocksStep, StartedStep, ViewStep, AbortStep, CommittedStep DEF IInv

(* Every reachable state satisfies it. *)
THEOREM Invariance == Spec => []IInv
BY InitInvariant, NextInvariant, PTL DEF Spec

(* The rows, the workers and the runner's memory keep their types. *)
THEOREM TypeCorrectness == Spec => []TypeOK
<1>1. IInv => TypeOK
  BY DEF IInv
<1>2. QED
  BY <1>1, Invariance, PTL

(* No lock is leaked, and no performer is without its lock. *)
THEOREM LocksAreHeld == Spec => []LocksHeld
<1>1. IInv => LocksHeld
  BY DEF IInv
<1>2. QED
  BY <1>1, Invariance, PTL

(* Two workers never perform the same job: each of them would hold the lock. *)
THEOREM MutuallyExclusive == Spec => []MutualExclusion
<1>1. IInv => MutualExclusion
  BY DEF IInv, LocksHeld, MutualExclusion, Performs
<1>2. QED
  BY <1>1, Invariance, PTL

(* A performer that can still commit works on a job that is started. *)
THEOREM PerformedJobsAreStarted == Spec => []PerformedIsStarted
<1>1. IInv => PerformedIsStarted
  BY DEF IInv
<1>2. QED
  BY <1>1, Invariance, PTL

(* The runner counts every enqueued or started job as running. *)
THEOREM ActiveJobsAreCounted == Spec => []ActiveIsCounted
<1>1. IInv => ActiveIsCounted
  BY DEF IInv
<1>2. QED
  BY <1>1, Invariance, PTL

(* The runner loses no notification. *)
THEOREM RunnerIsUpToDate == Spec => []RunnerUpToDate
<1>1. IInv => RunnerUpToDate
  BY DEF IInv
<1>2. QED
  BY <1>1, Invariance, PTL

(* The work of a job is committed at most once, unless an SQL error has taken *)
(* the lock from a performer.                                               *)
THEOREM CommittedAtMostOnce == Spec => []EffectsAtMostOnce
<1>1. IInv => EffectsAtMostOnce
  <2> SUFFICES ASSUME IInv, NEW j \in Job, ~aborted[j]
               PROVE  effects[j] <= 1
    BY DEF EffectsAtMostOnce
  <2>1. effects[j] \in Nat
    BY DEF IInv, TypeOK
  <2>2. effects[j] > 0 => effects[j] = 1
    BY DEF IInv, CommittedIsSettled
  <2>3. QED
    BY <2>1, <2>2
<1>2. QED
  BY <1>1, Invariance, PTL

-----------------------------------------------------------------------------
(* Retries are bounded. *)

(* A job without a row in queue_job_lock has never been acquired. *)
UnacquiredIsNew ==
  \A j \in Job : ~lockRow[j] =>
    /\ state[j] # "started"
    /\ retry[j] = 0
    /\ \A w \in Worker : jobOf[w] # j

(* A job that requeue_dead_jobs has selected without locking it is at its    *)
(* first try, which may have begun since.                                   *)
ScannedIsNew ==
  \A j \in scan : holder[j] # Runner /\ lockRow[j] =>
    /\ state[j] # "enqueued"
    /\ retry[j] <= 1
    /\ \A w \in Worker : jobOf[w] = j =>
         /\ tries[w] <= 1
         /\ pc[w] \in {"acquired", "performing"} => tries[w] = 0

(* A job that may be tried again is at most one beyond max_retries. *)
RowRetries ==
  \A j \in Job : ~aborted[j] =>
    /\ retry[j] <= MaxRetries + 2
    /\ state[j] \in {"pending", "enqueued", "started"} \/ view[j] = "pending" =>
         retry[j] <= MaxRetries + 1

(* So is the job of a worker, before its last failure. *)
WorkerTries ==
  \A w \in Worker : ~aborted[jobOf[w]] =>
    /\ pc[w] \in {"acquired", "performing", "retrying"} => tries[w] <= MaxRetries + 1
    /\ pc[w] = "failing" => tries[w] <= MaxRetries + 2

(* The worker performs the last try, or has failed it. *)
LastTry(w) == \/ pc[w] = "performing" /\ tries[w] = MaxRetries + 1
              \/ pc[w] = "failing" /\ tries[w] = MaxRetries + 2

(* Nobody may run a job again whose last try is going on. *)
LastIsLast ==
  \A w \in Worker : LastTry(w) /\ ~aborted[jobOf[w]] =>
    state[jobOf[w]] \notin {"pending", "enqueued"} /\ view[jobOf[w]] # "pending"

(* The inductive invariant, on top of IInv. *)
RetryInv == UnacquiredIsNew /\ ScannedIsNew /\ RowRetries /\ WorkerTries /\ LastIsLast

(* The channels take for pending only what is. *)
LEMMA OnlyPendingViewed == \A s \in States : ViewOf(s) = "pending" => s = "pending"
BY DEF States, ViewOf

(* Only acquire_job gives a job to a worker, and it makes the lock row. *)
LEMMA UnacquiredStep ==
  TypeOK /\ UnacquiredIsNew /\ [Next]_vars => UnacquiredIsNew'
<1> SUFFICES ASSUME TypeOK, UnacquiredIsNew, [Next]_vars PROVE UnacquiredIsNew'
  OBVIOUS
<1> USE ConstantsAssumption DEF TypeOK, UnacquiredIsNew
<1>1. ASSUME NEW j \in Job, process_notifications(j) PROVE UnacquiredIsNew'
  BY <1>1 DEF process_notifications, dbVars, workerVars, historyVars, budgetVars
<1>2. ASSUME NEW j \in Job, run_jobs(j) PROVE UnacquiredIsNew'
  BY <1>2 DEF run_jobs, set_job_enqueued, async_http_get, Commit, historyVars, budgetVars
<1>3. CASE requeue_dead_jobs_select
  BY <1>3 DEF requeue_dead_jobs_select, DeadCandidates, workerVars, historyVars, budgetVars
<1>4. CASE requeue_dead_jobs_update
  BY <1>4 DEF requeue_dead_jobs_update, TooManyRetries, Released, Commit, historyVars, budgetVars
<1>5. CASE initialize_databases
  BY <1>5 DEF initialize_databases, Fault, Released, workerVars, historyVars
<1>6. ASSUME NEW j \in Job, Age(j) PROVE UnacquiredIsNew'
  BY <1>6 DEF Age, workerVars, runnerVars, historyVars, budgetVars
<1>7. ASSUME NEW w \in Worker, NEW j \in Job, acquire_job(w, j) PROVE UnacquiredIsNew'
  BY <1>7 DEF acquire_job, Commit, historyVars, budgetVars
<1>8. ASSUME NEW j \in Job, acquire_job_rejected(j) PROVE UnacquiredIsNew'
  BY <1>8 DEF acquire_job_rejected, dbVars, workerVars, historyVars, budgetVars
<1>9. ASSUME NEW j \in Job, lose_request(j) PROVE UnacquiredIsNew'
  BY <1>9 DEF lose_request, Fault, dbVars, workerVars, historyVars
<1>10. ASSUME NEW w \in Worker, lock(w) PROVE UnacquiredIsNew'
  BY <1>10 DEF lock, Lockable, runnerVars, budgetVars
<1>11. ASSUME NEW w \in Worker, lock_failed(w) PROVE UnacquiredIsNew'
  BY <1>11 DEF lock_failed, Leave, dbVars, runnerVars, historyVars, budgetVars
<1>12. ASSUME NEW w \in Worker, perform_done(w) PROVE UnacquiredIsNew'
  BY <1>12 DEF perform_done, Leave, Released, Commit
<1>13. ASSUME NEW w \in Worker, store_conflict(w) PROVE UnacquiredIsNew'
  BY <1>13 DEF store_conflict, Raise, Released, runnerVars
<1>14. ASSUME NEW w \in Worker, perform_retryable(w) PROVE UnacquiredIsNew'
  BY <1>14 DEF perform_retryable, Raise, Released, runnerVars
<1>15. ASSUME NEW w \in Worker, perform_ignored(w) PROVE UnacquiredIsNew'
  BY <1>15 DEF perform_ignored, Raise, Released, runnerVars
<1>16. ASSUME NEW w \in Worker, perform_error(w) PROVE UnacquiredIsNew'
  BY <1>16 DEF perform_error, Raise, Released, runnerVars
<1>17. ASSUME NEW w \in Worker, perform_sql_retry(w) PROVE UnacquiredIsNew'
  BY <1>17 DEF perform_sql_retry, Fault, Raise, Released, runnerVars
<1>18. ASSUME NEW w \in Worker, perform_sql_error(w) PROVE UnacquiredIsNew'
  BY <1>18 DEF perform_sql_error, Fault, Raise, Released, runnerVars
<1>19. ASSUME NEW w \in Worker, store_exception(w) PROVE UnacquiredIsNew'
  BY <1>19 DEF store_exception, Commit, historyVars, budgetVars
<1>20. ASSUME NEW w \in Worker, rollback(w) PROVE UnacquiredIsNew'
  BY <1>20 DEF rollback, Leave, Released, runnerVars, historyVars, budgetVars
<1>21. ASSUME NEW w \in Worker, crash(w) PROVE UnacquiredIsNew'
  BY <1>21 DEF crash, Leave, Released, Fault, runnerVars, historyVars
<1>22. ASSUME NEW j \in Job, button_done(j) PROVE UnacquiredIsNew'
  BY <1>22 DEF button_done, ChangeState, Commit, historyVars
<1>23. ASSUME NEW j \in Job, button_cancelled(j) PROVE UnacquiredIsNew'
  BY <1>23 DEF button_cancelled, ChangeState, Commit, historyVars
<1>24. ASSUME NEW j \in Job, requeue(j) PROVE UnacquiredIsNew'
  BY <1>24 DEF requeue, ChangeState, Commit
<1>25. CASE UNCHANGED vars
  BY <1>25 DEF vars, dbVars, workerVars, runnerVars, historyVars, budgetVars
<1>26. QED
  BY <1>1, <1>2, <1>3, <1>4, <1>5, <1>6, <1>7, <1>8, <1>9, <1>10, <1>11, <1>12,
     <1>13, <1>14, <1>15, <1>16, <1>17, <1>18, <1>19, <1>20, <1>21, <1>22, <1>23, <1>24,
     <1>25
     DEF Next, RunnerStep, WorkerStep, Environment

(* While the runner scans, it runs no job: a selected job is acquired at most once. *)
LEMMA ScannedStep ==
  TypeOK /\ UnacquiredIsNew /\ ScannedIsNew /\ [Next]_vars => ScannedIsNew'
<1> SUFFICES ASSUME TypeOK, UnacquiredIsNew, ScannedIsNew, [Next]_vars PROVE ScannedIsNew'
  OBVIOUS
<1> USE ConstantsAssumption DEF TypeOK, UnacquiredIsNew, ScannedIsNew
<1>1. ASSUME NEW j \in Job, process_notifications(j) PROVE ScannedIsNew'
  BY <1>1 DEF process_notifications, dbVars, workerVars, historyVars, budgetVars
<1>2. ASSUME NEW j \in Job, run_jobs(j) PROVE ScannedIsNew'
  BY <1>2 DEF run_jobs, set_job_enqueued, async_http_get, Commit, historyVars, budgetVars
<1>3. CASE requeue_dead_jobs_select
  BY <1>3 DEF requeue_dead_jobs_select, DeadCandidates, workerVars, historyVars, budgetVars
<1>4. CASE requeue_dead_jobs_update
  BY <1>4 DEF requeue_dead_jobs_update, TooManyRetries, Released, Commit, historyVars, budgetVars
<1>5. CASE initialize_databases
  BY <1>5 DEF initialize_databases, Fault, Released, workerVars, historyVars
<1>6. ASSUME NEW j \in Job, Age(j) PROVE ScannedIsNew'
  BY <1>6 DEF Age, workerVars, runnerVars, historyVars, budgetVars
<1>7. ASSUME NEW w \in Worker, NEW j \in Job, acquire_job(w, j) PROVE ScannedIsNew'
  BY <1>7 DEF acquire_job, Commit, historyVars, budgetVars
<1>8. ASSUME NEW j \in Job, acquire_job_rejected(j) PROVE ScannedIsNew'
  BY <1>8 DEF acquire_job_rejected, dbVars, workerVars, historyVars, budgetVars
<1>9. ASSUME NEW j \in Job, lose_request(j) PROVE ScannedIsNew'
  BY <1>9 DEF lose_request, Fault, dbVars, workerVars, historyVars
<1>10. ASSUME NEW w \in Worker, lock(w) PROVE ScannedIsNew'
  BY <1>10 DEF lock, Lockable, runnerVars, budgetVars
<1>11. ASSUME NEW w \in Worker, lock_failed(w) PROVE ScannedIsNew'
  BY <1>11 DEF lock_failed, Leave, dbVars, runnerVars, historyVars, budgetVars
<1>12. ASSUME NEW w \in Worker, perform_done(w) PROVE ScannedIsNew'
  BY <1>12 DEF perform_done, Leave, Released, Commit
<1>13. ASSUME NEW w \in Worker, store_conflict(w) PROVE ScannedIsNew'
  BY <1>13 DEF store_conflict, Raise, Released, runnerVars
<1>14. ASSUME NEW w \in Worker, perform_retryable(w) PROVE ScannedIsNew'
  BY <1>14 DEF perform_retryable, Raise, Released, runnerVars
<1>15. ASSUME NEW w \in Worker, perform_ignored(w) PROVE ScannedIsNew'
  BY <1>15 DEF perform_ignored, Raise, Released, runnerVars
<1>16. ASSUME NEW w \in Worker, perform_error(w) PROVE ScannedIsNew'
  BY <1>16 DEF perform_error, Raise, Released, runnerVars
<1>17. ASSUME NEW w \in Worker, perform_sql_retry(w) PROVE ScannedIsNew'
  BY <1>17 DEF perform_sql_retry, Fault, Raise, Released, runnerVars
<1>18. ASSUME NEW w \in Worker, perform_sql_error(w) PROVE ScannedIsNew'
  BY <1>18 DEF perform_sql_error, Fault, Raise, Released, runnerVars
<1>19. ASSUME NEW w \in Worker, store_exception(w) PROVE ScannedIsNew'
  BY <1>19 DEF store_exception, Commit, historyVars, budgetVars
<1>20. ASSUME NEW w \in Worker, rollback(w) PROVE ScannedIsNew'
  BY <1>20 DEF rollback, Leave, Released, runnerVars, historyVars, budgetVars
<1>21. ASSUME NEW w \in Worker, crash(w) PROVE ScannedIsNew'
  BY <1>21 DEF crash, Leave, Released, Fault, runnerVars, historyVars
<1>22. ASSUME NEW j \in Job, button_done(j) PROVE ScannedIsNew'
  BY <1>22 DEF button_done, ChangeState, Commit, historyVars
<1>23. ASSUME NEW j \in Job, button_cancelled(j) PROVE ScannedIsNew'
  BY <1>23 DEF button_cancelled, ChangeState, Commit, historyVars
<1>24. ASSUME NEW j \in Job, requeue(j) PROVE ScannedIsNew'
  BY <1>24 DEF requeue, ChangeState, Commit
<1>25. CASE UNCHANGED vars
  BY <1>25 DEF vars, dbVars, workerVars, runnerVars, historyVars, budgetVars
<1>26. QED
  BY <1>1, <1>2, <1>3, <1>4, <1>5, <1>6, <1>7, <1>8, <1>9, <1>10, <1>11, <1>12,
     <1>13, <1>14, <1>15, <1>16, <1>17, <1>18, <1>19, <1>20, <1>21, <1>22, <1>23, <1>24,
     <1>25
     DEF Next, RunnerStep, WorkerStep, Environment

(* The retry column of a row grows with its last try. *)
LEMMA RowRetriesStep ==
  MaxRetries # 0 /\ IInv /\ RetryInv /\ [Next]_vars => RowRetries'
<1> SUFFICES ASSUME MaxRetries # 0, IInv, RetryInv, [Next]_vars PROVE RowRetries'
  OBVIOUS
<1> USE ConstantsAssumption DEF IInv, TypeOK, States, PerformedIsStarted, ActiveIsCounted, RetryInv, RowRetries, WorkerTries, LastIsLast, LastTry, ViewOf
<1>1. ASSUME NEW j \in Job, process_notifications(j) PROVE RowRetries'
  BY <1>1 DEF process_notifications, dbVars, workerVars, historyVars, budgetVars
<1>2. ASSUME NEW j \in Job, run_jobs(j) PROVE RowRetries'
  BY <1>2 DEF run_jobs, set_job_enqueued, async_http_get, Commit, historyVars, budgetVars
<1>3. CASE requeue_dead_jobs_select
  BY <1>3 DEF requeue_dead_jobs_select, DeadCandidates, workerVars, historyVars, budgetVars
<1>4. CASE requeue_dead_jobs_update
  <2> SUFFICES ASSUME NEW j \in Job, ~aborted'[j]
               PROVE  /\ retry'[j] <= MaxRetries + 2
                      /\ state'[j] \in {"pending", "enqueued", "started"} \/ view'[j] = "pending" =>
                           retry'[j] <= MaxRetries + 1
    BY DEF RowRetries
  <2>1. UNCHANGED <<view, aborted>>
    BY <1>4 DEF requeue_dead_jobs_update, historyVars
  <2>2. CASE UNCHANGED <<state[j], retry[j]>>
    BY <2>1, <2>2
  <2>3. CASE state[j] = "started" /\ retry'[j] = retry[j] + 1
             /\ state'[j] = IF TooManyRetries(j) THEN "failed" ELSE "pending"
    BY <2>1, <2>3 DEF TooManyRetries
  <2>4. CASE state[j] = "enqueued" /\ retry'[j] = retry[j]
    BY <2>1, <2>4
  <2>5. QED
    BY <1>4, <2>2, <2>3, <2>4 DEF requeue_dead_jobs_update
<1>5. CASE initialize_databases
  BY <1>5 DEF initialize_databases, Fault, Released, workerVars, historyVars
<1>6. ASSUME NEW j \in Job, Age(j) PROVE RowRetries'
  BY <1>6 DEF Age, workerVars, runnerVars, historyVars, budgetVars
<1>7. ASSUME NEW w \in Worker, NEW j \in Job, acquire_job(w, j) PROVE RowRetries'
  BY <1>7 DEF acquire_job, Commit, historyVars, budgetVars
<1>8. ASSUME NEW j \in Job, acquire_job_rejected(j) PROVE RowRetries'
  BY <1>8 DEF acquire_job_rejected, dbVars, workerVars, historyVars, budgetVars
<1>9. ASSUME NEW j \in Job, lose_request(j) PROVE RowRetries'
  BY <1>9 DEF lose_request, Fault, dbVars, workerVars, historyVars
<1>10. ASSUME NEW w \in Worker, lock(w) PROVE RowRetries'
  BY <1>10 DEF lock, Lockable, runnerVars, budgetVars
<1>11. ASSUME NEW w \in Worker, lock_failed(w) PROVE RowRetries'
  BY <1>11 DEF lock_failed, Leave, dbVars, runnerVars, historyVars, budgetVars
<1>12. ASSUME NEW w \in Worker, perform_done(w) PROVE RowRetries'
  BY <1>12 DEF perform_done, Leave, Released, Commit
<1>13. ASSUME NEW w \in Worker, store_conflict(w) PROVE RowRetries'
  BY <1>13 DEF store_conflict, Raise, Released, runnerVars
<1>14. ASSUME NEW w \in Worker, perform_retryable(w) PROVE RowRetries'
  BY <1>14 DEF perform_retryable, Raise, Released, runnerVars
<1>15. ASSUME NEW w \in Worker, perform_ignored(w) PROVE RowRetries'
  BY <1>15 DEF perform_ignored, Raise, Released, runnerVars
<1>16. ASSUME NEW w \in Worker, perform_error(w) PROVE RowRetries'
  BY <1>16 DEF perform_error, Raise, Released, runnerVars
<1>17. ASSUME NEW w \in Worker, perform_sql_retry(w) PROVE RowRetries'
  BY <1>17 DEF perform_sql_retry, Fault, Raise, Released, runnerVars
<1>18. ASSUME NEW w \in Worker, perform_sql_error(w) PROVE RowRetries'
  BY <1>18 DEF perform_sql_error, Fault, Raise, Released, runnerVars
<1>19. ASSUME NEW w \in Worker, store_exception(w) PROVE RowRetries'
  <2> SUFFICES ASSUME NEW j \in Job, ~aborted'[j]
               PROVE  /\ retry'[j] <= MaxRetries + 2
                      /\ state'[j] \in {"pending", "enqueued", "started"} \/ view'[j] = "pending" =>
                           retry'[j] <= MaxRetries + 1
    BY DEF RowRetries
  <2>1. UNCHANGED <<view, aborted>> /\ jobOf[w] \in Job /\ pc[w] \in {"retrying", "failing"}
    BY <1>19 DEF store_exception, historyVars
  <2>2. CASE j # jobOf[w]
    BY <1>19, <2>1, <2>2 DEF store_exception
  <2>3. CASE j = jobOf[w]
    <3>1. /\ state'[j] = IF pc[w] = "retrying" THEN "pending" ELSE "failed"
          /\ retry'[j] = tries[w]
      BY <1>19, <2>1, <2>3 DEF store_exception
    <3>2. CASE pc[w] = "retrying"
      BY <2>1, <2>3, <3>1, <3>2
    <3>3. CASE pc[w] = "failing"
      <4>1. tries[w] <= MaxRetries + 2 /\ tries[w] \in Nat
        BY <2>1, <2>3, <3>3
      <4>2. tries[w] = MaxRetries + 2 => view[j] # "pending"
        BY <2>1, <2>3, <3>3
      <4>3. QED
        BY <2>1, <3>1, <3>3, <4>1, <4>2
    <3>4. QED
      BY <2>1, <3>2, <3>3
  <2>4. QED
    BY <2>2, <2>3
<1>20. ASSUME NEW w \in Worker, rollback(w) PROVE RowRetries'
  BY <1>20 DEF rollback, Leave, Released, runnerVars, historyVars, budgetVars
<1>21. ASSUME NEW w \in Worker, crash(w) PROVE RowRetries'
  BY <1>21 DEF crash, Leave, Released, Fault, runnerVars, historyVars
<1>22. ASSUME NEW j \in Job, button_done(j) PROVE RowRetries'
  BY <1>22 DEF button_done, ChangeState, Commit, historyVars
<1>23. ASSUME NEW j \in Job, button_cancelled(j) PROVE RowRetries'
  BY <1>23 DEF button_cancelled, ChangeState, Commit, historyVars
<1>24. ASSUME NEW j \in Job, requeue(j) PROVE RowRetries'
  BY <1>24 DEF requeue, ChangeState, Commit
<1>25. CASE UNCHANGED vars
  BY <1>25 DEF vars, dbVars, workerVars, runnerVars, historyVars, budgetVars
<1>26. QED
  BY <1>1, <1>2, <1>3, <1>4, <1>5, <1>6, <1>7, <1>8, <1>9, <1>10, <1>11, <1>12,
     <1>13, <1>14, <1>15, <1>16, <1>17, <1>18, <1>19, <1>20, <1>21, <1>22, <1>23, <1>24,
     <1>25
     DEF Next, RunnerStep, WorkerStep, Environment

(* A worker that starts a try has read a row that may be tried. *)
LEMMA WorkerTriesStep ==
  MaxRetries # 0 /\ IInv /\ RetryInv /\ [Next]_vars => WorkerTries'
<1> SUFFICES ASSUME MaxRetries # 0, IInv, RetryInv, [Next]_vars PROVE WorkerTries'
  OBVIOUS
<1> USE ConstantsAssumption DEF IInv, TypeOK, RetryInv, RowRetries, WorkerTries
<1>1. ASSUME NEW j \in Job, process_notifications(j) PROVE WorkerTries'
  BY <1>1 DEF process_notifications, dbVars, workerVars, historyVars, budgetVars
<1>2. ASSUME NEW j \in Job, run_jobs(j) PROVE WorkerTries'
  BY <1>2 DEF run_jobs, set_job_enqueued, async_http_get, Commit, historyVars, budgetVars
<1>3. CASE requeue_dead_jobs_select
  BY <1>3 DEF requeue_dead_jobs_select, DeadCandidates, workerVars, historyVars, budgetVars
<1>4. CASE requeue_dead_jobs_update
  BY <1>4 DEF requeue_dead_jobs_update, TooManyRetries, Released, Commit, historyVars, budgetVars
<1>5. CASE initialize_databases
  BY <1>5 DEF initialize_databases, Fault, Released, workerVars, historyVars
<1>6. ASSUME NEW j \in Job, Age(j) PROVE WorkerTries'
  BY <1>6 DEF Age, workerVars, runnerVars, historyVars, budgetVars
<1>7. ASSUME NEW w \in Worker, NEW j \in Job, acquire_job(w, j) PROVE WorkerTries'
  BY <1>7 DEF acquire_job, Commit, historyVars, budgetVars
<1>8. ASSUME NEW j \in Job, acquire_job_rejected(j) PROVE WorkerTries'
  BY <1>8 DEF acquire_job_rejected, dbVars, workerVars, historyVars, budgetVars
<1>9. ASSUME NEW j \in Job, lose_request(j) PROVE WorkerTries'
  BY <1>9 DEF lose_request, Fault, dbVars, workerVars, historyVars
<1>10. ASSUME NEW w \in Worker, lock(w) PROVE WorkerTries'
  BY <1>10 DEF lock, Lockable, runnerVars, budgetVars
<1>11. ASSUME NEW w \in Worker, lock_failed(w) PROVE WorkerTries'
  BY <1>11 DEF lock_failed, Leave, dbVars, runnerVars, historyVars, budgetVars
<1>12. ASSUME NEW w \in Worker, perform_done(w) PROVE WorkerTries'
  BY <1>12 DEF perform_done, Leave, Released, Commit
<1>13. ASSUME NEW w \in Worker, store_conflict(w) PROVE WorkerTries'
  BY <1>13 DEF store_conflict, Raise, Released, runnerVars
<1>14. ASSUME NEW w \in Worker, perform_retryable(w) PROVE WorkerTries'
  BY <1>14 DEF perform_retryable, Raise, Released, runnerVars
<1>15. ASSUME NEW w \in Worker, perform_ignored(w) PROVE WorkerTries'
  BY <1>15 DEF perform_ignored, Raise, Released, runnerVars
<1>16. ASSUME NEW w \in Worker, perform_error(w) PROVE WorkerTries'
  BY <1>16 DEF perform_error, Raise, Released, runnerVars
<1>17. ASSUME NEW w \in Worker, perform_sql_retry(w) PROVE WorkerTries'
  BY <1>17 DEF perform_sql_retry, Fault, Raise, Released, runnerVars
<1>18. ASSUME NEW w \in Worker, perform_sql_error(w) PROVE WorkerTries'
  BY <1>18 DEF perform_sql_error, Fault, Raise, Released, runnerVars
<1>19. ASSUME NEW w \in Worker, store_exception(w) PROVE WorkerTries'
  BY <1>19 DEF store_exception, Commit, historyVars, budgetVars
<1>20. ASSUME NEW w \in Worker, rollback(w) PROVE WorkerTries'
  BY <1>20 DEF rollback, Leave, Released, runnerVars, historyVars, budgetVars
<1>21. ASSUME NEW w \in Worker, crash(w) PROVE WorkerTries'
  BY <1>21 DEF crash, Leave, Released, Fault, runnerVars, historyVars
<1>22. ASSUME NEW j \in Job, button_done(j) PROVE WorkerTries'
  BY <1>22 DEF button_done, ChangeState, Commit, historyVars
<1>23. ASSUME NEW j \in Job, button_cancelled(j) PROVE WorkerTries'
  BY <1>23 DEF button_cancelled, ChangeState, Commit, historyVars
<1>24. ASSUME NEW j \in Job, requeue(j) PROVE WorkerTries'
  BY <1>24 DEF requeue, ChangeState, Commit
<1>25. CASE UNCHANGED vars
  BY <1>25 DEF vars, dbVars, workerVars, runnerVars, historyVars, budgetVars
<1>26. QED
  BY <1>1, <1>2, <1>3, <1>4, <1>5, <1>6, <1>7, <1>8, <1>9, <1>10, <1>11, <1>12,
     <1>13, <1>14, <1>15, <1>16, <1>17, <1>18, <1>19, <1>20, <1>21, <1>22, <1>23, <1>24,
     <1>25
     DEF Next, RunnerStep, WorkerStep, Environment

(* The lock keeps the others away from a job whose last try goes on. *)
LEMMA LastStep ==
  MaxRetries # 0 /\ IInv /\ RetryInv /\ [Next]_vars => LastIsLast'
<1> SUFFICES ASSUME MaxRetries # 0, IInv, RetryInv, [Next]_vars PROVE LastIsLast'
  OBVIOUS
<1> USE ConstantsAssumption DEF IInv, TypeOK, LocksHeld, AbortRecorded, ActiveIsCounted, RetryInv, UnacquiredIsNew, ScannedIsNew, WorkerTries, LastIsLast, LastTry
<1>1. ASSUME NEW j \in Job, process_notifications(j) PROVE LastIsLast'
  BY <1>1, OnlyPendingViewed DEF process_notifications, dbVars, workerVars, historyVars, budgetVars
<1>2. ASSUME NEW j \in Job, run_jobs(j) PROVE LastIsLast'
  BY <1>2 DEF run_jobs, set_job_enqueued, async_http_get, Commit, historyVars, budgetVars
<1>3. CASE requeue_dead_jobs_select
  BY <1>3 DEF requeue_dead_jobs_select, DeadCandidates, workerVars, historyVars, budgetVars
<1>4. CASE requeue_dead_jobs_update
  BY <1>4 DEF requeue_dead_jobs_update, TooManyRetries, Released, Commit, historyVars, budgetVars
<1>5. CASE initialize_databases
  BY <1>5, OnlyPendingViewed DEF initialize_databases, Fault, Released, workerVars, historyVars
<1>6. ASSUME NEW j \in Job, Age(j) PROVE LastIsLast'
  BY <1>6 DEF Age, workerVars, runnerVars, historyVars, budgetVars
<1>7. ASSUME NEW w \in Worker, NEW j \in Job, acquire_job(w, j) PROVE LastIsLast'
  BY <1>7 DEF acquire_job, Commit, historyVars, budgetVars
<1>8. ASSUME NEW j \in Job, acquire_job_rejected(j) PROVE LastIsLast'
  BY <1>8 DEF acquire_job_rejected, dbVars, workerVars, historyVars, budgetVars
<1>9. ASSUME NEW j \in Job, lose_request(j) PROVE LastIsLast'
  BY <1>9 DEF lose_request, Fault, dbVars, workerVars, historyVars
<1>10. ASSUME NEW w \in Worker, lock(w) PROVE LastIsLast'
  BY <1>10 DEF lock, Lockable, runnerVars, budgetVars
<1>11. ASSUME NEW w \in Worker, lock_failed(w) PROVE LastIsLast'
  BY <1>11 DEF lock_failed, Leave, dbVars, runnerVars, historyVars, budgetVars
<1>12. ASSUME NEW w \in Worker, perform_done(w) PROVE LastIsLast'
  BY <1>12 DEF perform_done, Leave, Released, Commit
<1>13. ASSUME NEW w \in Worker, store_conflict(w) PROVE LastIsLast'
  BY <1>13 DEF store_conflict, Raise, Released, runnerVars
<1>14. ASSUME NEW w \in Worker, perform_retryable(w) PROVE LastIsLast'
  BY <1>14 DEF perform_retryable, Raise, Released, runnerVars
<1>15. ASSUME NEW w \in Worker, perform_ignored(w) PROVE LastIsLast'
  BY <1>15 DEF perform_ignored, Raise, Released, runnerVars
<1>16. ASSUME NEW w \in Worker, perform_error(w) PROVE LastIsLast'
  BY <1>16 DEF perform_error, Raise, Released, runnerVars
<1>17. ASSUME NEW w \in Worker, perform_sql_retry(w) PROVE LastIsLast'
  BY <1>17 DEF perform_sql_retry, Fault, Raise, Released, runnerVars
<1>18. ASSUME NEW w \in Worker, perform_sql_error(w) PROVE LastIsLast'
  BY <1>18 DEF perform_sql_error, Fault, Raise, Released, runnerVars
<1>19. ASSUME NEW w \in Worker, store_exception(w) PROVE LastIsLast'
  BY <1>19 DEF store_exception, Commit, historyVars, budgetVars
<1>20. ASSUME NEW w \in Worker, rollback(w) PROVE LastIsLast'
  BY <1>20 DEF rollback, Leave, Released, runnerVars, historyVars, budgetVars
<1>21. ASSUME NEW w \in Worker, crash(w) PROVE LastIsLast'
  BY <1>21 DEF crash, Leave, Released, Fault, runnerVars, historyVars
<1>22. ASSUME NEW j \in Job, button_done(j) PROVE LastIsLast'
  BY <1>22 DEF button_done, ChangeState, Commit, historyVars
<1>23. ASSUME NEW j \in Job, button_cancelled(j) PROVE LastIsLast'
  BY <1>23 DEF button_cancelled, ChangeState, Commit, historyVars
<1>24. ASSUME NEW j \in Job, requeue(j) PROVE LastIsLast'
  BY <1>24 DEF requeue, ChangeState, Commit
<1>25. CASE UNCHANGED vars
  BY <1>25 DEF vars, dbVars, workerVars, runnerVars, historyVars, budgetVars
<1>26. QED
  BY <1>1, <1>2, <1>3, <1>4, <1>5, <1>6, <1>7, <1>8, <1>9, <1>10, <1>11, <1>12,
     <1>13, <1>14, <1>15, <1>16, <1>17, <1>18, <1>19, <1>20, <1>21, <1>22, <1>23, <1>24,
     <1>25
     DEF Next, RunnerStep, WorkerStep, Environment

(* Every reachable state satisfies the invariant. *)
LEMMA RetryInvariance == ASSUME MaxRetries # 0 PROVE Spec => []RetryInv
<1>1. Init => RetryInv
  BY ConstantsAssumption
     DEF Init, RetryInv, UnacquiredIsNew, ScannedIsNew, RowRetries, WorkerTries, LastIsLast, LastTry
<1>2. IInv /\ RetryInv /\ [Next]_vars => RetryInv'
  BY UnacquiredStep, ScannedStep, RowRetriesStep, WorkerTriesStep, LastStep DEF IInv, RetryInv
<1>3. QED
  BY <1>1, <1>2, Invariance, PTL DEF Spec

(* A job is not retried for ever: the retry column exceeds max_retries by at *)
(* most two, and by two only when the job is not tried again.               *)
THEOREM RetriesAreBounded == Spec => []RetryBounded
<1>1. CASE MaxRetries = 0
  <2>1. RetryBounded
    BY <1>1 DEF RetryBounded
  <2>2. QED
    BY <2>1, PTL
<1>2. CASE MaxRetries # 0
  <2>1. TypeOK /\ RetryInv => RetryBounded
    <3> SUFFICES ASSUME TypeOK, RowRetries, NEW j \in Job, ~aborted[j]
                 PROVE  \/ retry[j] <= MaxRetries + 1
                        \/ retry[j] = MaxRetries + 2 /\ state[j] \notin {"pending", "enqueued"}
      BY DEF RetryInv, RetryBounded
    <3>1. retry[j] \in Nat /\ MaxRetries \in Nat /\ retry[j] <= MaxRetries + 2
      BY ConstantsAssumption DEF TypeOK, RowRetries
    <3>2. state[j] \in {"pending", "enqueued"} => retry[j] <= MaxRetries + 1
      BY DEF RowRetries
    <3>3. QED
      BY <3>1, <3>2
  <2>2. QED
    BY <1>2, <2>1, RetryInvariance, TypeCorrectness, PTL
<1>3. QED
  BY <1>1, <1>2

-----------------------------------------------------------------------------
(* JobExecution implements ExclusiveExecution. *)

Performers == [j \in Job |-> {w \in Worker : Performs(w, j)}]

(* A step that moves no worker into or out of its method leaves them alone. *)
LEMMA PerformersUnchanged ==
  ASSUME \A v \in Worker : /\ pc'[v] = "performing" <=> pc[v] = "performing"
                           /\ pc[v] = "performing" => jobOf'[v] = jobOf[v]
  PROVE  Performers' = Performers
BY DEF Performers, Performs

(* A worker that leaves its method was the only performer of its job. *)
LEMMA PerformerLeaves ==
  ASSUME IInv, NEW w \in Worker, pc[w] = "performing", pc'[w] # "performing",
         \A v \in Worker \ {w} : pc'[v] = pc[v] /\ jobOf'[v] = jobOf[v]
  PROVE  /\ jobOf[w] \in Job
         /\ Performers[jobOf[w]] = {w}
         /\ Performers' = [Performers EXCEPT ![jobOf[w]] = {}]
<1> DEFINE J == jobOf[w]
<1>1. J \in Job
  BY ConstantsAssumption DEF IInv, TypeOK
<1>2. \A v \in Worker : Performs(v, J) => v = w
  BY <1>1 DEF IInv, LocksHeld, Performs
<1>3. Performers[J] = {w}
  BY <1>1, <1>2 DEF Performers, Performs
<1>4. \A j \in Job \ {J} : Performers'[j] = Performers[j]
  BY DEF Performers, Performs
<1>5. Performers'[J] = {}
  BY <1>1, <1>2 DEF Performers, Performs
<1>6. Performers' = [j \in Job |-> Performers'[j]] /\ Performers = [j \in Job |-> Performers[j]]
  BY DEF Performers
<1>7. Performers' = [Performers EXCEPT ![J] = {}]
  BY <1>4, <1>5, <1>6
<1>8. QED
  BY <1>1, <1>3, <1>7

(* An exception in the method abandons the execution. *)
LEMMA RaiseAbandons ==
  ASSUME IInv, NEW w \in Worker, NEW where \in {"retrying", "failing"}, NEW n, NEW e,
         Raise(w, where, n, e)
  PROVE  \E j \in Job : Exclusive!Abandon(w, j)
<1>1. /\ pc[w] = "performing" /\ pc'[w] # "performing"
      /\ \A v \in Worker \ {w} : pc'[v] = pc[v] /\ jobOf'[v] = jobOf[v]
      /\ effects' = effects
  BY DEF Raise, IInv, TypeOK
<1>2. QED
  BY <1>1, PerformerLeaves DEF Exclusive!Abandon, Performers

(* A step that touches neither the performers nor the histories. *)
LEMMA StutterStep ==
  ASSUME effects' = effects,
         \A v \in Worker : /\ pc'[v] = "performing" <=> pc[v] = "performing"
                           /\ pc[v] = "performing" => jobOf'[v] = jobOf[v]
  PROVE  UNCHANGED Exclusive!exclusiveVars
BY PerformersUnchanged DEF Exclusive!exclusiveVars, Performers

LEMMA ExclusiveStep ==
  IInv /\ [Next]_vars => [Exclusive!Next]_(Exclusive!exclusiveVars)
<1> SUFFICES ASSUME IInv, [Next]_vars
             PROVE  Exclusive!Next \/ UNCHANGED Exclusive!exclusiveVars
  OBVIOUS
<1> DEFINE Stutter == UNCHANGED Exclusive!exclusiveVars
           Ok == Exclusive!Next \/ Stutter
<1> HIDE DEF Stutter, Ok
<1>0. ASSUME NEW w \in Worker, \E j \in Job : Exclusive!Abandon(w, j) PROVE Ok
  BY <1>0 DEF Ok, Exclusive!Next
<1>1. CASE RunnerStep
  <2>1. UNCHANGED <<pc, jobOf, effects>>
    BY <1>1 DEF RunnerStep, process_notifications, run_jobs, requeue_dead_jobs_select,
                requeue_dead_jobs_update, initialize_databases, workerVars, historyVars
  <2>2. QED
    BY <2>1, StutterStep DEF Ok, Stutter
<1>2. ASSUME NEW w \in Worker, WorkerStep(w) PROVE Ok
  <2>1. ASSUME NEW j \in Job, acquire_job(w, j) PROVE Ok
    BY <2>1, StutterStep DEF acquire_job, historyVars, IInv, TypeOK, Ok, Stutter
  <2>2. CASE lock(w)
    <3> DEFINE J == jobOf[w]
    <3>1. /\ J \in Job /\ holder[J] = NoOne /\ pc[w] = "acquired"
          /\ pc' = [pc EXCEPT ![w] = "performing"]
          /\ jobOf' = jobOf /\ effects' = effects
      BY <2>2, ConstantsAssumption DEF lock, Lockable, IInv, TypeOK
    <3>2. \A v \in Worker : ~Performs(v, J)
      BY <3>1, ConstantsAssumption DEF Performs, IInv, LocksHeld
    <3>3. Performers[J] = {} /\ Performers'[J] = {w}
      BY <3>1, <3>2 DEF Performers, Performs, IInv, TypeOK
    <3>4. \A j \in Job \ {J} : Performers'[j] = Performers[j]
      BY <3>1 DEF Performers, Performs, IInv, TypeOK
    <3>5. Performers' = [Performers EXCEPT ![J] = {w}]
      BY <3>3, <3>4 DEF Performers
    <3>6. Exclusive!Begin(w, J)
      BY <3>1, <3>3, <3>5 DEF Exclusive!Begin, Performers
    <3>7. QED
      BY <3>1, <3>6 DEF Ok, Exclusive!Next
  <2>3. CASE lock_failed(w)
    BY <2>3, StutterStep DEF lock_failed, Lockable, Leave, historyVars, IInv, TypeOK, Ok, Stutter
  <2>4. CASE perform_done(w)
    <3> DEFINE J == jobOf[w]
    <3>1. /\ pc[w] = "performing" /\ pc'[w] # "performing"
          /\ \A v \in Worker \ {w} : pc'[v] = pc[v] /\ jobOf'[v] = jobOf[v]
          /\ effects' = [effects EXCEPT ![J] = @ + 1]
      BY <2>4 DEF perform_done, Leave, IInv, TypeOK
    <3>2. J \in Job /\ Exclusive!Complete(w, J)
      BY <3>1, PerformerLeaves DEF Exclusive!Complete, Performers
    <3>3. QED
      BY <3>2 DEF Ok, Exclusive!Next
  <2>5. CASE store_conflict(w)
    BY <2>5, <1>0, RaiseAbandons DEF store_conflict
  <2>6. CASE perform_retryable(w)
    BY <2>6, <1>0, RaiseAbandons DEF perform_retryable
  <2>7. CASE perform_ignored(w)
    BY <2>7, <1>0, RaiseAbandons DEF perform_ignored
  <2>8. CASE perform_error(w)
    BY <2>8, <1>0, RaiseAbandons DEF perform_error
  <2>9. CASE perform_sql_retry(w)
    BY <2>9, <1>0, RaiseAbandons DEF perform_sql_retry
  <2>10. CASE perform_sql_error(w)
    BY <2>10, <1>0, RaiseAbandons DEF perform_sql_error
  <2>11. CASE store_exception(w)
    BY <2>11, StutterStep DEF store_exception, historyVars, IInv, TypeOK, Ok, Stutter
  <2>12. CASE rollback(w)
    BY <2>12, StutterStep DEF rollback, Leave, historyVars, IInv, TypeOK, Ok, Stutter
  <2>13. CASE crash(w)
    <3>1. /\ pc'[w] # "performing"
          /\ \A v \in Worker \ {w} : pc'[v] = pc[v] /\ jobOf'[v] = jobOf[v]
          /\ effects' = effects
      BY <2>13 DEF crash, Leave, historyVars, IInv, TypeOK
    <3>2. CASE pc[w] = "performing"
      <4>1. \E j \in Job : Exclusive!Abandon(w, j)
        BY <3>1, <3>2, PerformerLeaves DEF Exclusive!Abandon, Performers
      <4>2. QED
        BY <4>1, <1>0
    <3>3. CASE pc[w] # "performing"
      BY <3>1, <3>3, StutterStep DEF Ok, Stutter
    <3>4. QED
      BY <3>2, <3>3
  <2>14. QED
    BY <1>2, <2>1, <2>2, <2>3, <2>4, <2>5, <2>6, <2>7, <2>8, <2>9, <2>10, <2>11, <2>12,
       <2>13 DEF WorkerStep
<1>3. CASE Environment
  <2>1. PICK j \in Job : \/ Age(j) \/ acquire_job_rejected(j) \/ lose_request(j)
                         \/ button_done(j) \/ button_cancelled(j)
                         \/ requeue(j)
    BY <1>3 DEF Environment
  <2>2. CASE UNCHANGED <<pc, jobOf, effects>>
    BY <2>2, StutterStep DEF Ok, Stutter
  <2>3. CASE requeue(j)
    <3>1. pc' = pc /\ jobOf' = jobOf /\ effects' = [effects EXCEPT ![j] = 0]
      BY <2>3 DEF requeue, ChangeState
    <3>2. Performers' = Performers
      BY <3>1, PerformersUnchanged
    <3>3. Exclusive!Reset(j)
      BY <3>1, <3>2 DEF Exclusive!Reset, Performers
    <3>4. QED
      BY <3>3 DEF Ok, Exclusive!Next
  <2>4. requeue(j) \/ UNCHANGED <<pc, jobOf, effects>>
    BY <2>1 DEF Age, acquire_job_rejected, lose_request, button_done, button_cancelled,
                ChangeState, workerVars, historyVars
  <2>5. QED
    BY <2>2, <2>3, <2>4
<1>4. CASE UNCHANGED vars
  <2>1. UNCHANGED <<pc, jobOf, effects>>
    BY <1>4 DEF vars, workerVars, historyVars
  <2>2. QED
    BY <2>1, StutterStep DEF Ok, Stutter
<1>5. QED
  BY <1>1, <1>2, <1>3, <1>4 DEF Next, Ok, Stutter

(* The protocol of locks and snapshots implements exclusive execution: every *)
(* step maps to a step of ExclusiveExecution or changes nothing there.       *)
THEOREM ImplementsExclusiveExecution == Spec => ExclusiveSpec
<1>1. Init => Exclusive!Init
  <2> SUFFICES ASSUME Init PROVE Exclusive!Init
    OBVIOUS
  <2>1. \A j \in Job, w \in Worker : ~Performs(w, j)
    BY DEF Init, Performs
  <2>2. QED
    BY <2>1 DEF Init, Exclusive!Init
<1>2. QED
  BY <1>1, ExclusiveStep, Invariance, PTL DEF Spec, ExclusiveSpec, Exclusive!Spec

=============================================================================
