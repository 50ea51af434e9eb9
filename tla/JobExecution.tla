---------------------------- MODULE JobExecution ----------------------------
(***************************************************************************)
(* The life of independent jobs of queue_job, from the row in queue_job to *)
(* the commit of its result: the job runner that enqueues it and asks Odoo *)
(* over HTTP to run it, the HTTP workers that acquire, lock and perform it,*)
(* the requeuing of dead jobs, and the buttons of the user.                *)
(*                                                                         *)
(* Every action is one committed transaction, or one change of a process's *)
(* memory.  Odoo's transactions are REPEATABLE READ: a transaction that    *)
(* updates a row committed by somebody else after its snapshot fails, which*)
(* "fresh" records for the transaction in which a worker performs.         *)
(***************************************************************************)
EXTENDS Naturals

CONSTANTS
  Job,          \* the rows of queue_job
  Worker,       \* the HTTP workers of Odoo
  MaxRetries,   \* max_retries of every job, 0 for infinite
  Outcomes,     \* how the method of a job may end, a subset of AllOutcomes
  MaxRequests,  \* bound: requests in flight for a job
  MaxFaults,    \* bound: crashes, restarts, lost requests and SQL errors
  MaxEdits,     \* bound: buttons pressed by users
  MaxAttempts,  \* bound: times a job is performed
  NoOne,        \* nobody holds the lock
  Runner        \* the connection of the job runner

AllOutcomes == {"ok", "retryable", "ignored", "error", "sql_retry", "sql_error"}

ASSUME ConstantsAssumption ==
  /\ MaxRetries \in Nat
  /\ MaxRequests \in Nat
  /\ MaxFaults \in Nat
  /\ MaxEdits \in Nat
  /\ MaxAttempts \in Nat
  /\ Outcomes \subseteq AllOutcomes
  /\ NoOne \notin Worker
  /\ Runner \notin Worker
  /\ Runner # NoOne
  /\ NoOne \notin Job

States == {"pending", "enqueued", "started", "done", "cancelled", "failed"}
Views == {"none", "pending", "running", "failed"}
Locations == {"idle", "acquired", "performing", "retrying", "failing", "closing"}

VARIABLES
  state,      \* queue_job.state
  retry,      \* queue_job.retry
  aged,       \* queue_job.date_enqueued is more than 10 seconds old
  lockRow,    \* the job has a row in queue_job_lock
  holder,     \* who holds the row lock on that row
  pc,         \* where a worker is in RunJobController.runjob
  jobOf,      \* the Job object of that worker, NoOne when idle
  tries,      \* the retry attribute of that object
  fresh,      \* nobody has committed to the job's row since its snapshot
  view,       \* the queue of the channel manager in which the runner has the job
  notified,   \* a NOTIFY for the job waits in the runner's connection
  http,       \* requests to run the job that are in flight
  scan,       \* the rows a running requeue_dead_jobs has selected
  attempts,   \* history: times the job was performed since it was last reset
  effects,    \* history: times its work was committed since then
  aborted,    \* history: a performer lost its lock to an SQL error since then
  faults,     \* bounded by MaxFaults
  edits       \* bounded by MaxEdits

dbVars == <<state, retry, aged, lockRow, holder>>
workerVars == <<pc, jobOf, tries, fresh>>
runnerVars == <<view, notified, http, scan>>
historyVars == <<attempts, effects, aborted>>
budgetVars == <<faults, edits>>
vars == <<dbVars, workerVars, runnerVars, historyVars, budgetVars>>

-----------------------------------------------------------------------------
(* Helpers.  A definition named ..._mutant is a plausible bug of the one     *)
(* after it: PROJECT.json names the property that would reveal it.           *)

ViewOf_mutant(s) ==  \* a started job no longer counts
  CASE s \in {"done", "cancelled", "started"} -> "none"
    [] s = "pending" -> "pending"
    [] s = "enqueued" -> "running"
    [] s = "failed" -> "failed"

\* ChannelManager.notify: where a job goes according to the state of its row.
ViewOf(s) ==
  CASE s \in {"done", "cancelled"} -> "none"
    [] s = "pending" -> "pending"
    [] s \in {"enqueued", "started"} -> "running"
    [] s = "failed" -> "failed"

Commit_unnoticed_mutant(S) ==  \* the trigger is missing
  /\ fresh' = [w \in Worker |-> fresh[w] /\ jobOf[w] \notin S]
  /\ UNCHANGED notified

Commit_last_wins_mutant(S) ==  \* READ COMMITTED transactions
  /\ notified' = [j \in Job |-> notified[j] \/ j \in S]
  /\ UNCHANGED fresh

\* A commit on the rows of S: the trigger notifies the runner, and a
\* transaction with an older snapshot can no longer update them.
Commit(S) ==
  /\ notified' = [j \in Job |-> notified[j] \/ j \in S]
  /\ fresh' = [w \in Worker |-> fresh[w] /\ jobOf[w] \notin S]

Fault == /\ faults < MaxFaults
         /\ faults' = faults + 1

\* The transactions of p end: their row locks are released.
Released(p) == [j \in Job |-> IF holder[j] = p THEN NoOne ELSE holder[j]]

Init ==
  /\ state = [j \in Job |-> "pending"]
  /\ retry = [j \in Job |-> 0]
  /\ aged = [j \in Job |-> FALSE]
  /\ lockRow = [j \in Job |-> FALSE]
  /\ holder = [j \in Job |-> NoOne]
  /\ pc = [w \in Worker |-> "idle"]
  /\ jobOf = [w \in Worker |-> NoOne]
  /\ tries = [w \in Worker |-> 0]
  /\ fresh = [w \in Worker |-> FALSE]
  /\ view = [j \in Job |-> "none"]
  /\ notified = [j \in Job |-> TRUE]
  /\ http = [j \in Job |-> 0]
  /\ scan = {}
  /\ attempts = [j \in Job |-> 0]
  /\ effects = [j \in Job |-> 0]
  /\ aborted = [j \in Job |-> FALSE]
  /\ faults = 0
  /\ edits = 0

-----------------------------------------------------------------------------
(* The job runner: a single thread that loops over requeue_dead_jobs,      *)
(* process_notifications and run_jobs on an autocommit connection.         *)

\* process_notifications: read the committed row again and tell the channels.
process_notifications(j) ==
  /\ scan = {}
  /\ notified[j]
  /\ notified' = [notified EXCEPT ![j] = FALSE]
  /\ view' = [view EXCEPT ![j] = ViewOf(state[j])]
  /\ UNCHANGED <<dbVars, workerVars, http, scan, historyVars, budgetVars>>

\* The row becomes ENQUEUED, whatever it holds by now.
set_job_enqueued(j) ==
  /\ state' = [state EXCEPT ![j] = "enqueued"]
  /\ aged' = [aged EXCEPT ![j] = FALSE]
  /\ Commit({j})

\* A thread of its own asks Odoo to run the job; nobody looks at the answer.
async_http_get(j) == http' = [http EXCEPT ![j] = @ + 1]

\* run_jobs on a job the channels consider pending.
run_jobs(j) ==
  /\ scan = {}
  /\ view[j] = "pending"
  /\ http[j] < MaxRequests
  /\ view' = [view EXCEPT ![j] = "running"]
  /\ set_job_enqueued(j)
  /\ async_http_get(j)
  /\ UNCHANGED <<retry, lockRow, holder, pc, jobOf, tries, scan, historyVars,
                 budgetVars>>

DeadCandidates_mutant ==  \* requests that are never served are forgotten
  {j \in Job : state[j] = "started" /\ aged[j] /\ holder[j] = NoOne}

DeadCandidates_locked_mutant ==  \* jobs that are being performed too
  {j \in Job : state[j] \in {"enqueued", "started"} /\ aged[j]}

DeadCandidates ==
  {j \in Job : /\ state[j] \in {"enqueued", "started"}
               /\ aged[j]
               /\ lockRow[j] => holder[j] = NoOne}

\* requeue_dead_jobs, the evaluation of the WHERE clause: the snapshot of the
\* statement is taken and the free lock rows are locked.
requeue_dead_jobs_select ==
  /\ scan = {}
  /\ DeadCandidates # {}
  /\ scan' = DeadCandidates
  /\ holder' = [j \in Job |-> IF j \in DeadCandidates /\ lockRow[j]
                              THEN Runner ELSE holder[j]]
  /\ UNCHANGED <<state, retry, aged, lockRow, workerVars, view, notified, http,
                 historyVars, budgetVars>>

TooManyRetries_mutant(j) == MaxRetries # 0 /\ retry[j] > MaxRetries + 1

TooManyRetries(j) == MaxRetries # 0 /\ retry[j] > MaxRetries

\* requeue_dead_jobs, the update: a row committed since the snapshot is checked
\* again, but NOT EXISTS (queue_job_lock) keeps its answer of the snapshot.
requeue_dead_jobs_update ==
  LET dead == {j \in scan : state[j] \in {"enqueued", "started"} /\ aged[j]}
  IN /\ scan # {}
     /\ scan' = {}
     /\ state' = [j \in Job |->
          CASE j \notin dead -> state[j]
            [] j \in dead /\ TooManyRetries(j) -> "failed"
            [] OTHER -> "pending"]
     /\ retry' = [j \in Job |-> IF j \in dead /\ state[j] = "started"
                                THEN retry[j] + 1 ELSE retry[j]]
     /\ holder' = Released(Runner)
     /\ Commit(dead)
     /\ UNCHANGED <<aged, lockRow, pc, jobOf, tries, view, http, historyVars,
                    budgetVars>>

\* The runner restarts after an error, or another node becomes the master:
\* close_databases, then initialize_databases (LISTEN, then the NOT_DONE rows).
initialize_databases ==
  /\ Fault
  /\ view' = [j \in Job |-> ViewOf(state[j])]
  /\ notified' = [j \in Job |-> FALSE]
  /\ scan' = {}
  /\ holder' = Released(Runner)
  /\ UNCHANGED <<state, retry, aged, lockRow, workerVars, http, historyVars, edits>>

\* More than 10 seconds have passed since date_enqueued.
Age(j) ==
  /\ ~aged[j]
  /\ state[j] \in {"enqueued", "started"}
  /\ aged' = [aged EXCEPT ![j] = TRUE]
  /\ UNCHANGED <<state, retry, lockRow, holder, workerVars, runnerVars,
                 historyVars, budgetVars>>

-----------------------------------------------------------------------------
(* The HTTP controller /queue_job/runjob in the workers *)

\* _acquire_job up to its commit: the row is ENQUEUED, set_started, store.
acquire_job(w, j) ==
  /\ pc[w] = "idle"
  /\ http[j] > 0
  /\ state[j] = "enqueued"
  /\ http' = [http EXCEPT ![j] = @ - 1]
  /\ pc' = [pc EXCEPT ![w] = "acquired"]
  /\ jobOf' = [jobOf EXCEPT ![w] = j]
  /\ tries' = [tries EXCEPT ![w] = retry[j]]
  /\ state' = [state EXCEPT ![j] = "started"]
  /\ lockRow' = [lockRow EXCEPT ![j] = TRUE]
  /\ Commit({j})
  /\ UNCHANGED <<retry, aged, holder, view, scan, historyVars, budgetVars>>

\* _acquire_job finds the row in another state: the request does nothing.
acquire_job_rejected(j) ==
  /\ http[j] > 0
  /\ state[j] # "enqueued"
  /\ http' = [http EXCEPT ![j] = @ - 1]
  /\ UNCHANGED <<dbVars, workerVars, view, notified, scan, historyVars, budgetVars>>

\* The request never reaches a worker, or SKIP LOCKED skips the row because
\* some other transaction has it locked.
lose_request(j) ==
  /\ Fault
  /\ http[j] > 0
  /\ http' = [http EXCEPT ![j] = @ - 1]
  /\ UNCHANGED <<dbVars, workerVars, view, notified, scan, historyVars, edits>>

Leave_mutant(w) ==  \* the Job object survives its request
  /\ pc' = [pc EXCEPT ![w] = "idle"]
  /\ UNCHANGED <<jobOf, tries>>

\* The request is over: the worker forgets its Job.
Leave(w) ==
  /\ pc' = [pc EXCEPT ![w] = "idle"]
  /\ jobOf' = [jobOf EXCEPT ![w] = NoOne]
  /\ tries' = [tries EXCEPT ![w] = 0]

Lockable_mutant(j) == state[j] = "started"

\* The SELECT of Job.lock returns the row.
Lockable(j) == state[j] = "started" /\ holder[j] = NoOne

\* Job.lock in a new transaction, whose snapshot is the one of the perform.
lock(w) ==
  LET j == jobOf[w]
  IN /\ pc[w] = "acquired"
     /\ Lockable(j)
     /\ attempts[j] < MaxAttempts
     /\ holder' = [holder EXCEPT ![j] = w]
     /\ pc' = [pc EXCEPT ![w] = "performing"]
     /\ fresh' = [fresh EXCEPT ![w] = TRUE]
     /\ attempts' = [attempts EXCEPT ![j] = @ + 1]
     /\ UNCHANGED <<state, retry, aged, lockRow, jobOf, tries, runnerVars, effects,
                    aborted, budgetVars>>

\* Job.lock returns False: _acquire_job gives up and leaves the row as it is.
lock_failed(w) ==
  /\ pc[w] = "acquired"
  /\ ~Lockable(jobOf[w])
  /\ Leave(w)
  /\ UNCHANGED <<dbVars, fresh, runnerVars, historyVars, budgetVars>>

\* _try_perform_job: perform, set_done, store and commit, which frees the lock.
perform_done(w) ==
  LET j == jobOf[w]
  IN /\ "ok" \in Outcomes
     /\ pc[w] = "performing"
     /\ fresh[w]
     /\ state' = [state EXCEPT ![j] = "done"]
     /\ retry' = [retry EXCEPT ![j] = tries[w] + 1]
     /\ holder' = Released(w)
     /\ effects' = [effects EXCEPT ![j] = @ + 1]
     /\ Leave(w)
     /\ Commit({j})
     /\ UNCHANGED <<aged, lockRow, view, http, scan, attempts, aborted, budgetVars>>

\* An exception leaves Job.perform or Job.store; n is what perform has made of
\* the retry attribute.  An SQL error has already ended the transaction, and
\* with it the lock; otherwise the transaction stays open until _runjob ends.
Raise(w, where, n, sqlError) ==
  /\ pc[w] = "performing"
  /\ pc' = [pc EXCEPT ![w] = where]
  /\ tries' = [tries EXCEPT ![w] = n]
  /\ fresh' = [fresh EXCEPT ![w] = FALSE]
  /\ holder' = IF sqlError THEN Released(w) ELSE holder
  /\ aborted' = [aborted EXCEPT ![jobOf[w]] = @ \/ sqlError]
  /\ UNCHANGED <<state, retry, aged, lockRow, jobOf, runnerVars, attempts, effects,
                 edits>>

\* The store of DONE meets a row committed by somebody else: a serialization
\* error, which _runjob turns into a RetryableJobError.
store_conflict(w) ==
  /\ "ok" \in Outcomes
  /\ ~fresh[w]
  /\ Raise(w, "retrying", tries[w] + 1, TRUE)
  /\ UNCHANGED faults

\* The method raises RetryableJobError.
perform_retryable(w) ==
  /\ "retryable" \in Outcomes
  /\ Raise(w, IF MaxRetries # 0 /\ tries[w] + 1 >= MaxRetries
              THEN "failing" ELSE "retrying", tries[w] + 1, FALSE)
  /\ UNCHANGED faults

\* The method raises RetryableJobError(ignore_retry=True).
perform_ignored(w) ==
  /\ "ignored" \in Outcomes
  /\ Raise(w, "retrying", tries[w], FALSE)
  /\ UNCHANGED faults

\* The method raises any other exception.
perform_error(w) ==
  /\ "error" \in Outcomes
  /\ Raise(w, "failing", tries[w] + 1, FALSE)
  /\ UNCHANGED faults

\* A query of the method fails with a concurrency error: _runjob retries the
\* job without looking at max_retries.
perform_sql_retry(w) ==
  /\ "sql_retry" \in Outcomes
  /\ Fault
  /\ Raise(w, "retrying", tries[w] + 1, TRUE)

\* A query of the method fails with another error.
perform_sql_error(w) ==
  /\ "sql_error" \in Outcomes
  /\ Fault
  /\ Raise(w, "failing", tries[w] + 1, TRUE)

\* retry_postpone, or set_failed and store, on a cursor of its own.
store_exception(w) ==
  LET j == jobOf[w]
  IN /\ pc[w] \in {"retrying", "failing"}
     /\ state' = [state EXCEPT ![j] = IF pc[w] = "retrying" THEN "pending" ELSE "failed"]
     /\ retry' = [retry EXCEPT ![j] = tries[w]]
     /\ aged' = [aged EXCEPT ![j] = @ /\ pc[w] = "failing"]
     /\ pc' = [pc EXCEPT ![w] = "closing"]
     /\ Commit({j})
     /\ UNCHANGED <<lockRow, holder, jobOf, tries, view, http, scan, historyVars,
                    budgetVars>>

\* The rollback that ends the request after an exception.
rollback(w) ==
  /\ pc[w] = "closing"
  /\ holder' = Released(w)
  /\ Leave(w)
  /\ UNCHANGED <<state, retry, aged, lockRow, fresh, runnerVars, historyVars,
                 budgetVars>>

\* The worker process is killed, or its store of the outcome fails: PostgreSQL
\* rolls its transaction back.
crash(w) ==
  /\ Fault
  /\ pc[w] # "idle"
  /\ holder' = Released(w)
  /\ fresh' = [fresh EXCEPT ![w] = FALSE]
  /\ Leave(w)
  /\ UNCHANGED <<state, retry, aged, lockRow, runnerVars, historyVars, edits>>

-----------------------------------------------------------------------------
(* The buttons of the user: each is one transaction on a row that it read, *)
(* replayed by Odoo when somebody else committed the row in between.       *)

ChangeState(j, from, to) ==
  /\ edits < MaxEdits
  /\ edits' = edits + 1
  /\ state[j] \in from
  /\ state' = [state EXCEPT ![j] = to]
  /\ Commit({j})
  /\ UNCHANGED <<lockRow, holder, pc, jobOf, tries, view, http, scan, faults>>

button_done(j) ==
  /\ ChangeState(j, {"pending", "enqueued", "failed"}, "done")
  /\ UNCHANGED <<retry, aged, historyVars>>

button_cancelled(j) ==
  /\ ChangeState(j, {"pending", "enqueued", "failed"}, "cancelled")
  /\ UNCHANGED <<retry, aged, historyVars>>

\* set_pending with reset_retry; the histories start again.
requeue(j) ==
  /\ ChangeState(j, {"failed", "done", "cancelled"}, "pending")
  /\ retry' = [retry EXCEPT ![j] = 0]
  /\ aged' = [aged EXCEPT ![j] = FALSE]
  /\ attempts' = [attempts EXCEPT ![j] = 0]
  /\ effects' = [effects EXCEPT ![j] = 0]
  /\ aborted' = [aborted EXCEPT ![j] = \E w \in Worker : jobOf[w] = j]

-----------------------------------------------------------------------------

RunnerStep ==
  \/ \E j \in Job : process_notifications(j) \/ run_jobs(j)
  \/ requeue_dead_jobs_select
  \/ requeue_dead_jobs_update
  \/ initialize_databases

WorkerStep(w) ==
  \/ \E j \in Job : acquire_job(w, j)
  \/ lock(w)
  \/ lock_failed(w)
  \/ perform_done(w)
  \/ store_conflict(w)
  \/ perform_retryable(w)
  \/ perform_ignored(w)
  \/ perform_error(w)
  \/ perform_sql_retry(w)
  \/ perform_sql_error(w)
  \/ store_exception(w)
  \/ rollback(w)
  \/ crash(w)

Environment ==
  \E j \in Job : \/ Age(j)
                 \/ acquire_job_rejected(j)
                 \/ lose_request(j)
                 \/ button_done(j)
                 \/ button_cancelled(j)
                 \/ requeue(j)

Next == \/ RunnerStep
        \/ \E w \in Worker : WorkerStep(w)
        \/ Environment

Spec == Init /\ [][Next]_vars

-----------------------------------------------------------------------------
(* Fairness: the runner's thread goes round its loop, ten seconds pass, a  *)
(* worker that has begun a request goes on with it, and methods end.  A    *)
(* request that is not lost is served: strong fairness, because a request  *)
(* that only ever arrives after its job was requeued is refused each time. *)

Perform(w) ==
  \/ perform_done(w)
  \/ store_conflict(w)
  \/ perform_retryable(w)
  \/ perform_error(w)

Fairness ==
  /\ \A j \in Job : /\ WF_vars(process_notifications(j))
                    /\ WF_vars(run_jobs(j))
                    /\ WF_vars(Age(j))
                    /\ WF_vars(acquire_job_rejected(j))
                    /\ SF_vars(\E w \in Worker : acquire_job(w, j))
  /\ WF_vars(requeue_dead_jobs_select)
  /\ WF_vars(requeue_dead_jobs_update)
  /\ \A w \in Worker : /\ WF_vars(lock(w) \/ lock_failed(w))
                       /\ WF_vars(Perform(w))
                       /\ WF_vars(store_exception(w))
                       /\ WF_vars(rollback(w))

FairSpec == Spec /\ Fairness

-----------------------------------------------------------------------------
(* Properties *)

\* Type correctness of the rows, of the workers and of the runner's memory.
TypeOK ==
  /\ state \in [Job -> States]
  /\ retry \in [Job -> Nat]
  /\ aged \in [Job -> BOOLEAN]
  /\ lockRow \in [Job -> BOOLEAN]
  /\ holder \in [Job -> Worker \cup {NoOne, Runner}]
  /\ pc \in [Worker -> Locations]
  /\ jobOf \in [Worker -> Job \cup {NoOne}]
  /\ \A w \in Worker : jobOf[w] = NoOne <=> pc[w] = "idle"
  /\ tries \in [Worker -> Nat]
  /\ fresh \in [Worker -> BOOLEAN]
  /\ view \in [Job -> Views]
  /\ notified \in [Job -> BOOLEAN]
  /\ http \in [Job -> Nat]
  /\ scan \subseteq Job
  /\ attempts \in [Job -> Nat]
  /\ effects \in [Job -> Nat]
  /\ aborted \in [Job -> BOOLEAN]
  /\ faults \in Nat
  /\ edits \in Nat

Performs(w, j) == pc[w] = "performing" /\ jobOf[w] = j

\* No two workers perform the same job at once, whatever duplicate requests,
\* requeuing of jobs believed dead and buttons do to its state.
MutualExclusion ==
  \A w1, w2 \in Worker, j \in Job :
    Performs(w1, j) /\ Performs(w2, j) => w1 = w2

\* A performer holds the lock of its job, and a worker holds no other lock: a
\* crash, an SQL error or the end of the request never leaks one.
LocksHeld ==
  /\ \A w \in Worker : pc[w] = "performing" => holder[jobOf[w]] = w
  /\ \A j \in Job : holder[j] \in Worker =>
       /\ jobOf[holder[j]] = j
       /\ pc[holder[j]] \in {"performing", "retrying", "failing", "closing"}

\* While the row still is what a performer has seen, it says STARTED: a job
\* that runs is neither pending, failed nor settled unless the performer's
\* own commit is already bound to fail.
PerformedIsStarted ==
  \A w \in Worker : pc[w] = "performing" /\ fresh[w] => state[jobOf[w]] = "started"

\* The work of a job is committed at most once per request of a user, as long
\* as no performer has lost its lock to an SQL error before it has stored the
\* outcome.
EffectsAtMostOnce ==
  \A j \in Job : effects[j] <= 1 \/ aborted[j]

\* A job that is enqueued or started is counted as running by the runner's
\* channels, so that it takes its place in their capacity.
ActiveIsCounted ==
  \A j \in Job : state[j] \in {"enqueued", "started"} => view[j] = "running"

\* The runner misses nothing: once the notifications of a job are processed
\* its channels have the job where the committed row says.
RunnerUpToDate ==
  \A j \in Job : ~notified[j] => view[j] = ViewOf(state[j])

\* A job whose tries crash, raise or are never acknowledged is not retried for
\* ever: unless an SQL error has interfered, the retry column exceeds
\* max_retries by at most two, and by two only when the job is not tried again.
RetryBounded ==
  MaxRetries # 0 =>
    \A j \in Job : \/ aborted[j]
                   \/ retry[j] <= MaxRetries + 1
                   \/ retry[j] = MaxRetries + 2 /\ state[j] \notin {"pending", "enqueued"}

\* Whatever requests are lost and workers killed, a pending job ends up done,
\* cancelled or failed.
PendingSettles ==
  \A j \in Job : state[j] = "pending" ~> state[j] \in {"done", "cancelled", "failed"}

Exclusive ==
  INSTANCE ExclusiveExecution
    WITH performers <- [j \in Job |-> {w \in Worker : Performs(w, j)}]

\* The locks implement exclusive execution.
ExclusiveSpec == Exclusive!Spec

(* What the documentation says of the program, and the code does not do *)

\* runner.py:282 "Set started and enqueued jobs but not locked to pending":
\* requeue_dead_jobs leaves the jobs alone that are being performed.
LockedIsNotRequeued ==
  [][requeue_dead_jobs_update =>
       \A j \in Job : (\E w \in Worker : Performs(w, j)) => state'[j] = state[j]]_vars

=============================================================================
