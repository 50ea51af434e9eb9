----------------------------- MODULE JobRecords -----------------------------
(***************************************************************************)
(* The records of queue.job from their creation to their removal: job.py,  *)
(* delay.py and models/queue_job.py.  Sessions delay jobs with an identity *)
(* key, the runner enqueues what its channels remember as pending, workers *)
(* perform it, users requeue and settle jobs, and the scheduled task of    *)
(* autovacuum removes them by their dates.  The locks of workers are the   *)
(* subject of JobExecution: here a job has one worker, and may have one    *)
(* more that the runner has taken for dead.                                *)
(***************************************************************************)
EXTENDS Naturals, FiniteSets, FiniteSetsExt

CONSTANTS Job,          \* records, in the order of their creation
          Key, NoKey,   \* identity keys
          Session, None,
          removal_interval, MaxDay,
          MaxLost       \* bound: workers that live and are taken for dead, at a time

States == {"wait_dependencies", "pending", "enqueued", "started", "done", "cancelled", "failed"}
Day == 0 .. MaxDay
Record == [state : States, identity_key : Key \cup {NoKey},
           date_done : Day \cup {None}, date_cancelled : Day \cup {None}]

RecordConstants ==
    /\ Job \subseteq Nat /\ IsFiniteSet(Job) /\ NoKey \notin Key /\ None \notin Nat \cup Record
    /\ {removal_interval, MaxDay, MaxLost} \subseteq Nat

VARIABLES record,     \* the committed records
          memory,     \* the job that its worker holds in memory
          lost,       \* the one held by a worker that was taken for dead, and lives
          known,      \* the jobs that the channels of the runner remember as pending
          day,
          seen,       \* the jobs of its key when a session has found none active
          wanted,     \* the identity key of the job that it delays
          revived,    \* history: jobs that have come back to the queue
          unseen,     \* history: pairs of jobs of a key, each created by a session
                      \* that had looked for it before the other one was there
          misdated,   \* history: jobs with a date that failed after set_done, were settled
                      \* and enqueued again by the runner, or failed under a lost worker
          since       \* history: the day on which a job was done or cancelled

recordVars == <<record, memory, lost, known, day, seen, wanted, revived, unseen,
                misdated, since>>

TypeOK == /\ record \in [Job -> Record \cup {None}] /\ memory \in [Job -> Record \cup {None}]
          /\ lost \in [Job -> Record \cup {None}] /\ known \subseteq Job
          /\ \A j \in Job : memory[j] # None => record[j] # None /\ record[j].state = "started"
          /\ day \in Day /\ since \in [Job -> Day]
          /\ seen \in [Session -> (SUBSET Job) \cup {None}]
          /\ wanted \in [Session -> Key \cup {NoKey}]
          /\ revived \subseteq Job /\ misdated \subseteq Job /\ unseen \subseteq kSubset(2, Job)

Init == /\ record = [j \in Job |-> None] /\ memory = [j \in Job |-> None]
        /\ lost = [j \in Job |-> None] /\ known = {}
        /\ day = 0 /\ since = [j \in Job |-> 0]
        /\ seen = [s \in Session |-> None] /\ wanted = [s \in Session |-> NoKey]
        /\ revived = {} /\ unseen = {} /\ misdated = {}

Exists == {j \in Job : record[j] # None}
Queued == {"wait_dependencies", "pending", "enqueued"}
Settled == {"done", "cancelled"}
In(states) == {j \in Exists : record[j].state \in states}

-----------------------------------------------------------------------------
\* The transitions of the class Job

Waiting == {"pending", "wait_dependencies"}  \* according to the parents of the job
set_pending_mutant(r, state) == [r EXCEPT !.state = state, !.date_cancelled = None]
set_pending(r, state) == [r EXCEPT !.state = state, !.date_done = None, !.date_cancelled = None]
set_done(r) == [r EXCEPT !.state = "done", !.date_done = day]
set_cancelled(r) == [r EXCEPT !.state = "cancelled", !.date_cancelled = day]
set_failed(r) == [r EXCEPT !.state = "failed"]

\* The job r is stored in its record: every field is written again, in a new record
\* if autovacuum has removed it.
store(j, r) == /\ record' = [record EXCEPT ![j] = r]
               /\ since' = [since EXCEPT ![j] = IF r.state \in Settled THEN day ELSE 0]
               /\ revived' = CASE r.state \notin Queued -> revived \ {j}
                               [] j \in In(Queued) -> revived
                               [] OTHER -> revived \cup {j}
               /\ unseen' = IF r.state \in Queued THEN unseen ELSE {p \in unseen : j \notin p}

\* The date of a state that is set is right, the other one may be of an earlier state ...
Dated(j, r) == misdated' = IF r.date_done = None \/ r.date_cancelled = None
                           THEN misdated \ {j} ELSE misdated
\* ... and in another state any date is.
Misdates(j, r) == misdated' = IF {r.date_done, r.date_cancelled} = {None}
                              THEN misdated \ {j} ELSE misdated \cup {j}

-----------------------------------------------------------------------------
\* Creation

\* Jobs that keep another job with their identity key from being created.
Active_mutant == In({"pending", "enqueued"})
Active == In(Queued)
KeyMates(k) == {j \in Exists : k # NoKey /\ record[j].identity_key = k}
job_record_with_same_identity_key(k) == Active \cap KeyMates(k) # {}

\* The jobs that nobody has heard of.
New == {j \in Job \ (Exists \cup known) : lost[j] = None}

\* A session looks for an active job with the key of its own: it is done if there
\* is one ...  Job bounds the sessions that begin: there is a record for each.
delay(s, k) ==
    /\ Cardinality({t \in Session : seen[t] # None}) < Cardinality(New)
    /\ seen[s] = None /\ ~job_record_with_same_identity_key(k)
    /\ seen' = [seen EXCEPT ![s] = KeyMates(k)]
    /\ wanted' = [wanted EXCEPT ![s] = k]
    /\ UNCHANGED <<record, memory, lost, known, day, revived, unseen, misdated, since>>

\* ... and stores its job otherwise; with parents it waits.
delay_store(s, state) ==
    LET j == Min(New)
        r == [state |-> state, identity_key |-> wanted[s],
              date_done |-> None, date_cancelled |-> None]
    IN
    /\ seen[s] # None /\ New # {}
    /\ seen' = [seen EXCEPT ![s] = None] /\ wanted' = [wanted EXCEPT ![s] = NoKey]
    /\ record' = [record EXCEPT ![j] = r]
    /\ unseen' = unseen \cup {{i, j} : i \in KeyMates(wanted[s]) \ seen[s]}
    /\ UNCHANGED <<memory, lost, known, day, revived, misdated, since>>

\* The transaction of a session fails.
rollback(s) == /\ seen[s] # None
               /\ seen' = [seen EXCEPT ![s] = None] /\ wanted' = [wanted EXCEPT ![s] = NoKey]
               /\ UNCHANGED <<record, memory, lost, known, day, revived, unseen, misdated, since>>

-----------------------------------------------------------------------------
\* Execution

WorkerVars == <<known, day, seen, wanted>>
UserVars == <<memory, lost, WorkerVars>>

\* Raw updates of the state, without the class Job.  The rows that a parent finds
\* changed meanwhile are left to JobDependencies.
enqueue_waiting(j) == /\ j \in In({"wait_dependencies"})
                      /\ store(j, [record[j] EXCEPT !.state = "pending"])
                      /\ UNCHANGED <<UserVars, misdated>>
cancel_dependent_jobs(j) == /\ j \in In({"wait_dependencies"})
                            /\ store(j, [record[j] EXCEPT !.state = "cancelled"])
                            /\ UNCHANGED <<UserVars, misdated>>

\* The worker that holds the job is dead, or alive and lost.
Loses(j) == /\ memory' = [memory EXCEPT ![j] = None]
            /\ \/ lost' = lost
               \/ /\ Cardinality({i \in Job : lost[i] # None}) < MaxLost
                  /\ lost' = [lost EXCEPT ![j] = memory[j]]
requeue_dead_jobs(j) ==
    /\ j \in In({"enqueued", "started"}) /\ Loses(j)
    /\ \E state \in {"pending", "failed"} : store(j, [record[j] EXCEPT !.state = state])
    /\ UNCHANGED <<WorkerVars, misdated>>

\* What the channels of the runner remember of the present records.
notify(j) ==
    /\ known' = CASE j \in In({"pending"}) -> known \cup {j}
                  [] j \in In({"wait_dependencies"}) -> known
                  [] OTHER -> known \ {j}
    /\ UNCHANGED <<record, memory, lost, day, seen, wanted, revived, unseen, misdated,
                   since>>
initialize_databases ==
    /\ known' = In({"pending"})
    /\ UNCHANGED <<record, memory, lost, day, seen, wanted, revived, unseen, misdated,
                   since>>

\* The UPDATE is by uuid: it finds the record in any state, with the dates it has, or
\* does not find it.
set_job_enqueued(j) ==
    /\ j \in known /\ known' = known \ {j}
    /\ IF j \in Exists
       THEN /\ store(j, [record[j] EXCEPT !.state = "enqueued"])
            /\ IF j \in In(Settled) THEN Misdates(j, record[j]) ELSE misdated' = misdated
       ELSE UNCHANGED <<record, revived, unseen, misdated, since>>
    /\ UNCHANGED <<memory, lost, day, seen, wanted>>

\* _load_from_db_record, set_started; a lost worker may still have the lock.
_acquire_job(j) == /\ j \in In({"enqueued"})
                   /\ LET r == [record[j] EXCEPT !.state = "started"] IN
                      /\ store(j, r)
                      /\ \/ memory' = [memory EXCEPT ![j] = r]
                         \/ lost[j] # None /\ memory' = memory
                   /\ UNCHANGED <<lost, WorkerVars, misdated>>

\* The worker stores what the job in its memory has become.  A lost one does so
\* whatever the record is, even when it is in the hands of another worker.
Held(j, late) == IF late THEN lost[j] ELSE memory[j]
Ends(j, late, r) == /\ store(j, r)
                    /\ memory' = [memory EXCEPT ![j] = None]
                    /\ lost' = IF late THEN [lost EXCEPT ![j] = memory[j]] ELSE lost
                    /\ UNCHANGED WorkerVars

_try_perform_job(j) == /\ memory[j] # None /\ Ends(j, FALSE, set_done(memory[j]))
                       /\ Dated(j, set_done(memory[j]))
\* After a failure of perform, or of the flush or commit that follows set_done: the
\* commit of a lost worker fails.
retry_postpone(j, late) ==
    /\ Held(j, late) # None
    /\ \E s \in Waiting : Ends(j, late, set_pending(Held(j, late), s))
    /\ misdated' = misdated \ {j}
perform_failed(j, late) ==
    LET m == Held(j, late) IN
    /\ m # None /\ Ends(j, late, set_failed(m))
    /\ IF late THEN Misdates(j, m) ELSE misdated' = misdated
flush_failed(j, late) ==
    LET m == Held(j, late) IN
    /\ m # None /\ Ends(j, late, set_failed(set_done(m)))
    /\ Misdates(j, set_done(m))

-----------------------------------------------------------------------------
\* Users and the scheduled task

requeue(j) == /\ j \in In({"failed"} \cup Settled)
              /\ \E s \in Waiting : store(j, set_pending(record[j], s))
              /\ misdated' = misdated \ {j}
              /\ UNCHANGED UserVars
button_done(j) == /\ j \in In({"failed"} \cup Queued)
                  /\ store(j, set_done(record[j])) /\ Dated(j, set_done(record[j]))
                  /\ UNCHANGED UserVars
button_cancelled(j) == /\ j \in In({"failed"} \cup Queued)
                       /\ store(j, set_cancelled(record[j])) /\ Dated(j, set_cancelled(record[j]))
                       /\ UNCHANGED UserVars

\* Each chunk of records is committed; the search knows dates, not states.
Removable == {j \in Exists : \E d \in {record[j].date_done, record[j].date_cancelled} :
                 d # None /\ d + removal_interval <= day}
autovacuum(j) == /\ j \in Removable /\ Loses(j)
                 /\ record' = [record EXCEPT ![j] = None]
                 /\ since' = [since EXCEPT ![j] = 0]
                 /\ revived' = revived \ {j} /\ misdated' = misdated \ {j}
                 /\ unseen' = {p \in unseen : j \notin p}
                 /\ seen' = [s \in Session |-> IF seen[s] = None THEN None ELSE seen[s] \ {j}]
                 /\ UNCHANGED <<known, day, wanted>>

tick == /\ day < MaxDay /\ day' = day + 1
        /\ UNCHANGED <<record, memory, lost, known, seen, wanted, revived, unseen, misdated,
                       since>>

Next == \/ \E s \in Session : \/ \E k \in Key \cup {NoKey} : delay(s, k)
                              \/ \E state \in Waiting : delay_store(s, state)
                              \/ rollback(s)
        \/ \E j \in Job : \/ enqueue_waiting(j) \/ cancel_dependent_jobs(j)
                          \/ notify(j) \/ set_job_enqueued(j) \/ requeue_dead_jobs(j)
                          \/ _acquire_job(j) \/ _try_perform_job(j)
                          \/ \E late \in BOOLEAN : \/ retry_postpone(j, late)
                                                  \/ perform_failed(j, late)
                                                  \/ flush_failed(j, late)
                          \/ requeue(j) \/ button_done(j) \/ button_cancelled(j)
                          \/ autovacuum(j)
        \/ initialize_databases
        \/ tick

Spec == Init /\ [][Next]_recordVars
-----------------------------------------------------------------------------
\* "When a job should be created and a pending job with the exact same recordset
\* and arguments, the second will not be created" (identity_exact): two jobs of a
\* key are active only if their sessions did not see one another, or if one of
\* them came back to the queue: it was requeued, postponed or found dead, or the
\* runner enqueued it after it had ended.
ActiveJobsAreUnique ==
    \A i, j \in Active : i # j /\ record[i].identity_key = record[j].identity_key =>
       \/ record[i].identity_key = NoKey
       \/ {i, j} \in unseen \/ {i, j} \cap revived # {}

\* What autovacuum may remove has been done or cancelled for the whole interval,
\* however often the job was requeued, performed and settled before; but for a job
\* that failed after set_done, one that the runner enqueued after it had been
\* settled, and one that failed under a lost worker that held it with a date.  It
\* stays an exception until it is requeued or postponed, or settled while it has no
\* other date.
RemovableHasEnded ==
    \A j \in Removable \ misdated :
       /\ record[j].state \in Settled
       /\ since[j] + removal_interval <= day
=============================================================================
