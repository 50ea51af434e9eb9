----------------------------- MODULE CronRunner -----------------------------
(***************************************************************************)
(* The job runner of queue_job_cron_jobrunner/models/queue_job.py: jobs    *)
(* are performed by scheduled actions, one after the other, each of them   *)
(* acquired by a row lock and committed before its children are enqueued.  *)
(* Several scheduled actions run at once, each in transactions that see    *)
(* the database as it was when they began.  How often a job may be tried   *)
(* is left to JobExecution.                                                *)
(***************************************************************************)
EXTENDS Naturals, FiniteSets, FiniteSetsExt

CONSTANTS Job, None,    \* jobs, in the order of priority and creation
          Cron,         \* the scheduled actions marked as job runners
          parents,      \* depends_on of each job
          late,         \* jobs with a time of arrival when they are created
          MaxDisturbances   \* bound: retries, workers killed, jobs requeued

ASSUME CronConstants ==
    /\ Job \subseteq Nat /\ IsFiniteSet(Job) /\ late \subseteq Job
    /\ parents \in [Job -> SUBSET Job] /\ \A j \in Job : j \notin parents[j]
    /\ None \notin Job
    /\ MaxDisturbances \in Nat

VARIABLES state,        \* the committed rows of the jobs
          due,          \* jobs without a time of arrival to come
          alarm,        \* jobs for whose time of arrival there are triggers
          woken,        \* runners with a trigger whose time has come
          at,           \* where a runner is
          job,          \* the job it has acquired last
          snap, now,    \* its transaction's snapshot: states, jobs that are due
          wrote,        \* children that it has enqueued and not committed
          stale,        \* jobs that others have committed since the snapshot
          effects,      \* how often the work of a job was committed since its reset
          stranded,     \* history: children whose enqueuing was rolled back or lost
          overlooked,   \* history: jobs that nothing announces to the runners
          disturbances

cronVars == <<state, due, alarm, woken, at, job, snap, now, wrote, stale,
              effects, stranded, overlooked, disturbances>>
rows == <<state, due, effects>>
session == <<at, job, snap, now, wrote, stale>>
history == <<stranded, overlooked>>

Disturbed == /\ disturbances < MaxDisturbances
             /\ disturbances' = disturbances + 1

States == {"wait_dependencies", "pending", "done", "failed"}
At == {"idle", "acquire", "perform", "committed", "enqueue"}

NoSnap == [j \in Job |-> "done"]

TypeOK == /\ state \in [Job -> States]
          /\ due \subseteq Job /\ alarm \subseteq Job /\ woken \subseteq Cron
          /\ at \in [Cron -> At] /\ job \in [Cron -> Job \cup {None}]
          /\ snap \in [Cron -> [Job -> States]] /\ now \in [Cron -> SUBSET Job]
          /\ wrote \in [Cron -> SUBSET Job] /\ stale \in [Cron -> SUBSET Job]
          /\ \A c \in Cron : wrote[c] # {} => at[c] \in {"acquire", "perform"}
          /\ \A c \in Cron : job[c] = None => at[c] \in {"idle", "acquire"}
          /\ effects \in [Job -> Nat]
          /\ stranded \subseteq Job /\ overlooked \subseteq Job
          /\ disturbances \in 0 .. MaxDisturbances

Init == /\ state = [j \in Job |-> IF parents[j] = {} THEN "pending" ELSE "wait_dependencies"]
        /\ due = Job \ late
        /\ alarm = {j \in late : parents[j] = {}}
        /\ woken = Cron
        /\ at = [c \in Cron |-> "idle"]
        /\ job = [c \in Cron |-> None]
        /\ snap = [c \in Cron |-> NoSnap] /\ now = [c \in Cron |-> {}]
        /\ wrote = [c \in Cron |-> {}] /\ stale = [c \in Cron |-> {}]
        /\ effects = [j \in Job |-> 0]
        /\ stranded = {} /\ overlooked = {}
        /\ disturbances = 0

-----------------------------------------------------------------------------

Ready(k, states) == /\ states[k] = "wait_dependencies"
                    /\ \A p \in parents[k] : states[p] = "done"
Children_mutant(j, states) == {k \in Job : parents[k] = {j} /\ Ready(k, states)}
\* The children that enqueue_waiting of the job j finds.
Children(j, states) == {k \in Job : j \in parents[k] /\ Ready(k, states)}

\* Rows that a transaction keeps locked.
Locks(c) == wrote[c] \cup (IF at[c] = "perform" THEN {job[c]} ELSE {})
Unlocked_mutant(j, c) == TRUE
Unlocked(j, c) == \A d \in Cron \ {c} : j \notin Locks(d)

Snapshot(c) == /\ snap' = [snap EXCEPT ![c] = state]
               /\ now' = [now EXCEPT ![c] = due]
               /\ stale' = [stale EXCEPT ![c] = {}]

\* The snapshot is not read any more.
Forget(c) == /\ snap' = [snap EXCEPT ![c] = NoSnap]
             /\ now' = [now EXCEPT ![c] = {}]
Reading(c) == at[c] \in {"acquire", "enqueue"}

\* What set_pending will read, when the job has been acquired: the parents.
Keep(c, j) == /\ snap' = [snap EXCEPT ![c] = [k \in Job |->
                              IF k \in parents[j] THEN snap[c][k] ELSE "done"]]
              /\ now' = [now EXCEPT ![c] = {}]

\* The rows S are committed: the snapshots of the others are older.
Committed(c, S) ==
    stale' = [d \in Cron |-> IF d = c \/ ~Reading(d) THEN {} ELSE stale[d] \cup S]
Enqueued(c) == [k \in Job |-> IF k \in wrote[c] THEN "pending" ELSE state[k]]

\* Triggers for jobs that are now pending: at once, or at their time of arrival.
\* The SQL update of enqueue_waiting does not come here.
_ensure_cron_trigger_mutant(immediate, delayed) ==
    /\ woken' = IF immediate # {} THEN Cron ELSE woken
    /\ UNCHANGED alarm
_ensure_cron_trigger(immediate, delayed) ==
    /\ woken' = IF immediate # {} THEN Cron ELSE woken
    /\ alarm' = alarm \cup delayed

-----------------------------------------------------------------------------

\* The scheduled action begins: because of a trigger, or once a day.
start(c) == /\ at[c] = "idle"
            /\ at' = [at EXCEPT ![c] = "acquire"]
            /\ woken' = woken \ {c}
            /\ Snapshot(c)
            /\ UNCHANGED <<rows, alarm, job, wrote, history, disturbances>>

Candidates_mutant(c) == {j \in now[c] \ late : /\ snap[c][j] = "pending" \/ j \in wrote[c]
                                               /\ Unlocked(j, c)}
\* Pending jobs as the transaction sees them; locked rows are skipped.
Candidates(c) == {j \in now[c] : /\ snap[c][j] = "pending" \/ j \in wrote[c]
                                 /\ Unlocked(j, c)}

\* What a transaction that does not commit had to enqueue and nobody else has.
Lost(c) == wrote[c] \cup
           (IF at[c] = "enqueue" THEN Children(job[c], snap[c])
            ELSE IF at[c] = "committed" THEN Children(job[c], state) ELSE {})

\* An error of PostgreSQL ends the run of the scheduled action.
serialization_failure(c) ==
    /\ at' = [at EXCEPT ![c] = "idle"]
    /\ wrote' = [wrote EXCEPT ![c] = {}]
    /\ stranded' = stranded \cup {k \in Lost(c) : state[k] = "wait_dependencies"}
    /\ overlooked' = overlooked \cup {j \in Job : state[j] = "pending"}
    /\ job' = [job EXCEPT ![c] = None]
    /\ Forget(c) /\ Committed(c, {})
    /\ UNCHANGED <<rows, alarm, woken, disturbances>>

\* A row that was committed since the snapshot cannot be locked.
Changed(S, c) == S \cap stale[c] # {}
_acquire_one_job(c) ==
    /\ at[c] = "acquire" /\ Candidates(c) # {}
    /\ LET j == Min(Candidates(c)) IN
       IF Changed({j}, c) THEN serialization_failure(c)
       ELSE /\ at' = [at EXCEPT ![c] = "perform"]
            /\ job' = [job EXCEPT ![c] = j]
            /\ Keep(c, j) /\ Committed(c, {})
            /\ UNCHANGED <<rows, alarm, woken, wrote, history, disturbances>>

_job_runner_end_mutant(c) ==  \* what the transaction has written is not committed
    /\ at[c] = "acquire" /\ Candidates(c) = {}
    /\ at' = [at EXCEPT ![c] = "idle"]
    /\ Forget(c) /\ Committed(c, {})
    /\ UNCHANGED <<rows, alarm, woken, job, wrote, history, disturbances>>
\* No job is left: the transaction of the scheduled action is committed.
_job_runner_end(c) ==
    /\ at[c] = "acquire" /\ Candidates(c) = {}
    /\ at' = [at EXCEPT ![c] = "idle"]
    /\ state' = Enqueued(c)
    /\ wrote' = [wrote EXCEPT ![c] = {}]
    /\ Forget(c) /\ Committed(c, wrote[c])
    /\ UNCHANGED <<due, effects, alarm, woken, job, history, disturbances>>

\* The job is stored and committed, with the children enqueued before it.
Store(c, new) ==
    /\ at[c] = "perform"
    /\ at' = [at EXCEPT ![c] = "committed"]
    /\ state' = [Enqueued(c) EXCEPT ![job[c]] = new]
    /\ wrote' = [wrote EXCEPT ![c] = {}]
    /\ Forget(c) /\ Committed(c, wrote[c] \cup {job[c]})
    /\ UNCHANGED <<job, overlooked>>

perform_done(c) ==
    /\ Store(c, "done")
    /\ effects' = [effects EXCEPT ![job[c]] = @ + 1]
    /\ UNCHANGED <<due, alarm, woken, stranded, disturbances>>

perform_failed(c) ==
    /\ Store(c, "failed")
    /\ UNCHANGED <<due, effects, alarm, woken, stranded, disturbances>>

\* set_pending, as the transaction sees the parents.  One that was requeued before the
\* snapshot may have been done again since: the job waits for nobody then.
set_pending(c) == IF \E p \in parents[job[c]] : snap[c][p] # "done"
                  THEN "wait_dependencies" ELSE "pending"
Misses(c, j) == /\ \A p \in parents[j] : state[p] = "done"
                /\ \A d \in Cron \ {c} : at[d] = "committed" => job[d] \notin parents[j]

perform_postponed_mutant(c) ==  \* the work is not rolled back
    /\ Store(c, set_pending(c))
    /\ Disturbed
    /\ due' = due \ {job[c]}
    /\ _ensure_cron_trigger({}, {job[c]})
    /\ effects' = [effects EXCEPT ![job[c]] = @ + 1]
    /\ UNCHANGED stranded
\* A retry, or a conflict with another transaction: the work is rolled back to
\* the savepoint, the job is due later.
perform_postponed(c) ==
    /\ LET j == job[c]
           new == set_pending(c)
       IN /\ Store(c, new)
          /\ due' = due \ {j}
          /\ _ensure_cron_trigger({}, IF new = "pending" THEN {j} ELSE {})
          /\ stranded' = IF new # "pending" /\ Misses(c, j) THEN stranded \cup {j}
                         ELSE stranded
    /\ Disturbed
    /\ UNCHANGED effects

\* enqueue_waiting begins the next transaction; it waits for locked rows.
enqueue_waiting_begin(c) ==
    /\ at[c] = "committed"
    /\ at' = [at EXCEPT ![c] = "enqueue"]
    /\ Snapshot(c)
    /\ UNCHANGED <<rows, alarm, woken, job, wrote, history, disturbances>>

enqueue_waiting(c) ==
    LET S == Children(job[c], snap[c]) IN
    /\ at[c] = "enqueue" /\ \A k \in S : Unlocked(k, c)
    /\ IF Changed(S, c) THEN serialization_failure(c)
       ELSE /\ at' = [at EXCEPT ![c] = "acquire"]
            /\ wrote' = [wrote EXCEPT ![c] = S]
            /\ job' = [job EXCEPT ![c] = None]
            /\ UNCHANGED <<rows, alarm, woken, snap, now, stale, history, disturbances>>

-----------------------------------------------------------------------------
\* The world around

\* limit_time_real_cron: the worker is killed, its triggers are still there.
kill(c) ==
    /\ at[c] # "idle" /\ Disturbed
    /\ at' = [at EXCEPT ![c] = "idle"]
    /\ wrote' = [wrote EXCEPT ![c] = {}]
    /\ woken' = woken \cup {c}
    /\ stranded' = stranded \cup {k \in Lost(c) : state[k] = "wait_dependencies"}
    /\ job' = [job EXCEPT ![c] = None]
    /\ Forget(c) /\ Committed(c, {})
    /\ UNCHANGED <<rows, alarm, overlooked>>

\* The time of arrival of a job comes.
tick(j) == /\ j \notin due
           /\ due' = due \cup {j}
           /\ woken' = IF j \in alarm THEN Cron ELSE woken
           /\ alarm' = alarm \ {j}
           /\ overlooked' = IF j \in alarm \/ parents[j] = {} THEN overlooked
                            ELSE overlooked \cup {j}
           /\ UNCHANGED <<state, effects, session, stranded, disturbances>>

\* A user requeues a job that has ended; set_pending looks at its parents.
requeue(j) ==
    LET new == IF \E p \in parents[j] : state[p] # "done"
               THEN "wait_dependencies" ELSE "pending" IN
    /\ state[j] \in {"failed", "done"} /\ \A c \in Cron : j \notin Locks(c)
    /\ Disturbed
    /\ state' = [state EXCEPT ![j] = new]
    /\ effects' = [effects EXCEPT ![j] = 0]
    /\ stale' = [c \in Cron |-> IF Reading(c) THEN stale[c] \cup {j} ELSE {}]
    /\ IF new = "pending" THEN _ensure_cron_trigger({j} \cap due, {j} \ due)
       ELSE UNCHANGED <<alarm, woken>>
    /\ UNCHANGED <<due, at, job, snap, now, wrote, history>>

Step(c) == \/ _acquire_one_job(c) \/ _job_runner_end(c)
           \/ perform_done(c) \/ perform_failed(c) \/ perform_postponed(c)
           \/ enqueue_waiting_begin(c) \/ enqueue_waiting(c)

Next == \/ \E c \in Cron : start(c) \/ Step(c) \/ kill(c)
        \/ \E j \in Job : tick(j) \/ requeue(j)

\* Odoo runs each scheduled action again, at the latest the next day, and what
\* has begun goes on; time passes.
Fairness == /\ \A c \in Cron : WF_cronVars(start(c) \/ Step(c))
            /\ WF_cronVars(\E j \in Job : tick(j))
Spec == Init /\ [][Next]_cronVars
FairSpec == Spec /\ Fairness
-----------------------------------------------------------------------------
\* The row locks implement exclusive execution: a job is performed by one runner
\* at a time, and only that one commits its work.
Exclusive == INSTANCE ExclusiveExecution
    WITH Worker <- Cron,
         performers <- [j \in Job |-> {c \in Cron : at[c] = "perform" /\ job[c] = j}]
ExclusiveSpec == Exclusive!Spec

\* The work of a job is committed with its state: once when it is done, never
\* when it is not, though runners are killed and meet one another's commits.
DoneOnce == \A j \in Job : effects[j] = IF state[j] = "done" THEN 1 ELSE 0

\* Runner c is about to enqueue the job k, or has done so and not committed.
Enqueues(c, k) == \/ k \in wrote[c]
                  \/ at[c] = "committed" /\ k \in Children(job[c], state)
                  \/ at[c] = "enqueue" /\ k \in Children(job[c], snap[c])

\* A job waits only while one of its parents is not done, or while a runner is
\* enqueuing it, in whatever order its parents are done; but for the jobs whose
\* enqueuing was lost in a transaction that did not commit.
WaitsForAParent ==
    \A k \in Job \ stranded : Ready(k, state) => \E c \in Cron : Enqueues(c, k)

\* A runner that will find the job j in the transaction that it has, or begins
\* another transaction.
Looks(c, j) == \/ at[c] \in {"perform", "committed"}
               \/ at[c] = "acquire" /\ j \in now[c]
                  /\ (snap[c][j] = "pending" \/ j \in wrote[c])
               \/ at[c] = "enqueue" /\ j \in now[c]
                  /\ (snap[c][j] = "pending" \/ j \in Children(job[c], snap[c]))

\* A job that is pending and due has a trigger or a runner that will find it, though
\* it came after the snapshot of those that run or while they skipped its row.  The
\* exceptions, in `overlooked`, wait for the next day: a job whose run ended in an
\* error, and a child whose own time of arrival comes when it has been enqueued.
DueJobsAreAnnounced ==
    \A j \in Job \ overlooked : state[j] = "pending" /\ j \in due =>
       woken # {} \/ \E c \in Cron : Looks(c, j)

\* No job is pending for ever: each is performed in the end.
PendingIsPerformed ==
    \A j \in Job : []<>(state[j] # "pending")

\* "They remain in a state wait_dependencies until their parent job is successful":
\* nobody was killed, nothing requeued, and a job waits although its parents are done.
ChildrenFollowParents ==
    \A k \in Job : Ready(k, state) /\ disturbances = 0 => \E c \in Cron : Enqueues(c, k)
=============================================================================
