-------------------------- MODULE JobDependencies --------------------------
(***************************************************************************)
(* Graphs of jobs: who moves a job out of wait_dependencies once its       *)
(* parents are done.  A worker commits the job it has performed, and runs  *)
(* enqueue_waiting in its next transaction; the buttons of a user store    *)
(* the job and update its dependents in one transaction.  The runner       *)
(* enqueues the jobs that its channels remember as pending, and a worker   *)
(* that it has taken for dead stores the job it performs: both whatever    *)
(* the row holds by then.                                                  *)
(*                                                                         *)
(* Transactions are REPEATABLE READ: a session reads the rows from the     *)
(* snapshot of its first statement, with its own writes over them, waits   *)
(* for the rows that another session has updated, and fails when a row it  *)
(* updates has been committed by another one since its snapshot.  The      *)
(* statements of the runner are transactions of their own, which wait and  *)
(* then update the row as it is.                                           *)
(***************************************************************************)
EXTENDS Naturals

CONSTANTS
  Job,
  Parents,    \* the depends_on of a job
  Session,    \* the processes, which serve the runner and the users
  Buttons,    \* the buttons that users press: "done", "cancelled", "pending"
  MaxTroubles \* bound: edits, failures and crashes in all

DependenciesAssumption ==
  /\ Parents \in [Job -> SUBSET Job]
  /\ Buttons \subseteq {"done", "cancelled", "pending"}
  /\ MaxTroubles \in Nat

States == {"wait_dependencies", "pending", "enqueued", "started", "done", "cancelled", "failed"}
Unwritten == "unwritten"

VARIABLES
  row,      \* committed state of the jobs
  finished, \* history: the jobs that have been done
  known,    \* the jobs that the channels of the runner remember as pending
  pc,       \* where a session is in its transaction: a worker is performing a
            \* job, or a user has pressed a button
  jobOf,    \* the jobs it works on: none, or one
  snapshot, \* the rows its transaction sees
  changed,  \* the rows that others have committed since
  writes,   \* the states it has written and not committed
  button,   \* what a user wants to make of the job
  edits,    \* transactions of users
  failures, \* jobs that failed, or were postponed, in the hands of their worker
  crashes   \* workers that were killed before they had released dependents, or
            \* taken for dead while they performed

sessionVars == <<pc, jobOf, snapshot, changed, writes, button>>
budgetVars == <<edits, failures, crashes>>
Troubles == edits + failures + crashes

rowVars == <<row, finished, known>>
vars == <<rowVars, sessionVars, budgetVars>>

Nothing == [j \in Job |-> Unwritten]
Created == [j \in Job |-> IF Parents[j] = {} THEN "pending" ELSE "wait_dependencies"]

Init ==
  /\ row = Created
  /\ finished = {}
  /\ known = {}
  /\ pc = [s \in Session |-> "idle"]
  /\ jobOf = [s \in Session |-> {}]
  /\ snapshot = [s \in Session |-> Created]
  /\ changed = [s \in Session |-> {}]
  /\ writes = [s \in Session |-> Nothing]
  /\ button = [s \in Session |-> "done"]
  /\ edits = 0
  /\ failures = 0
  /\ crashes = 0

-----------------------------------------------------------------------------
(* Transactions.  A definition named ..._mutant is a plausible bug of the   *)
(* one after it: PROJECT.json names the property that would reveal it.      *)

\* What the session sees in the row of j.
Seen(s, j) == IF writes[s][j] # Unwritten THEN writes[s][j] ELSE snapshot[s][j]

\* The states in new are committed: by the session of me, or by the runner, who has none.
Commit(me, new) ==
  /\ row' = [j \in Job |-> IF new[j] # Unwritten THEN new[j] ELSE row[j]]
  /\ finished' = finished \cup {j \in Job : new[j] = "done"}
  /\ changed' = [t \in Session |->
       IF t \in me THEN {}
       ELSE IF pc[t] \in {"idle", "dependents"} THEN changed[t]
       ELSE changed[t] \cup {j \in Job : new[j] # Unwritten}]

\* An update of the rows of S waits for the others that have written them, and a
\* session must find them unchanged since its snapshot.
Waits(me, S) == \E t \in Session \ me, j \in S : writes[t][j] # Unwritten
Fails(s, S) == ~Waits({s}, S) /\ S \cap changed[s] # {}

\* One row is updated and committed.
Sets(me, j, state) ==
  /\ ~Waits(me, {j})
  /\ Commit(me, [Nothing EXCEPT ![j] = state])

\* The session begins a transaction, or ends it.
Begins(s, where, J, b) ==
  /\ pc' = [pc EXCEPT ![s] = where]
  /\ jobOf' = [jobOf EXCEPT ![s] = J]
  /\ snapshot' = [snapshot EXCEPT ![s] = row]
  /\ changed' = [changed EXCEPT ![s] = {}]
  /\ button' = [button EXCEPT ![s] = b]
  /\ UNCHANGED <<rowVars, writes>>

Ends(s) ==
  /\ pc' = [pc EXCEPT ![s] = "idle"]
  /\ jobOf' = [jobOf EXCEPT ![s] = {}]
  /\ writes' = [writes EXCEPT ![s] = Nothing]
  /\ snapshot' = [snapshot EXCEPT ![s] = Created]
  /\ button' = [button EXCEPT ![s] = "done"]

Rollback(s) ==
  /\ Ends(s)
  /\ changed' = [changed EXCEPT ![s] = {}]
  /\ UNCHANGED rowVars

Dependents_any_mutant(s, j, state) ==  \* one parent in that state is enough
  {c \in Job : j \in Parents[c] /\ Seen(s, c) = "wait_dependencies"}

Dependents_settled_mutant(s, j, state) ==  \* whatever state the children are in
  {c \in Job : /\ j \in Parents[c]
               /\ \A p \in Parents[c] : (IF p = j THEN state ELSE Seen(s, p)) = state}

\* _get_common_dependent_jobs_query: the children of j that wait, all of whose
\* parents are seen in the given state.
Dependents(s, j, state) ==
  {c \in Job : /\ j \in Parents[c]
               /\ Seen(s, c) = "wait_dependencies"
               /\ \A p \in Parents[c] : (IF p = j THEN state ELSE Seen(s, p)) = state}

-----------------------------------------------------------------------------
(* The runner *)

\* process_notifications: the channels learn the present state of j.
notify(j) ==
  /\ known' = CASE row[j] = "pending" -> known \cup {j}
                [] row[j] = "wait_dependencies" -> known
                [] OTHER -> known \ {j}
  /\ UNCHANGED <<row, finished, sessionVars, budgetVars>>

\* The runner starts again, or has lost its connection.
initialize_databases ==
  /\ known' = {j \in Job : row[j] = "pending"}
  /\ UNCHANGED <<row, finished, sessionVars, budgetVars>>

\* run_jobs: the UPDATE is by uuid, whatever the state has become.
set_job_enqueued(j) ==
  /\ j \in known
  /\ Sets({}, j, "enqueued")
  /\ known' = known \ {j}
  /\ UNCHANGED <<pc, jobOf, snapshot, writes, button, budgetVars>>

Performing(s, j) == pc[s] = "performing" /\ j \in jobOf[s]

\* A job without a worker that holds its lock, or one whose worker has not got it
\* yet or has lost it.
requeue_dead_jobs(j) ==
  /\ row[j] \in {"enqueued", "started"}
  /\ IF \E s \in Session : Performing(s, j)
     THEN Troubles < MaxTroubles /\ crashes' = crashes + 1
     ELSE crashes' = crashes
  /\ \E state \in {"pending", "failed"} : Sets({}, j, state)
  /\ UNCHANGED <<known, pc, jobOf, snapshot, writes, button, edits, failures>>

-----------------------------------------------------------------------------
(* Workers *)

\* The job runs in worker w, unless one that was taken for dead holds the lock.  Of
\* the rows it sees, it will look at the parents.
_acquire_job(w, j) ==
  /\ pc[w] = "idle"
  /\ row[j] = "enqueued"
  /\ Sets({w}, j, "started")
  /\ \/ /\ pc' = [pc EXCEPT ![w] = "performing"]
        /\ jobOf' = [jobOf EXCEPT ![w] = {j}]
        /\ snapshot' = [snapshot EXCEPT ![w] =
             [c \in Job |-> IF c \in Parents[j] THEN row[c] ELSE Created[c]]]
     \/ /\ \E t \in Session : Performing(t, j)
        /\ UNCHANGED <<pc, jobOf, snapshot>>
  /\ UNCHANGED <<known, writes, button, budgetVars>>

\* _try_perform_job commits the job as done; dependents come next.
perform_done(w) ==
  \E j \in jobOf[w] \ changed[w] :
    /\ pc[w] = "performing"
    /\ Sets({w}, j, "done")
    /\ pc' = [pc EXCEPT ![w] = "dependents"]
    /\ UNCHANGED <<known, jobOf, snapshot, writes, button, budgetVars>>

\* What follows a failure is stored by a transaction of its own, even when the job
\* has failed because the runner has taken it from the worker.
Stores(w, j, state) ==
  /\ pc[w] = "performing"
  /\ IF j \in changed[w] THEN failures' = failures
     ELSE Troubles < MaxTroubles /\ failures' = failures + 1
  /\ Sets({w}, j, state)
  /\ Ends(w)
  /\ UNCHANGED <<known, edits, crashes>>

\* The job is postponed; set_pending looks at the parents that it has loaded.
retry_postpone(w) ==
  \E j \in jobOf[w] :
    Stores(w, j, IF \E p \in Parents[j] : snapshot[w][p] # "done"
                 THEN "wait_dependencies" ELSE "pending")

\* The job fails: nothing happens to its dependents.
perform_failed(w) == \E j \in jobOf[w] : Stores(w, j, "failed")

enqueue_dependent_jobs_mutant(w) ==  \* no commit before, the old snapshot stays
  /\ pc[w] = "dependents"
  /\ pc' = [pc EXCEPT ![w] = "updating"]
  /\ UNCHANGED <<rowVars, jobOf, snapshot, changed, writes, button, budgetVars>>

\* _enqueue_dependent_jobs: the UPDATE takes the snapshot of the transaction.
enqueue_dependent_jobs(w) ==
  /\ pc[w] = "dependents"
  /\ Begins(w, "updating", jobOf[w], button[w])
  /\ UNCHANGED budgetVars

\* enqueue_waiting: the UPDATE of the dependents.
enqueue_waiting(w) ==
  \E j \in jobOf[w] :
    LET S == Dependents(w, j, "done")
    IN /\ pc[w] = "updating"
       /\ ~Waits({w}, S)
       /\ S \cap changed[w] = {}
       /\ writes' = [writes EXCEPT ![w] = [c \in Job |-> IF c \in S THEN "pending" ELSE @[c]]]
       /\ pc' = [pc EXCEPT ![w] = "committing"]
       /\ UNCHANGED <<rowVars, jobOf, snapshot, changed, button, budgetVars>>

\* The UPDATE fails on a row that another session has committed.  The tries of
\* _enqueue_dependent_jobs roll back to a savepoint, so that each sees the same
\* snapshot and fails again; the request ends with the error.
enqueue_waiting_failed(w) ==
  \E j \in jobOf[w] :
    /\ pc[w] = "updating"
    /\ Fails(w, Dependents(w, j, "done"))
    /\ Rollback(w)
    /\ UNCHANGED budgetVars

\* The request ends.
commit_dependents(w) ==
  /\ pc[w] = "committing"
  /\ Commit({w}, writes[w])
  /\ Ends(w)
  /\ UNCHANGED <<known, budgetVars>>

\* The worker is killed.
crash(w) ==
  /\ pc[w] \in {"performing", "dependents", "updating", "committing"}
  /\ Troubles < MaxTroubles
  /\ crashes' = crashes + 1
  /\ Rollback(w)
  /\ UNCHANGED <<edits, failures>>

-----------------------------------------------------------------------------
(* Users: _change_job_state *)

StatesFrom(b) == IF b = "pending" THEN {"failed", "done", "cancelled"}
                 ELSE {"wait_dependencies", "pending", "enqueued", "failed"}

\* The request reads the job, in a state from which the button acts.
press(u, j, b) ==
  /\ pc[u] = "idle"
  /\ Troubles < MaxTroubles
  /\ edits' = edits + 1
  /\ row[j] \in StatesFrom(b)
  /\ Begins(u, "pressed", {j}, b)
  /\ UNCHANGED <<failures, crashes>>

\* The state the button gives to the job.
Target(u, j) ==
  IF button[u] = "pending" /\ \E p \in Parents[j] : Seen(u, p) # "done"
  THEN "wait_dependencies" ELSE button[u]

\* And the rows it updates: the job, then its dependents.
Updated(u, j) ==
  {j} \cup (IF button[u] = "pending" THEN {} ELSE Dependents(u, j, button[u]))

change_job_state(u) ==
  \E j \in jobOf[u] :
    LET S == Updated(u, j)
    IN /\ pc[u] = "pressed"
       /\ ~Waits({u}, S)
       /\ S \cap changed[u] = {}
       /\ writes' = [writes EXCEPT ![u] = [c \in Job |->
            CASE c = j -> Target(u, j)
              [] c \in S \ {j} -> IF button[u] = "done" THEN "pending" ELSE "cancelled"
              [] OTHER -> @[c]]]
       /\ pc' = [pc EXCEPT ![u] = "stored"]
       /\ UNCHANGED <<rowVars, jobOf, snapshot, changed, button, budgetVars>>

\* A serialization error: Odoo runs the request again, which finds new states.
change_job_state_failed(u) ==
  \E j \in jobOf[u] :
    /\ pc[u] = "pressed"
    /\ Fails(u, Updated(u, j))
    /\ IF row[j] \in StatesFrom(button[u])
       THEN Begins(u, "pressed", {j}, button[u])
       ELSE Rollback(u)
    /\ UNCHANGED budgetVars

commit_user(u) ==
  /\ pc[u] = "stored"
  /\ Commit({u}, writes[u])
  /\ Ends(u)
  /\ UNCHANGED <<known, budgetVars>>

-----------------------------------------------------------------------------

WorkerStep(w) ==
  \/ \E j \in Job : _acquire_job(w, j)
  \/ perform_done(w)
  \/ retry_postpone(w)
  \/ perform_failed(w)
  \/ enqueue_dependent_jobs(w)
  \/ enqueue_waiting(w)
  \/ enqueue_waiting_failed(w)
  \/ commit_dependents(w)
  \/ crash(w)

UserStep(u) ==
  \/ \E j \in Job, b \in Buttons : press(u, j, b)
  \/ change_job_state(u)
  \/ change_job_state_failed(u)
  \/ commit_user(u)

RunnerStep ==
  \/ \E j \in Job : notify(j) \/ set_job_enqueued(j) \/ requeue_dead_jobs(j)
  \/ initialize_databases

Next == \/ RunnerStep
        \/ \E s \in Session : WorkerStep(s) \/ UserStep(s)

Spec == Init /\ [][Next]_vars

-----------------------------------------------------------------------------
(* Properties *)

TypeOK ==
  /\ row \in [Job -> States]
  /\ \A j \in Job : row[j] = "wait_dependencies" => Parents[j] # {}
  /\ finished \subseteq Job /\ known \subseteq Job
  /\ pc \in [Session -> {"idle", "performing", "dependents", "updating", "committing",
                      "pressed", "stored"}]
  /\ jobOf \in [Session -> SUBSET Job]
  /\ snapshot \in [Session -> [Job -> States]]
  /\ changed \in [Session -> SUBSET Job]
  /\ writes \in [Session -> [Job -> States \cup {Unwritten}]]
  /\ button \in [Session -> {"done", "cancelled", "pending"}]
  /\ {edits, failures, crashes} \subseteq Nat

\* A job is started only after all its parents have been done, though a user
\* may have requeued them since.
StartsAfterParents ==
  \A j \in Job : row[j] = "started" => Parents[j] \subseteq finished

\* What is done or cancelled is undone by a user who requeues it, by the runner
\* that still remembers the job as pending, or by its worker that was taken for
\* dead; never by a stale read of the updates of dependents, or by a worker that
\* commits its job as done.
SettledIsKept ==
  [][\A j \in Job :
       row[j] \in {"done", "cancelled"} /\ row'[j] # row[j] =>
         \/ j \in known /\ set_job_enqueued(j)
         \/ \E s \in Session : j \in jobOf[s] /\
              \/ commit_user(s) /\ button[s] = "pending"
              \/ j \in changed[s] /\ (retry_postpone(s) \/ perform_failed(s))]_vars

\* When no request is under way, a job that waits has a parent to wait for
\* (readme/USAGE.md:100 "the dependency is resolved and the graph will continue
\* to be processed").
WaitsForAParent ==
  (\A s \in Session : pc[s] = "idle") =>
    \A j \in Job : row[j] = "wait_dependencies" => \E p \in Parents[j] : row[p] # "done"

\* The children of a job have the same parents: chains and groups make such graphs.
SiblingsShareParents ==
  \A p, c, d \in Job : p \in Parents[c] \cap Parents[d] => Parents[c] = Parents[d]

\* Two workers that do the parents of a job at once do not both miss it: without
\* users and crashes nothing is left waiting, if siblings share their parents.
\* Otherwise the UPDATE of a worker may fail on a sibling that another worker has
\* released, and leave a job that this other one has no reason to release.
WorkersMissNobody ==
  SiblingsShareParents /\ edits = 0 /\ crashes = 0 => WaitsForAParent

=============================================================================
