# Formal models of `others_addons`

The repository is a collection of Odoo 19 add-ons. Its own protocol logic is in
`queue_job`, a job queue on top of PostgreSQL: rows in a table, a job runner
that reads them and asks Odoo over HTTP to perform them, and workers that lock,
perform and store them; `queue_job_cron_jobrunner` replaces the runner by
scheduled actions. The other add-ons are smaller: an audit log that patches
ORM methods, date ranges, imports of bank statements, product brands and their
filter in the shop. This directory holds TLA+ modules of these components, the
TLC configurations that check them on small instances, and TLAPS proofs.

Paths below are relative to the root of the repository without the leading
`src/`. `PROJECT.json` maps every definition to the lines it models.

Contents: [inventory](#inventory), [modules](#modules), [runs](#runs),
[properties](#properties), [fairness](#fairness), [proofs](#proofs), [what the
code does not do](#what-the-code-does-not-do), [not modelled](#not-modelled),
[plan](#plan).

## Inventory

### Job execution: `queue_job/controllers/main.py`, `job.py`, `post_init_hook.py`
* State: rows of `queue_job` (`state`, `retry`, `eta`, `date_enqueued`,
  `max_retries`), rows of `queue_job_lock` and PostgreSQL's locks on them, the
  `Job` object in the memory of the worker that performs it.
* Operations: `_acquire_job` (select ENQUEUED `FOR UPDATE SKIP LOCKED`, `set_started`,
  commit, then lock), `_try_perform_job` (perform, `set_done`, store, commit),
  `_runjob` (retry, postpone, fail), `Job.perform`, `Job.lock`.
* Interactions: the trigger `queue_job_notify` tells the runner of every change of a
  row that matters to it; the runner enqueues and requeues rows that workers hold.
* Hard: a request may be lost, late or duplicated; a worker may be killed anywhere;
  the lock is taken in another transaction than the one that commits STARTED; an
  SQL error ends the transaction and so frees the lock before the outcome is stored.
* Correct when: no two workers perform a job at once, its work is committed at
  most once, its retries end, and it ends up done, cancelled or failed.

### Job runner: `queue_job/jobrunner/runner.py`
* State: one `ChannelManager`, the listening autocommit connection with its
  pending notifications, the threads that fire HTTP requests.
* Operations: `requeue_dead_jobs`, `process_notifications`, `run_jobs`,
  `wait_notification` in a loop; `initialize_databases` after any error.
* Hard: everything it knows of a job may be stale; the requeuing of dead jobs is
  one SQL statement whose snapshot, locks and re-checks differ.
* Correct when: it counts every active job, misses no change, forgets no pending
  job and does not disturb a job that runs.

### Channels: `queue_job/jobrunner/channels.py`
* State: for each channel a queue, a queue of jobs with an eta, the sets of running
  and failed jobs, the end of a pause; a tree from the root.
* Operations: `notify` (the row moved), `get_jobs_to_run` (a generator per channel,
  children before parents), `get_wakeup_time`, `remove_job`.
* Hard: a job is in several channels at once, "running" in one because it waits
  in the queue of the next; capacities, throttles and eta interact; a
  notification arrives while the job is on its way.
* Correct when: capacities hold for the rows and not only for the sets, slots come
  back, sequential channels keep the order, and the wakeup time leaves nobody out.

### Job dependencies: `job.py` (`enqueue_waiting`, `cancel_dependent_jobs`), `models/queue_job.py`
* State: the graph `depends_on`, the states of parents and children.
* Operations: a worker releases the children of a job in a transaction after that of the
  job; a button does both in one.
* Hard: two parents finish at once, each transaction with its snapshot.
* Correct when: a child starts after all its parents, and does not wait for nobody.

### Records of jobs: `models/queue_job.py`, `job.py`, `delay.py`, `wizards/`
* State: a record with its state, identity key, `date_done` and `date_cancelled`; the
  copy of it that a worker has in memory and writes back whole.
* Operations: creation unless an active job has the key; `set_pending`, `set_done`
  and the other transitions of `Job`; `requeue`, `button_done`, `button_cancelled` and
  their wizards; the raw SQL updates of the runner; `autovacuum`, which deletes by dates.
* Hard: no constraint keeps identity keys unique; a date outlives the state it tells of.
* Correct when: a key has one active job, and what is removed has ended.

### Delayables: `delay.py`, `models/base.py`
* State: chains, groups and graphs of jobs that are not stored yet.
* Operations: connect, delay, look an existing job up by its key.
* Hard: nested chains and groups; identity keys of some jobs of a graph. Correct
  when the stored graph orders the jobs as the expression says, and stores no child
  without its parent.

### Cron job runner: `queue_job_cron_jobrunner/models/`
* State: the rows of the jobs, the triggers (`ir.cron.trigger`) of scheduled
  actions; of each run, its job and its transaction.
* Operations: `_acquire_one_job` (`SKIP LOCKED`), `_process` (perform, store, commit, then
  `enqueue_waiting` in the transaction that acquires the next job), `_job_runner`,
  the triggers that `create` and `write` ensure, for now or for the eta.
* Hard: several runners, each with a snapshot older than the commits of the others; a
  runner is killed at `limit_time_real_cron`; SQL updates make no trigger.
* Correct when: it performs each job once, in the end, and its children after it.

### Audit rules: `auditlog/models/auditlog_rule.py`
* State: the rules in the database; in each process, the methods of the registry
  with what they captured; the registry signaling of Odoo.
* Operations: `create`, `write`, `set_to_confirmed`, `set_to_draft`, `unlink`, `_register_hook`,
  `_patch_methods`, `_revert_methods`, `_update_registry`.
* Hard: memory is not rolled back; reverting a rule goes by the flags it has now; other
  processes learn of it by a signal after the commit, if it is sent.
* Correct when: the methods of every process in sync are those of the rules.

### Audit logs: `auditlog/models/auditlog_rule.py` (`_make_create` ... `create_logs`)
* State: the log, the guard set shared along the context of nested writes.
* Hard: audited methods call audited methods, of the same records and others. Correct
  when the last line about a field tells its value.

### Date ranges: `date_range/models/`, `date_range/wizard/date_range_generator.py`
* State: the ranges of a type with dates, company and `active`; the type's
  `allow_overlap` and `active`.
* Operations: create, move, remove, archive, generate a number of ranges, generate up to
  a horizon every day. Hard: checks look at what their transaction sees; a step too few
  leaves a gap. Correct when ranges do not overlap and cover the time up to the horizon.

### Statement import: `account_statement_import_file/wizard/account_statement_import.py`
* State: statements and lines, the unique id of a line, the source of a journal.
* Operations: match a journal, complete the values, leave known transactions out, move
  the balance, create. Hard: overlapping files, two users at once, statements that are
  empty or become so. Correct when everything is imported and adds up.

### Brand filter: `website_sale_product_brand/controllers/main.py`, `website_sale_brand_filter.esm.js`
* State: the page with its list or its panels, the offset and the listeners of each
  "Show more" button, the calls under way. Hard: answers come in any order or not at all,
  while brands are published. Correct when no brand is shown twice or left out.

### Others
`queue_job_subscribe`, `product_brand`, the channel and function records of
`queue_job`, the audit trail of HTTP requests: no protocol of their own.

## Modules

| module | models |
|---|---|
| `ExclusiveExecution` | abstract: one performer of a job at a time, whose work is committed by it alone |
| `JobExecution` | independent jobs: runner, HTTP requests, workers, dead jobs, buttons |
| `Channels` | the runner's loop with the tree of channels, against rows that change |
| `JobDependencies` | graphs of jobs in workers and buttons, with their transactions |
| `JobRecords` | a record from its creation under an identity key to `autovacuum` |
| `Delayables` | chains, groups and `on_done` in the memory of a session, and their `delay` |
| `CronRunner` | the scheduled actions that perform jobs, with locks, snapshots and triggers |
| `AuditRules`, `AuditLogs` | the patched methods of each process; what they write when they nest |
| `DateRanges` | the ranges of a type, users and the scheduled task in transactions |
| `StatementImport` | users who import files at once and remove statements |
| `BrandFilter` | a page of the shop, its calls and the server |
| `JobExecution_proofs`, `CronRunner_proofs` | inductive invariants, theorems, the refinement of `ExclusiveExecution` |
| `Channels_proofs`, `JobRecords_proofs`, `AuditRules_proofs`, `DateRanges_proofs` | inductive invariants and theorems |
| `MCJobGraphs_proofs` | those of `JobDependencies` and, as the instance `Graph`, of `Delayables` |
| `MCAddons_proofs` | those of `AuditLogs`, `StatementImport` and `BrandFilter`, as the instances `Logs`, `Importing` and `Filter`; the theorems of the records, rules and ranges for their instances |
| `MCJobExecution`, `MCChannels`, `MCCronRunner`, `MCJobGraphs`, `MCAddons`, `MCJobDependencies`, `MCDelayables` | the instances that TLC checks |

`JobExecution` and `CronRunner` both implement `ExclusiveExecution`. `MCJobGraphs`
and `MCAddons` (which has `JobRecords` too) hold several components that do not act on
one another: the variable `part` says whose behaviour it is, and their properties are those of the
component, under its name. A definition whose name ends in `_mutant` is a plausible bug
of the definition after it; `PROJECT.json` names the property that finds it.

### JobExecution
An action is one committed transaction, one statement of the runner's autocommit
connection, or a change of a process's memory. `state`, `retry`, `aged`
(`date_enqueued` is ten seconds old), `lockRow` and `holder` are the database;
`pc`, `jobOf` and `tries` a worker's `runjob` and its `Job` object; `view` the set of
the channel manager that has the job; `notified` the notifications not yet read;
`http` the requests in flight.

Odoo's transactions are REPEATABLE READ. The one that matters is the transaction
in which a worker performs: its snapshot is taken by `Job.lock`, and storing DONE
fails if anybody has committed the row since. `fresh[w]` says that nobody has, and
`Commit` resets it. `_runjob` turns the failure into a retry, after the transaction
and so the lock are gone; `retry_postpone` and `set_failed` then store the outcome on
a new cursor whatever the row holds (`store_exception`).

`requeue_dead_jobs` is two actions. The evaluation of its WHERE clause takes the
statement's snapshot and locks the free lock rows (`FOR UPDATE SKIP LOCKED`); the
UPDATE may wait for a transaction that has the job's row, and
PostgreSQL then evaluates the conditions on the new version of that row alone: the
state and date are checked again, but `NOT EXISTS (SELECT 1 FROM queue_job_lock)`
keeps the answer of the snapshot. The columns of the row are computed from the new
version. A concurrency error in a query of the method is retried without
looking at `max_retries` (`perform_sql_retry`).

`crash` also stands for an outcome that cannot be stored: PostgreSQL does the same
with both. Odoo's replay of a request after a serialization error in
`_acquire_job` is a later `acquire_job` or `acquire_job_rejected`. `aborted`,
`attempts` and `effects` are history variables; the buttons that reset a job reset
them too, except that a performer that still is at work taints the new history.

### Channels
One database, and the view of one runner. Rows that are ENQUEUED or STARTED are one
state, because `notify` treats them alike. `Rank` stands for `(priority,
date_created, seq)`; the two heaps of a `ChannelQueue` are sets of which `Popped`
gives the first. A poll of the tree is one
action per job and channel (`poll_job`, `poll_end`), because the
rows change while it goes on: `set_job_enqueued` writes the row, whatever it holds
by then. A throttled channel yields one job and ends; the generator of the parent
begins when that of its children is exhausted (`PollOrder`). `wait_notification`
returns for a notification, for the wakeup time, or, when the channels ask for
none, after `select_timeout` of 60 seconds; the constant `SelectTimeout` turns the last one
off, so that the wakeup time has to do without it.

### JobDependencies
A session is a process that serves workers' requests and users' ones. It has a
snapshot, the rows that others have committed since (`changed`), and writes of its own
that it has not committed. It waits for a row that another one has written
(`Waits`), and fails when it updates a row committed since its snapshot (`Fails`). A worker
commits its job first and starts a new transaction for `enqueue_waiting`; a button
stores the job and updates its dependents in one. The five
tries of `_enqueue_dependent_jobs` roll back to a savepoint: the snapshot stays,
so each fails as the first did, and one failure stands for five.

The runner and the workers that it has lost do not look at the state of a row. `known` is
what the channels remember as pending, by the notifications read so far; `set_job_enqueued`
enqueues such a job whatever its row has become, and `requeue_dead_jobs` may take a job
from a worker that is still at it. This worker cannot commit the job as done any
more (`changed`), but stores the failure on a cursor of its own (`Stores`). Each of the two can undo
what a button has settled. The statements of the runner are transactions of their own, which
wait for a row and update what they then find (`Sets`).

### JobRecords
`delay` looks for an active job of the key, `delay_store` creates the record: two
actions, between which others may do the same. Each transition of `Job` is an
operator on the record; `store` writes every field back, from what the worker has
in memory or the user has read. `known` is again what the runner remembers: `set_job_enqueued`
is an UPDATE by uuid, which enqueues a settled record with the dates it has. `lost` is
a copy in the memory of a worker that was taken for dead and goes on, and that is stored in the
end over whatever the record is, or in a new one. `since` is the day on which the record got its
state, `revived` and `unseen` are the jobs about which the key cannot say anything,
`misdated` those about which the dates cannot.

### Delayables
The caller's calls of `chain`, `group` and `on_done` are actions that build nodes with
a `_graph` each; `delay` connects the graphs below a node (`Visited`, `Connected`) into
a graph of delayables, which is stored, found to exist, or performed at once.
`_head` and `_tail` are one recursive function, `Ends`. `declared` is a history
variable: the pairs (earlier, later) that the caller has asked for. `Leaves`,
`Intended` and `Asked` are the reference definition, the transitive order of jobs
that the docstrings promise. The caller builds no cycle (`Consistent`, a condition of
`Declare`), and calls `delay` once.
`existing` is chosen at `delay`: the keys for which the search in
`job_record_with_same_identity_key` finds a row.

### CronRunner
`at` is where a run of the scheduled action is: acquiring, performing, after its
commit, in `enqueue_waiting`. A row lock is held by the runner that performs the job and
by the one that has enqueued the child and not committed (`Locks`). `snap`, `now`
and `stale` are its REPEATABLE READ transaction: the rows and the time it sees, and the rows
committed since, which it cannot lock (`serialization_failure`). The commit of a
job includes the children that the transaction of the job before has enqueued (`Store`).
`woken` and `alarm` are the triggers; `enqueue_waiting` makes none, being raw SQL. A
retry is due later, and `set_pending` reads the parents in the snapshot.

### AuditRules and AuditLogs
A process has one transaction at a time; `patched` is its memory, which a rollback
leaves as it is. `invalidated`, `sequence` and `seen` are Odoo's `signal_changes` and
`check_signaling` (external). A call of an audited method is a frame of `stack`: `create`,
`write` and `unlink` push it, `origin` is its effect, `return` its log. `guard` is the
set in the context, shared by the outermost write and all it calls.

### DateRanges, StatementImport, BrandFilter
Dates are days and the unit of a type is a step of days. `Write` is the write with its
two constraints; `Found` is the SQL query, for which no company equals no company.
`_create_bank_statements` goes through the statements of a file, each of which sees the ones
created before it; lines known to the transaction (`snap`, `made`) are left out, and the others
keep the position of their transaction. `Total` is the sum of amounts by position. The files
are consistent (`Parsed`, of `ImportConstants`): opening balance, transactions and closing
balance of each statement agree. `Clash` is the SQL constraint
on the id, `Blocked` waits for the other user's insertion. In `BrandFilter` a list is a
count for each brand (`items`), and the order of names a `rank`; a click
makes one call for each listener of the button; `serve` is the server, on the
catalogue of that moment, `answered` what the page does with the answer.

## Runs

| run | bounds | shows |
|---|---|---|
| `job_execution` | 1 job, 2 workers, 2 requests in flight, 3 faults, 2 buttons, 4 attempts, `max_retries` 1 | locks exclude, effects once, retries end, the runner's view, `ExclusiveExecution` is implemented |
| `job_settles` | the same with 1 fault, 1 button, fair | a pending job settles |
| `channels` | 3 jobs (one depends on one of another channel), 3 channels: sequential and throttled, unlimited, root of 1; clock to 2, 1 restart, 2 edits; fair, no select timeout | slots are kept and freed, jobs flow, failures block, the wakeup time suffices |
| `job_graphs` | 4 delayables (2 with an identity key), 2 containers of up to 2 members, 1 `on_done`; 2 parents and a child, 2 sessions, 3 buttons, 2 troubles (a user's request, a failure, a worker killed or taken for dead) | the graph is the one asked for; what is settled is undone in three ways only; no early start, nobody missed |
| `cron_runner` | 2 parents and a child with an eta, 2 scheduled actions, 2 disturbances (retry, kill, requeue); fair | work once, children followed, triggers, `ExclusiveExecution` is implemented, pending jobs are performed |
| `addons` | 2 records of jobs, 1 key, 2 sessions, 2 days, a lost worker; 2 processes, 1 model, 1 method, 2 settings, 3 changes, a crash; 2 records, 2 fields of which one is never logged, 3 calls up to 2 deep; 2 users, 2 journals, 5 files, 3 imports; a user and the scheduled task, 3 ranges, 2 days, 3 transactions; 3 brands of 2 letters, pages of 1, 3 calls, a change of the catalogue | identity keys and the removal of jobs; the five components of the other add-ons |
| `job_locked_requeued`, `channels_order`, `channels_requeued_chain`, `dependencies_skew`, `delayables_nested`, `cron_children` | small | [what the code does not do](#what-the-code-does-not-do) |

Why the bounds are enough to mean something:
* One job suffices for the locks because independent jobs share nothing in
  `JobExecution` but the runner's statement; the theorems are for any number. Two
  workers and two requests are the smallest instance with a duplicate request. Three
  faults combine a lost request, a crash and an SQL error; four attempts let
  `retry` pass `max_retries` in every way. `job_execution` uses the symmetry of the
  workers, as it checks safety only.
* Three jobs are two competitors in a channel and one in its sibling that competes
  for the root; a clock of 2 has a pause and an eta that end before, at and after
  each other.
* Two parents are the smallest graph in which anybody can be overlooked, by workers
  and by scheduled actions; two disturbances have a job killed or postponed while its
  parent is requeued.
* Four delayables and two containers nest a group or chain in another, with a
  fork, a join and a job before or after the whole; the symmetry of containers and of
  delayables (with and without key) is used, as are those of sessions and of the two parents,
  since `job_graphs` checks safety only. Two troubles have a job settled by a button and requeued,
  settled while its worker is taken for dead, or killed after another one has failed; a job
  that the runner remembers and a button settles needs one.
* Two records and two sessions are what a duplicate needs; an interval of one day and
  two days have a date before and at the deadline. A session delays a job only while there is a
  record left for it.
* The files have a statement that is empty, one that becomes so, transactions repeated
  within a statement, between statements and between files, a transaction without id, two
  journals in both orders (a deadlock), no account.
* Dates begin on the day that the horizon of the first day ends at: the scheduled task comes too early
  on the first day, and generates one or two ranges on the second one, as users have created
  others before; the third is that of a user at the same time.
* Three brands in pages of one have a second and a third page; three calls have two answers
  out of order beside a lost one. Three calls of audited methods have two inner ones under
  an outer one, or one two deep.

Deadlock is not checked (`CHECK_DEADLOCK FALSE`): each system stops when its jobs are
settled, its ranges or calls made and its bounds used up.

## Properties

* `MutualExclusion`, `LocksHeld`, `PerformedIsStarted`: the locks and the row agree.
* `EffectsAtMostOnce`: for each request of a user. It exempts jobs with a performer
  that lost its lock to an SQL error: another worker may have finished the job
  by the time `_runjob` stores its retry, which then puts a done job back
  to pending. TLC finds that in a few steps without the exemption.
* `ActiveIsCounted`, `RunnerUpToDate`: the runner's view is never too small, and is
  right when there is nothing to read.
* `RetryBounded`: tries counted by `perform` and by `requeue_dead_jobs` end; the bound
  is `max_retries + 2`, because a try that dies is compared with the column
  before it is incremented, and `max_retries + 1` for jobs that may still be tried.
* `PendingSettles`, `PendingIsDispatched`, `PendingIsPerformed`: liveness.
  `PendingIsDispatched` exempts jobs behind a failed job of a sequential channel, which
  the code blocks on purpose, and behind a pause that ends after the last tick of
  the bounded clock.
* `CapacityKept`: on the rows, not on the channel's own sets.
* `SlotsAreFreed`: exempts jobs in `wait_dependencies`, which `notify` ignores.
* `JobsFlow`, `WakeupIsLater`, `SequentialBlocks`: the tree of channels.
* `SettledIsKept`, `StartsAfterParents`, `WorkersMissNobody`: graphs. The code does overwrite
  settled rows: `SettledIsKept` lists the three ways, a user who requeues, the runner
  that remembers the job as pending, its worker that was taken for dead and stores a failure,
  and excludes the others, above all a stale read in the updates of dependents and a
  worker that commits its job as done. `WorkersMissNobody` speaks of
  behaviours without users, crashes and workers taken for dead, and of graphs in which two children that have a parent
  in common have all of them in common (`SiblingsShareParents`); `dependencies_skew` shows
  what happens in others. A worker killed between its two transactions leaves children
  waiting, and no code looks for them (see the hazards in `PROJECT.json`).
* `ActiveJobsAreUnique` exempts two jobs whose sessions did not see one another (`unseen`):
  there is no constraint; and jobs that came back to the queue (`revived`): requeued, postponed,
  found dead, or enqueued by the runner after they had ended. `RemovableHasEnded` exempts the jobs
  whose dates are of another state (`misdated`): those that failed after `set_done`, those
  that the runner enqueued after they had been settled, and those that failed under a lost worker.
* `GraphIsIntended` exempts graphs in which a chain is nested at the end of a chain
  from completeness, never from soundness; `ParentsAreStored`, `DirectIsTopological`.
* `DoneOnce`, `WaitsForAParent`, `DueJobsAreAnnounced`: the cron runner. A child whose
  enqueuing was rolled back or lost waits for nobody (`stranded`); a job whose runner ended
  in an error, and a child with an eta of its own, have no trigger (`overlooked`) and are found
  the next day, which `PendingIsPerformed` shows.
* `RegistryMatchesRules`: for processes that have nothing to load. `doubt` has the models of
  transactions rolled back, confirmed rules edited or imported, rules changed in a process
  that is not up to date or dies before its signal, until the registry is loaded again.
* `LogsTellTheValues`: `unlogged` has the fields written by a write that the guard
  silences after the write it guards has ended, and those that nested calls logged
  and the outer one ends as it found them.
* `NoOverlap`: `unchecked` has the pairs that no check compares, those of two open
  transactions, of ranges that come back from the archive, of no company.
* `RunsCover`: a type without a range, whose first one is to begin after the horizon, is
  not covered (`TooEarly`): there is nothing to generate yet.
* `BalancesAddUp`, `ImportIsComplete`: hold without exception.
* `BrandsShownOnce`: while the catalogue stays (`moved`), for panels that are not
  opened again before their first answer (`doubled`).

The exceptions are history variables, set in the actions by the rule that the comment
of the property states: nothing else may violate it. Each exception is a case that the code does
get wrong. Of `stranded`, `doubt`, `unlogged`, `unchecked` and `doubled` this means that the hazard
in `PROJECT.json` that describes the case is not covered by the property, and has a note
instead: they are stated under [what the code does not do](#what-the-code-does-not-do).
`RunsCover` is about runs of the scheduled task that succeed, and `BalancesAddUp` about the arithmetic of
one import; `ImportIsComplete` is the one about two.

## Fairness

`JobExecution`, `Channels`: weak fairness of the steps of the runner's thread (its loop
has no other exit than an error, after which it begins again), of a worker within a
request (its code goes on and methods end), of the clock (`Age`, `Tick`). Strong fairness
only of `acquire_job`: a request that is not lost is served before the job has been
requeued infinitely often, that is, the server is not overloaded for ever. It is
needed because the request of a job that the runner has given up for dead after ten
seconds is refused, and a new one is sent. Nothing is fair about users,
faults, crashes and restarts, and a lost request costs a fault.

`CronRunner`: weak fairness, for each scheduled action, of its beginning or next step, and
of the time that passes. Odoo runs each active scheduled action at its interval, here a
day, whether or not there is a trigger; what has begun goes on until it ends or is killed.

Methods end with "ok", a `RetryableJobError` or an error in the fair runs; a
method that raises `ignore_retry=True` for ever is retried for ever, as documented.

## Proofs

For any sets of jobs, processes, channels, records and users, any graph, and any value
of the bounds. Each component has its own inductive invariant (`IInv`, or `LogInv`,
`FilterInv`, `ImportInv` and `DelayableInv`), which TLC has
checked on small instances first: `Init => IInv`, `IInv /\ [Next]_vars => IInv'`, and the
properties follow from it. Each action has a lemma, or each conjunct with a step per action.

`JobExecution_proofs`, from `ConstantsAssumption` (the numbers are naturals; nobody, the
runner and the workers differ):
* `TypeCorrectness`, `LocksAreHeld`, `MutuallyExclusive`, `PerformedJobsAreStarted`,
  `ActiveJobsAreCounted`, `RunnerIsUpToDate`, `CommittedAtMostOnce`, `RetriesAreBounded`;
* `ImplementsExclusiveExecution`: `Spec => ExclusiveSpec`, where the performers of
  a job are the workers whose `pc` is "performing".

`IInv` is the conjunction of `TypeOK`, `LocksHeld`,
`PerformedIsStarted`, `ActiveIsCounted`, `RunnerUpToDate` and two strengthenings:
* `AbortRecorded`: a worker that is about to store an exception still holds its
  lock, or the loss is in `aborted`. Without it nothing relates the store of an
  exception to what other workers have done.
* `CommittedIsSettled`: once the work is committed (and nothing was aborted) the row is
  DONE, the runner does not believe it pending, and no worker is performing it. This is
  why nothing starts the job again: `set_job_enqueued` does not look at the
  row, so the view has to be right.

`MutualExclusion` follows from `LocksHeld`, `EffectsAtMostOnce` from
`CommittedIsSettled`. The refinement maps each step to a step of `ExclusiveExecution` or
a stutter. `RetryBounded` has an invariant of its own above `IInv`, `RetryInv`. A
try ends with a column one above the one it began with, and so does a requeuing; what stops the sum is
that the last try of a job (`LastTry`) runs while neither the row nor the runner's view is
pending, so that nobody begins another one (`LastIsLast`). The hard case is a job that
`requeue_dead_jobs` has selected without a lock row: it can only be at its first try
(`UnacquiredIsNew`, `ScannedIsNew`).

`Channels_proofs`, from `ChannelsAssumption` (finitely many jobs and channels, distinct
ranks, and a tree: the order of polling puts a channel before its parent):
`TypeCorrectness`, `JobsFlowDown`, `FreedSlots`, `CapacitiesAreKept`, `WakeupsAreLater` and
`SequentialBlocking` (`SequentialBlocks`, about steps).
* `Path` is shown to be the least set that contains the channel and the parent of each of its
  members; that it is a line follows by well-founded descent along `PollOrder`.
* `JobsFlow` says where each job is; a step moves one job, and what it leaves is one of the five
  positions of `AtRest`, or a job on its way down in the poll.
* `CapacityKept` speaks of rows: `ActiveIsRunning` has an active row in the set of
  running jobs of all the channels on its path, `RunningBounded` counts those.
* `FailedIsKnown` and `FailureStops`: a sequential channel knows of a failed job, or counts
  it as running and will know; with a failure known nothing runs, hence `SequentialBlocks`.
* `PolledIsSettled` and `PausesAreThrottles`: what a channel asks for after its generator
  has ended lies after the time of the poll, hence `WakeupIsLater`.

`CronRunner_proofs`, from `CronConstants` (jobs are naturals, finitely many, no job is
its own parent): `TypeCorrectness`, `WorkIsDoneOnce`, `ChildrenAreFollowed`,
`AllAreAnnounced`, `ImplementsExclusiveExecution`. `DoneOnce` is not inductive: a runner acts on a
snapshot, so that one has to know that the row it locks still is what it saw. `IInv` adds
* `LocksExclude`: two transactions never lock one row;
* `SnapshotsAreFresh`: what a transaction sees of a row that nobody has committed since
  is what the row holds, and the others cannot be locked;
* `WrittenWait`, `PerformedIsNotDone`: the rows that it has locked stay as they were.

`_acquire_one_job` takes the least candidate, which exists because `<` is well-founded
on the naturals (`MinIsMember`). `ChildrenAreFollowed` needs no strengthening beyond
`IInv`: whoever makes the last parent done is about to enqueue the child (`CommitsParent`), and
whoever stops enqueuing it has committed or lost it (`LosesChildren`). `AllAreAnnounced`
supposes that there is a runner (`Cron # {}`; without one no trigger wakes anybody), and adds
what a runner knows (`Knows`): what its transaction found due is due, and it has
found every child that waits, but for those committed since or never announced.

`MCJobGraphs_proofs`, on `JobDependencies`, from `DependenciesAssumption` (`Parents` is a
function to sets of jobs): `StartedAfterParents`, `SettledIsFinal` (`SettledIsKept`, about
steps) and `NobodyLeftWaiting`.
* `Isolation`: a session has one job, its snapshot is right about what nobody has
  committed since, what it has written is such a row, which waits or is the job of its
  button, and no two sessions write one row. This is what PostgreSQL gives and
  the code relies on. `SettledIsFinal` follows (`SettledStep`): a commit writes only rows that
  wait or are its user's, a worker that finds its row settled has it in `changed`, so that it
  cannot commit it as done, and `requeue_dead_jobs` looks at the state.
* `Released`: rows and snapshots tell of jobs that have been done, what the runner
  remembers has been released once, and whoever releases
  a job has seen its parents done, or commits the last one in the same transaction.
* `NobodyIsMissed`: while nobody but the workers has acted, a done job stays done
  (`ReleasedForGood`: what the runner remembers is pending still), each job is performed by one
  worker whose commit succeeds (`PerformedAlone`), jobs with the same parents wait and are
  released together, and one whose parents are done has a worker that is going to take a
  snapshot, has one with all the parents done, or has released it. Where siblings share
  their parents a release can only fail because another worker has released all of them;
  the attempt to prove it for other graphs gave the run `dependencies_skew`.

`MCJobGraphs_proofs`, on `Delayables`, from `DelayablesAssumption` (finitely many delayables and
containers): `GraphsAreIntended`, `ParentsComeAlong`, `DirectOrder`, for containers nested to
any depth.
* `Leaves`, `Ends`, `Visited` and `Closure` are recursive functions; that each has the values that
  its definition says has to be shown. `Leaves` and `Ends` descend along a rank of the nodes, by
  which a container comes after its members (`Structure`); `Visited` and `Closure` grow until they
  are stable, which the number of nodes bounds (`Growing`). A value that contradicted the
  definition would do so at a least rank, or a least number of missing elements.
* `Closure` is shown to be the least transitive relation that contains its edges
  (`ClosureLeast`). What `_connect_graphs` builds lies below `Asked` for any nesting
  (`AskedInOrder` and `EndsOrder` give the converse): without a chain at the end of a chain,
  the heads of a node come before all its jobs and the tails after all of them.
* `Consistent`: the order asked for has no cycle, whatever is nested later; hence the built graph
  has none (`BuiltAcyclic`), on which `_topological_sort` relies. `Sorted` is the invariant of
  its loop: `depends` counts the edges of a job that are still to be resolved, and the queue has
  exactly the jobs that have none. A least job among those left out, which a finite graph
  without a cycle has, would be in the queue (`SortIsComplete`).
* `stored` is nothing or all the vertices, whatever keys exist: hence `ParentsAreStored`.

`JobRecords_proofs`, from `RecordConstants`: `TypeCorrectness`, `KeysAreUnique`,
`RemovedHasEnded`.
* `MemoryIsRecord`: a worker writes back what is in the database, since nobody else writes
  the record of a started job without taking the worker for dead, or having been taken for it.
* `LostHasItsKey`: the copy of a lost worker has the key of the record, so that storing it gives
  no active job another key.
* `KnownIsNotTaken`: what the runner remembers as pending is not enqueued or started, so that
  enqueuing it takes it from no worker.
* `SeenCameBack`: the jobs that a session found settled are active only if they have come back;
  with it a new job can meet another active one only in the ways that the property lists.
* `DatesAreOfTheState`: the dates of a record that is not `misdated` belong to its present state,
  and are the day on which it got it.

`AuditRules_proofs`, from `AuditConstants`: `TypeCorrectness`, `RegistriesMatch`. `RegistryFollows`
says which rule a registry follows in the middle of a transaction, its own or the
committed one (`InForce`), and when it need not (`Excused`). It rests on `ViewsAreRules` and
`RowsAreLocked` (transactions), and on `EditsAreQuiet`: an edit that does not invalidate the
registry and is not in doubt patches the same methods as before.

`DateRanges_proofs`, from `DateRangeConstants` (a range and a horizon have at least one
day): `TypeCorrectness`, `OverlapsAreUnchecked`, `RunsAreCovered`.
* `SeesRows`: a transaction sees the committed rows but for those changed since it began.
* `Compares`: a transaction that has written has compared its rows with those that it sees,
  and the ranges that it generated overlap with none of these, of whatever company; or it
  has written no dates. At the commit, a pair of rows that overlap is thus an old one, or
  half of it was committed meanwhile, or the comparison allowed it.
* `Largest`, `StartFollows`, `Generated`: a finite set of naturals has a maximum, the last
  date; generated ranges begin after it and follow one another, and `_generate_intervals`
  gives enough of them (`Division`) to reach the horizon. The exception of
  `RunsCover`, `TooEarly`, was found by this proof.

`MCAddons_proofs`, on `AuditLogs`, from `AuditLogConstants`: `LogsTell`, for calls nested to any
depth. `LogInv` adds to the types
* `Stacked`: a write in progress is in the guard, and has found its records; what is being created
  or removed is in no call further out;
* `Tells`: the last line about a field tells its value if no call in progress owes one
  (`Settled`), and for each outermost write in progress, as long as nothing inside it has written
  a line, it tells the value that this write has read before (`Started`). The property alone is not
  inductive, because it says nothing while an outer call has still to log.

`MCAddons_proofs`, on `BrandFilter`, from `BrandConstants` (finitely many brands, distinct ranks,
pages of at least one): `BrandsAreShownOnce`. `FilterInv` has
* `PlacesOK`: a place shows once each brand that comes before the offset of its button, each
  brand if it has no button, and nothing else; positions are cardinalities (`PositionBounds`);
* `CallsOK`: a place has one call at most, its first one, or one from the offset of a button
  that is disabled meanwhile; `ServedOK`: its answer is what the server would say now. This is
  why late and lost answers do no harm, and why a place in `doubled` is an exception.

`MCAddons_proofs`, on `StatementImport`, from `ImportConstants` (`Parsed` above):
`StatementsAddUp` and `ImportsAreComplete` (`ImportIsComplete`, about steps), for any files and any
number of users. `ImportInv` has
* `StoredOnes`: statements that are stored, seen or created have lines, and add up. A sum over the
  positions that are kept and one over those left out make the sum of all, by descent along
  the positions;
* `UserOK`: what a transaction sees is in the database, but for what was removed since it began,
  and of each triplet behind it every identified transaction was seen or created (`TripletDone`),
  and any transaction without an id created.

A behaviour of `MCAddons` or `MCJobGraphs` is one of each of its instances. The theorems above,
and those on records, rules and ranges (`KeysAreUnique`, `RemovedHasEnded`, `RegistriesMatch`,
`OverlapsAreUnchecked`, `RunsAreCovered`), are therefore stated for the properties that
`addons` and `job_graphs` check, as is `TypeCorrectness` of the two. The bounds of the records,
rules and ranges are those of the instances in `MCAddons`; their own modules have none.

Only model-checked:
* `PendingSettles`, `PendingIsDispatched`, `PendingIsPerformed`: liveness under fairness;
* what the six runs of the next section find: a counterexample is no matter of proof.

## What the code does not do

Six runs end in a counterexample, each against a sentence of the repository.
* `job_locked_requeued`: `requeue_dead_jobs` sets a job back to pending that
  a worker has just locked, for the reason given [above](#jobexecution); the
  docstring (`runner.py:282`) says that only jobs "but not locked" are. The
  work is then rolled back and done again.
* `channels_order`: `ChannelQueue.pop` (`channels.py:341`) compares the head of the queue
  only with the earliest eta. A job of a higher priority with a later eta is hidden
  behind it, and a job that ranks after it overtakes it in a sequential channel.
* `channels_requeued_chain`: `notify` (`channels.py:1057`) does nothing for
  `wait_dependencies`. A failed job that is requeued while its parent is not done
  stays among the failed, and its sequential channel stays blocked; the comment at
  `channels.py:518` says that it blocks on failed jobs.
* `dependencies_skew`: `enqueue_waiting` releases the children of a job in one UPDATE,
  which fails when another worker has released one of them since the snapshot. The
  five tries of `_enqueue_dependent_jobs` (`controllers/main.py:121`, "Automatically retry the
  typical transaction serialization errors") see the same snapshot and fail alike.
  Two workers finish p1 and p2, one child depends on both and another one on p1
  alone: that one waits for ever, though its parent is done (`readme/USAGE.md:96`).
* `delayables_nested`: `DelayableChain._head` asks its first element for its tail, and
  `_tail` its last one for its head (`delay.py:330-334`). That makes no difference for
  delayables and groups of them, but for chains: `c.on_done(chain(chain(a, b)))`
  makes b wait for c and lets a start at once (`delay.py:304`).
* `cron_children`: the cron runner acquires its next job in the transaction of
  `enqueue_waiting` (`queue_job_cron_jobrunner/models/queue_job.py:106`). A row that
  another runner has committed since cannot be locked; the error rolls the
  enqueuing back, nothing repeats it, and the child waits although its parents are done
  (`readme/USAGE.md:96`).

More, met while modelling, without a run of its own; the first ones are the exceptions
of [properties](#properties):
* `set_job_enqueued` (`runner.py:205`) is `UPDATE ... WHERE uuid=%s`: a job set to done or cancelled by
  a button after the runner read it as pending goes to enqueued and is performed. It keeps its
  `date_done` or `date_cancelled`, so that `autovacuum` may remove it before it has ended again, and may be
  active beside another job of its key, created meanwhile.
* A worker that was taken for dead stores its failure whatever the row is
  (`controllers/main.py:171`): over what a button or another worker has settled.
* `button_done` and a worker that finish the two parents of a child at the same time: each
  sees the other parent unfinished, and nobody releases the child
  (`models/queue_job.py:320`, a hazard in `PROJECT.json`).
* `delay` means to replace the generated jobs by the existing ones, but returns in the
  first turn of the loop (`delay.py:288`): only one delayable of the graph gets its existing
  record (`generated` in `Delayables`).
* Jobs of one identity key may both be active: created at once, or one of them requeued,
  postponed, found dead or enqueued after it had ended (`job.py:343`).
* `autovacuum` (`models/queue_job.py:423`) looks at dates: it removes a job that failed after
  `set_done`, with its `date_done`; children cancelled by SQL have no date and are
  never removed, nor are jobs of a channel without a record.
* A confirmed audit rule that is edited keeps the methods of a flag that was cleared, and
  the settings that the methods captured; drafting it then leaves the former patched
  (`auditlog_rule.py:303`).
* A nested write of records whose write has ended, below another write, is not
  logged (`auditlog_rule.py:470`).
* `allow_overlap`: the help (`date_range_type.py:23`) says "If set, date ranges of same type
  must not overlap"; the code allows them to overlap when it is set, as the name says.
* A type whose ranges are named by a prefix and a number cannot be generated twice by the
  scheduled task: the numbers start again and the names are taken.
* That no transaction is imported twice rests on the SQL constraint of
  `account_bank_statement_line.py`, not on the search before the creation.
* The button of the brand filter stays disabled when its call fails; a panel opened
  twice before its first answer has a button that loads each page twice.

## Not modelled

* `allow_commit` jobs and `retry_pattern` (the eta of a retry is any later time in
  `Channels`); several databases; the election of the master among several nodes
  (one `initialize_databases` stands for the change); the graceful stop.
* The configuration string of channels, automatically created channels; the lazy heap of
  `PriorityQueue`, a set in `Channels`.
* The runner's start-up in Odoo's server, views, mail, access rights, forms,
  serialization of records, the functions and channels as records.
* `delay.py`: `split`, properties, an empty `group()` (line 376), a second `delay` on nodes that share delayables.
* `queue_job_cron_jobrunner`: how often a job is retried (`JobExecution` has
  it), priorities (jobs are numbered in the order of priority and creation).
* `auditlog`: model classes that inherit from one another, the lines of relational fields, the
  records of HTTP sessions and requests and their `autovacuum`, the fast log in a run of its
  own (`LogType` is a parameter).
* `date_range`: the calendar of `rrule` and its units, the expressions for names, the
  search mixin, the domain operators.
* Statement import: the parsers of file formats, currencies, partners and the fields of a
  line that the balances do not depend on.
* `website_sale_product_brand`: the search of the shop itself, the pages of brands.
* `queue_job_subscribe`, `product_brand`: no behaviour worth a model.

## Plan

1. Done: `JobExecution`, `ExclusiveExecution`, `Channels`, `JobDependencies`, `Delayables`.
2. Done: `CronRunner` as another implementation of `ExclusiveExecution`; `JobRecords`;
   `AuditRules`, `AuditLogs`, `DateRanges`, `StatementImport`, `BrandFilter`; proofs of
   `CronRunner` and `JobDependencies`.
3. Done: proofs of `Channels`, `JobRecords`, `AuditRules` and `DateRanges`; `RetryBounded`,
   `WorkersMissNobody`, `DueJobsAreAnnounced`.
4. Done: proofs of `AuditLogs`, `BrandFilter`, `StatementImport` and `Delayables`; every invariant
   and action property of the passing runs is a theorem.
5. `ChannelQueue`: the lazy heap of `PriorityQueue` refines the set that
   `Channels` uses; `RunnerElection`: two nodes and the advisory lock of the master.

Runs are kept few: a new module shares a run with the one it refines or composes.
