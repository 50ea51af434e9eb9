------------------------------ MODULE Channels ------------------------------
(***************************************************************************)
(* The loop of the job runner with its channels: process_notifications     *)
(* brings the rows of queue_job into the tree of channels, run_jobs lets   *)
(* jobs flow from their channel down to the root, which sends them to      *)
(* Odoo, and wait_notification sleeps until something may be done.         *)
(*                                                                         *)
(* The rows are changed by the workers and the users behind the runner's   *)
(* back.  The channels do not tell ENQUEUED from STARTED: both are         *)
(* "active" here.  One database; the run loop polls the channels one job   *)
(* at a time, in the order of the generators, children first.              *)
(***************************************************************************)
EXTENDS Integers, FiniteSets

CONSTANTS
  Job,
  Rank,        \* (priority, date_created, seq) of a job, all different
  Parents,     \* the jobs a job depends on
  ChannelOf,   \* its channel
  Channel,
  Root,        \* the root channel
  Parent,      \* the channel downstream of a channel other than Root
  PollOrder,   \* number of a channel in the order of get_jobs_to_run
  Capacity,    \* 0 for an unlimited channel
  Sequential,  \* the channels that are sequential
  Throttle,    \* seconds between two jobs, 0 for none
  SelectTimeout, \* wait_notification wakes up without a wakeup time
  MaxTime,     \* bound: the clock
  MaxRestarts, \* bound: restarts of the runner
  MaxEdits     \* bound: retries of workers, dead jobs and buttons of users

ASSUME ChannelsAssumption ==
  /\ IsFiniteSet(Job)
  /\ IsFiniteSet(Channel)
  /\ Rank \in [Job -> Nat]
  /\ \A i, j \in Job : Rank[i] = Rank[j] => i = j
  /\ Parents \in [Job -> SUBSET Job]
  /\ ChannelOf \in [Job -> Channel]
  /\ Root \in Channel
  /\ Parent \in [Channel \ {Root} -> Channel]
  /\ PollOrder \in [Channel -> 1..Cardinality(Channel)]
  /\ \A c, d \in Channel : PollOrder[c] = PollOrder[d] => c = d
  /\ \A c \in Channel \ {Root} : PollOrder[c] < PollOrder[Parent[c]]
  /\ Capacity \in [Channel -> Nat]
  /\ Throttle \in [Channel -> Nat]
  /\ Sequential \subseteq {c \in Channel : Capacity[c] = 1}
  /\ SelectTimeout \in BOOLEAN
  /\ {MaxTime, MaxRestarts, MaxEdits} \subseteq Nat

States == {"wait_dependencies", "pending", "active", "failed", "done", "cancelled"}
Phases == {"notify", "poll", "wait"}

VARIABLES
  row,       \* state of the row
  rowEta,    \* eta of the row, 0 when it has none
  notified,  \* a NOTIFY for the row has not been processed
  queue,     \* ChannelQueue._queue of a channel
  etaQueue,  \* ChannelQueue._eta_queue of a channel
  running,   \* Channel._running
  failed,    \* Channel._failed
  pause,     \* Channel._pause_until
  jobEta,    \* eta of the ChannelJob, 0 when it has none
  phase,     \* where the loop of the runner is
  at,        \* PollOrder of the channel being polled, 0 for none
  pollTime,  \* the argument of get_jobs_to_run, until the loop begins again
  now,
  restarts,  \* bounded by MaxRestarts
  edits      \* bounded by MaxEdits

rowVars == <<row, rowEta, notified>>
setVars == <<queue, etaQueue, running, failed>>
channelVars == <<setVars, pause, jobEta>>
loopVars == <<phase, at, pollTime>>
vars == <<rowVars, channelVars, loopVars, now, restarts, edits>>

-----------------------------------------------------------------------------
(* The tree of channels.  A definition named ..._mutant is a plausible bug *)
(* of the one after it: PROJECT.json names the property that reveals it.   *)

\* A channel and all the channels downstream of it.
Path[c \in Channel] == IF c = Root THEN {Root} ELSE {c} \cup Path[Parent[c]]

Known(j) == \E c \in Channel : j \in queue[c] \cup etaQueue[c] \cup running[c] \cup failed[c]

has_capacity_one_more_mutant(c) ==
  /\ c \in Sequential => failed[c] = {}
  /\ Capacity[c] = 0 \/ Cardinality(running[c]) <= Capacity[c]

has_capacity_not_blocked_mutant(c) ==
  Capacity[c] = 0 \/ Cardinality(running[c]) < Capacity[c]

has_capacity(c) ==
  /\ c \in Sequential => failed[c] = {}
  /\ Capacity[c] = 0 \/ Cardinality(running[c]) < Capacity[c]

\* The jobs whose eta is past: ChannelQueue.pop makes them ordinary jobs.
Due(c) == {j \in etaQueue[c] : jobEta[j] <= pollTime}

Paused(c) == Throttle[c] # 0 /\ pollTime < pause[c]

Before(i, j) == Rank[i] < Rank[j]
EtaBefore(i, j) == \/ jobEta[i] < jobEta[j]
                   \/ jobEta[i] = jobEta[j] /\ Before(i, j)

\* What ChannelQueue.pop returns, as a set of at most one job: the first of the
\* queue, unless the channel is sequential and the first job with an eta, by
\* its eta, comes before it.
Popped(c) ==
  LET ready == queue[c] \cup Due(c)
      later == etaQueue[c] \ Due(c)
      first == {j \in ready : \A i \in ready : i # j => Before(j, i)}
      firstEta == {j \in later : \A i \in later : i # j => EtaBefore(j, i)}
  IN IF c \in Sequential /\ \E i \in first, e \in firstEta : Before(e, i)
     THEN {} ELSE first

\* get_wakeup_time: a channel asks for the end of its pause, or for its first
\* eta, and its children are asked unless it is full or paused.
Asks(c) == \A p \in Path[c] : has_capacity(p) /\ (p # c => pause[p] = 0)
WakeupTimes_mutant ==  \* the end of a pause is forgotten
  UNION {{jobEta[j] : j \in etaQueue[c]} : c \in {d \in Channel : Asks(d)}}
WakeupTimes ==
  UNION {IF pause[c] # 0 THEN {pause[c]} ELSE {jobEta[j] : j \in etaQueue[c]} :
           c \in {d \in Channel : Asks(d)}}
get_wakeup_time ==
  IF WakeupTimes = {} THEN 0
  ELSE CHOOSE t \in WakeupTimes : \A u \in WakeupTimes : t <= u

-----------------------------------------------------------------------------
(* process_notifications *)

Move_mutant(j, P, Q, R, F, eta) ==  \* the channels downstream keep the job
  LET moved(f, S) == [c \in Channel |-> IF c \in S THEN f[c] \cup {j}
                                        ELSE IF c = ChannelOf[j] THEN f[c] \ {j} ELSE f[c]]
  IN /\ queue' = moved(queue, IF eta = 0 THEN Q ELSE {})
     /\ etaQueue' = moved(etaQueue, IF eta = 0 THEN {} ELSE Q)
     /\ running' = moved(running, R)
     /\ failed' = moved(failed, F)

\* The channels once j has been taken out of those of P, put into the queue of
\* those of Q, marked running in R and failed in F.
Move(j, P, Q, R, F, eta) ==
  LET moved(f, S) == [c \in Channel |-> IF c \in S THEN f[c] \cup {j}
                                        ELSE IF c \in P THEN f[c] \ {j} ELSE f[c]]
  IN /\ queue' = moved(queue, IF eta = 0 THEN Q ELSE {})
     /\ etaQueue' = moved(etaQueue, IF eta = 0 THEN {} ELSE Q)
     /\ running' = moved(running, R)
     /\ failed' = moved(failed, F)

\* ChannelManager.notify with the row as it is now.  A job whose eta differs is
\* removed and created again, which a job with a past eta always is.
notify(j) ==
  LET c == ChannelOf[j]
      changed == rowEta[j] # jobEta[j]
      gone == Known(j) /\ changed  \* remove_job
      queued == ~gone /\ j \in queue[c] \cup etaQueue[c]
      runs == ~gone /\ j \in running[c]
      fails == ~gone /\ j \in failed[c]
  IN /\ phase = "notify"
     /\ notified[j]
     /\ notified' = [notified EXCEPT ![j] = FALSE]
     /\ jobEta' = [jobEta EXCEPT ![j] = rowEta[j]]
     /\ \/ /\ row[j] \in {"done", "cancelled"}
           /\ Move(j, Path[c], {}, {}, {}, 0)
        \/ /\ row[j] = "pending"
           /\ IF queued THEN UNCHANGED setVars
              ELSE Move(j, Path[c], {c}, {}, {}, rowEta[j])
        \/ /\ row[j] = "active"
           /\ IF runs THEN UNCHANGED setVars
              ELSE Move(j, Path[c], {}, Path[c], {}, 0)
        \/ /\ row[j] = "failed"
           /\ IF fails THEN UNCHANGED setVars
              ELSE Move(j, Path[c], {}, {}, {c}, 0)
        \/ /\ row[j] = "wait_dependencies"
           /\ IF gone THEN Move(j, Path[c], {}, {}, {}, 0) ELSE UNCHANGED setVars
     /\ UNCHANGED <<row, rowEta, pause, loopVars, now, restarts, edits>>

-----------------------------------------------------------------------------
(* run_jobs: get_jobs_to_run of every channel, children before parents *)

run_jobs ==
  /\ phase = "notify"
  /\ \A j \in Job : ~notified[j]
  /\ phase' = "poll"
  /\ at' = 1
  /\ pollTime' = now
  /\ UNCHANGED <<rowVars, channelVars, now, restarts, edits>>

Polled(c) == phase = "poll" /\ PollOrder[c] = at

Unpaused_mutant(c) == pause[c]

\* The pause of the channel is over.
Unpaused(c) == IF Throttle[c] # 0 /\ pollTime >= pause[c] THEN 0 ELSE pause[c]

\* set_no_eta on the jobs whose eta is past.
SetNoEta(c) == jobEta' = [j \in Job |-> IF j \in Due(c) THEN 0 ELSE jobEta[j]]

NextChannel_mutant(c) ==  \* the poll does not end with the root
  /\ at' = at + 1
  /\ phase' = IF c = Root THEN "wait" ELSE phase
  /\ UNCHANGED pollTime

\* The generator of the channel ends, and with that of the root run_jobs.
NextChannel(c) ==
  /\ IF c = Root THEN phase' = "wait" /\ at' = 0
                 ELSE at' = at + 1 /\ UNCHANGED phase
  /\ UNCHANGED pollTime

\* The channel yields no more: it is paused, full or has nothing to pop.
poll_end(c) ==
  /\ Polled(c)
  /\ \/ /\ Paused(c) \/ ~has_capacity(c)
        /\ UNCHANGED <<queue, etaQueue, jobEta>>
     \/ /\ ~Paused(c) /\ has_capacity(c)
        /\ Popped(c) = {}
        /\ queue' = [queue EXCEPT ![c] = @ \cup Due(c)]
        /\ etaQueue' = [etaQueue EXCEPT ![c] = @ \ Due(c)]
        /\ SetNoEta(c)
  /\ pause' = [pause EXCEPT ![c] = Unpaused(c)]
  /\ NextChannel(c)
  /\ UNCHANGED <<rowVars, running, failed, now, restarts, edits>>

\* The channel marks a job as running and yields it: to the queue of its parent,
\* or, from the root, to set_job_enqueued whatever the row holds by now.
poll_job(c) ==
  \E j \in Popped(c) :
    /\ Polled(c)
    /\ ~Paused(c)
    /\ has_capacity(c)
    /\ queue' = [d \in Channel |->
         CASE d = c -> (queue[c] \cup Due(c)) \ {j}
           [] c # Root /\ d = Parent[c] -> queue[d] \cup {j}
           [] OTHER -> queue[d]]
    /\ etaQueue' = [etaQueue EXCEPT ![c] = @ \ Due(c)]
    /\ SetNoEta(c)
    /\ running' = [running EXCEPT ![c] = @ \cup {j}]
    /\ IF c = Root THEN /\ row' = [row EXCEPT ![j] = "active"]
                        /\ notified' = [notified EXCEPT ![j] = TRUE]
                   ELSE UNCHANGED <<row, notified>>
    /\ IF Throttle[c] = 0
       THEN UNCHANGED <<pause, loopVars>>
       ELSE /\ pause' = [pause EXCEPT ![c] = pollTime + Throttle[c]]
            /\ NextChannel(c)
    /\ UNCHANGED <<rowEta, failed, now, restarts, edits>>

-----------------------------------------------------------------------------
(* wait_notification *)

\* Nothing to process: ask the channels how long to wait, then sleep until a
\* notification comes or that time is reached.
wait_notification ==
  /\ phase = "wait"
  /\ phase' = "notify"
  /\ \/ \E j \in Job : notified[j]
     \/ get_wakeup_time # 0 /\ get_wakeup_time <= now
     \/ SelectTimeout
  /\ pollTime' = 0
  /\ UNCHANGED <<rowVars, channelVars, at, now, restarts, edits>>

\* The runner starts again: remove_db, then the rows that are not done.  The
\* channels keep their pauses.
initialize_databases ==
  LET own(s) == [c \in Channel |-> {j \in Job : row[j] = s /\ ChannelOf[j] = c}]
  IN /\ restarts < MaxRestarts
     /\ restarts' = restarts + 1
     /\ queue' = [c \in Channel |-> {j \in own("pending")[c] : rowEta[j] = 0}]
     /\ etaQueue' = [c \in Channel |-> {j \in own("pending")[c] : rowEta[j] # 0}]
     /\ running' = [c \in Channel |->
                      {j \in Job : row[j] = "active" /\ c \in Path[ChannelOf[j]]}]
     /\ failed' = own("failed")
     /\ jobEta' = rowEta
     /\ notified' = [j \in Job |-> FALSE]
     /\ phase' = "notify"
     /\ at' = 0
     /\ pollTime' = 0
     /\ UNCHANGED <<row, rowEta, pause, now, edits>>

Tick ==
  /\ now < MaxTime
  /\ now' = now + 1
  /\ UNCHANGED <<rowVars, channelVars, loopVars, restarts, edits>>

-----------------------------------------------------------------------------
(* The rows: what the workers, the users and requeue_dead_jobs commit *)

Change(j, from, to) ==
  /\ row[j] \in from
  /\ row' = [row EXCEPT ![j] = to]
  /\ notified' = [notified EXCEPT ![j] = TRUE]
  /\ UNCHANGED <<channelVars, loopVars, now, restarts>>

Edit == /\ edits < MaxEdits
        /\ edits' = edits + 1

\* A worker commits the work of the job, or its failure.
set_done(j) == Change(j, {"active"}, "done") /\ UNCHANGED <<rowEta, edits>>
set_failed(j) == Edit /\ Change(j, {"active"}, "failed") /\ UNCHANGED rowEta

\* Where set_pending puts a job.
PendingState(j) == IF \E i \in Parents[j] : row[i] # "done" THEN "wait_dependencies"
                                                          ELSE "pending"

\* retry_postpone: the job comes back later.
retry_postpone(j) ==
  /\ Edit
  /\ Change(j, {"active"}, PendingState(j))
  /\ \E t \in now+1..MaxTime : rowEta' = [rowEta EXCEPT ![j] = t]

requeue_dead_jobs(j) == Edit /\ Change(j, {"active"}, "pending") /\ UNCHANGED rowEta

\* The parents of the job are done.
enqueue_waiting(j) ==
  /\ \A i \in Parents[j] : row[i] = "done"
  /\ Change(j, {"wait_dependencies"}, "pending")
  /\ UNCHANGED <<rowEta, edits>>

button_cancelled(j) ==
  Edit /\ Change(j, {"wait_dependencies", "pending", "failed"}, "cancelled") /\ UNCHANGED rowEta

requeue(j) ==
  Edit /\ Change(j, {"failed", "done", "cancelled"}, PendingState(j)) /\ UNCHANGED rowEta

-----------------------------------------------------------------------------

Init ==
  /\ row = [j \in Job |-> IF Parents[j] = {} THEN "pending" ELSE "wait_dependencies"]
  /\ rowEta \in [Job -> 0..MaxTime]
  /\ notified = [j \in Job |-> TRUE]
  /\ queue = [c \in Channel |-> {}]
  /\ etaQueue = [c \in Channel |-> {}]
  /\ running = [c \in Channel |-> {}]
  /\ failed = [c \in Channel |-> {}]
  /\ pause = [c \in Channel |-> 0]
  /\ jobEta = [j \in Job |-> 0]
  /\ phase = "notify"
  /\ at = 0
  /\ pollTime = 0
  /\ now = 0
  /\ restarts = 0
  /\ edits = 0

Poll == \E c \in Channel : poll_end(c) \/ poll_job(c)

Next ==
  \/ \E j \in Job : notify(j)
  \/ run_jobs
  \/ Poll
  \/ wait_notification
  \/ initialize_databases
  \/ Tick
  \/ \E j \in Job : \/ set_done(j)
                    \/ set_failed(j)
                    \/ retry_postpone(j)
                    \/ requeue_dead_jobs(j)
                    \/ enqueue_waiting(j)
                    \/ button_cancelled(j)
                    \/ requeue(j)

Spec == Init /\ [][Next]_vars

\* The runner's thread goes on, time passes, and jobs end.
Fairness ==
  /\ \A j \in Job : /\ WF_vars(notify(j))
                    /\ WF_vars(set_done(j))
                    /\ WF_vars(enqueue_waiting(j))
  /\ WF_vars(run_jobs)
  /\ WF_vars(Poll)
  /\ WF_vars(wait_notification)
  /\ WF_vars(Tick)

FairSpec == Spec /\ Fairness

-----------------------------------------------------------------------------
(* Properties *)

TypeOK ==
  /\ row \in [Job -> States]
  /\ rowEta \in [Job -> Nat]
  /\ notified \in [Job -> BOOLEAN]
  /\ {queue, etaQueue, running, failed} \subseteq [Channel -> SUBSET Job]
  /\ pause \in [Channel -> Nat]
  /\ jobEta \in [Job -> Nat]
  /\ phase \in Phases
  /\ at \in 0..Cardinality(Channel)
  /\ pollTime \in Nat
  /\ now \in Nat
  /\ restarts \in Nat
  /\ edits \in Nat

In(j, c) == j \in queue[c] \cup etaQueue[c] \cup running[c] \cup failed[c]

\* A job flows: it is in at most one set of each channel, "running" all the way
\* down from its own channel, then waiting in the queue of at most one channel
\* ("'running' means enqueued in the downstream channel", channels.py:393).
JobsFlow ==
  \A j \in Job, c \in Channel :
    /\ {j} \cap queue[c] \cap (etaQueue[c] \cup running[c] \cup failed[c]) = {}
    /\ {j} \cap etaQueue[c] \cap (running[c] \cup failed[c]) = {}
    /\ {j} \cap running[c] \cap failed[c] = {}
    /\ In(j, c) => c \in Path[ChannelOf[j]]
    /\ In(j, c) /\ c # ChannelOf[j] => j \notin etaQueue[c] \cup failed[c]
    /\ c # Root /\ c \in Path[ChannelOf[j]] =>
         (j \in running[c] <=> In(j, Parent[c]))

\* The rows of the subtree of a channel that are enqueued or started never
\* exceed its capacity, through restarts, lost jobs and stale queues.
CapacityKept ==
  \A c \in Channel : Capacity[c] # 0 =>
    Cardinality({j \in Job : row[j] = "active" /\ c \in Path[ChannelOf[j]]}) <= Capacity[c]

\* A slot is free again when its job is: once every notification is processed,
\* the jobs running in the root are those enqueued or started, and those that
\* have gone back to wait_dependencies, which notify ignores (BlockedByFailures).
SlotsAreFreed ==
  \A j \in running[Root] : row[j] \in {"active", "wait_dependencies"} \/ notified[j]

\* The runner does not spin: a wakeup time that wait_notification asks for is
\* later than the poll that has just moved what was ready.
WakeupIsLater ==
  phase = "wait" => \A t \in WakeupTimes : pollTime < t

\* A job of a sequential channel is not sent while the runner knows of a failed
\* job of that channel.
SequentialBlocks ==
  [][\A i, j \in Job :
       /\ row[j] # "active" /\ row'[j] = "active"
       /\ row[i] = "failed" /\ ~notified[i]
       => ChannelOf[i] \notin Sequential \cap {ChannelOf[j]}]_vars

\* What keeps a pending job from running: a job of a sequential channel on its
\* way that has failed, or a job that the runner still counts on its way though
\* it has gone back to wait_dependencies (BlockedByFailures).
Blocked(j) ==
  \E i \in Job :
    \/ row[i] = "failed" /\ ChannelOf[i] \in Sequential \cap Path[ChannelOf[j]]
    \/ /\ row[i] = "wait_dependencies"
       /\ \E c \in Path[ChannelOf[j]] : i \in running[c] \cup failed[c]

\* A pause that ends after the bound of the clock.
BeyondClock(j) == \E c \in Path[ChannelOf[j]] : pause[c] > MaxTime

\* The wakeup times and the notifications suffice: no pending job is forgotten
\* by a runner that sleeps.
PendingIsDispatched ==
  \A j \in Job : row[j] = "pending" ~> row[j] # "pending" \/ Blocked(j) \/ BeyondClock(j)

\* channels.py:518 "a sequential queue blocks on failed jobs": once every
\* notification is processed, the jobs that block a channel are failed.
BlockedByFailures ==
  \A c \in Sequential : \A j \in failed[c] : row[j] = "failed" \/ notified[j]

\* channels.py:346 "since it's a sequential queue we wait until eta": a job of
\* a sequential channel does not overtake a waiting job that ranks before it.
SequentialOrder ==
  [][\A c \in Sequential : \A j \in running'[c] \ running[c] :
       phase = "poll" => \A i \in queue[c] \cup etaQueue[c] : ~Before(i, j)]_vars

=============================================================================
