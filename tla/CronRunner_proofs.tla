-------------------------- MODULE CronRunner_proofs --------------------------
(***************************************************************************)
(* Proofs about CronRunner, for any finite set of jobs, any graph of       *)
(* parents and any number of scheduled actions.                            *)
(***************************************************************************)
EXTENDS CronRunner, WellFoundedInduction, TLAPS

\* The row locks of two transactions are never on one job.
LocksExclude ==
  \A c, d \in Cron : c # d => Locks(c) \cap Locks(d) = {}

\* What a transaction reads of a row is what the row holds, unless another
\* transaction has committed it since.
SnapshotsAreFresh ==
  \A c \in Cron : Reading(c) => \A j \in Job \ stale[c] : snap[c][j] = state[j]

\* The row of a child that is being enqueued still waits.
WrittenWait ==
  \A c \in Cron : \A k \in wrote[c] : state[k] = "wait_dependencies"

\* The row of a job that is being performed is not done.
PerformedIsNotDone ==
  \A c \in Cron : at[c] = "perform" => state[job[c]] # "done"

\* The inductive invariant.
IInv == /\ TypeOK
        /\ LocksExclude
        /\ SnapshotsAreFresh
        /\ WrittenWait
        /\ PerformedIsNotDone
        /\ DoneOnce

-----------------------------------------------------------------------------
(* Lemmas about the definitions *)

\* The query of _acquire_one_job returns one of its candidates.
LEMMA MinIsMember == ASSUME NEW S, S \subseteq Job, S # {} PROVE Min(S) \in S
<1> DEFINE R == OpToRel(<, Nat)
<1>1. S \subseteq Nat
  BY CronConstants
<1>2. PICK m \in S : \A y \in S : ~(<<y, m>> \in R)
  <2> HIDE DEF R
  <2>1. IsWellFoundedOn(R, Nat)
    BY NatLessThanWellFounded DEF R
  <2>2. QED
    BY <2>1, <1>1, WFMin
<1>3. \A y \in S : m <= y
  <2> SUFFICES ASSUME NEW y \in S PROVE m <= y
    OBVIOUS
  <2>1. ~(y < m)
    BY <1>1, <1>2 DEF OpToRel
  <2>2. QED
    BY <2>1, <1>1
<1>4. QED
  BY <1>3 DEF Min

\* A runner that acquires a job takes one that it may lock.
LEMMA AcquiresCandidate ==
  ASSUME TypeOK, NEW c \in Cron, Candidates(c) # {}
  PROVE  /\ Min(Candidates(c)) \in Candidates(c)
         /\ Min(Candidates(c)) \in Job
<1>1. Candidates(c) \subseteq Job
  BY DEF Candidates, TypeOK
<1>2. QED
  BY <1>1, MinIsMember

\* A runner that holds a job has one.
LEMMA HasJob ==
  ASSUME TypeOK, NEW c \in Cron, at[c] \in {"perform", "committed", "enqueue"}
  PROVE  job[c] \in Job
BY DEF TypeOK

-----------------------------------------------------------------------------
(* Types *)

\* A transaction that ends, with an error or by a kill, keeps the types.
LEMMA FailureType ==
  ASSUME TypeOK, NEW c \in Cron, serialization_failure(c)
  PROVE  TypeOK'
<1>1. at' \in [Cron -> At] /\ job' \in [Cron -> Job \cup {None}]
  BY DEF TypeOK, serialization_failure, At
<1>2. snap' \in [Cron -> [Job -> States]] /\ now' \in [Cron -> SUBSET Job]
  BY DEF TypeOK, serialization_failure, Forget, NoSnap, States
<1>3. stale' \in [Cron -> SUBSET Job]
  BY DEF TypeOK, serialization_failure, Committed
<1>4. stranded' \subseteq Job /\ overlooked' \subseteq Job
  <2>1. Lost(c) \subseteq Job
    BY DEF TypeOK, Lost, Children
  <2>2. QED
    BY <2>1 DEF TypeOK, serialization_failure
<1>5. /\ wrote' \in [Cron -> SUBSET Job]
      /\ \A d \in Cron : wrote'[d] # {} => at'[d] \in {"acquire", "perform"}
      /\ \A d \in Cron : job'[d] = None => at'[d] \in {"idle", "acquire"}
  BY DEF TypeOK, serialization_failure, At
<1>6. QED
  BY <1>1, <1>2, <1>3, <1>4, <1>5 DEF TypeOK, serialization_failure, rows

\* So does the commit of a job, whatever becomes of it.
LEMMA StoreType ==
  ASSUME TypeOK, NEW c \in Cron, NEW new \in States, Store(c, new)
  PROVE  /\ state' \in [Job -> States]
         /\ at' \in [Cron -> At] /\ job' \in [Cron -> Job \cup {None}]
         /\ snap' \in [Cron -> [Job -> States]] /\ now' \in [Cron -> SUBSET Job]
         /\ wrote' \in [Cron -> SUBSET Job] /\ stale' \in [Cron -> SUBSET Job]
         /\ \A d \in Cron : wrote'[d] # {} => at'[d] \in {"acquire", "perform"}
         /\ \A d \in Cron : job'[d] = None => at'[d] \in {"idle", "acquire"}
         /\ overlooked' \subseteq Job
<1>1. job[c] \in Job
  BY HasJob DEF Store
<1>2. state' \in [Job -> States]
  BY <1>1 DEF TypeOK, Store, Enqueued, States
<1>3. snap' \in [Cron -> [Job -> States]] /\ now' \in [Cron -> SUBSET Job]
  BY DEF TypeOK, Store, Forget, NoSnap, States
<1>4. stale' \in [Cron -> SUBSET Job]
  BY <1>1 DEF TypeOK, Store, Committed
<1>5. QED
  BY <1>1, <1>2, <1>3, <1>4 DEF TypeOK, Store, At

\* Counting one more commit.
LEMMA CountType ==
  ASSUME NEW f \in [Job -> Nat], NEW j \in Job
  PROVE  [f EXCEPT ![j] = @ + 1] \in [Job -> Nat]
OBVIOUS

LEMMA InitType == Init => TypeOK
<1> SUFFICES ASSUME Init PROVE TypeOK
  OBVIOUS
<1>1. state \in [Job -> States] /\ effects \in [Job -> Nat]
  BY DEF Init, States
<1>2. snap \in [Cron -> [Job -> States]]
  BY DEF Init, NoSnap, States
<1>3. at \in [Cron -> At] /\ job \in [Cron -> Job \cup {None}]
  BY DEF Init, At
<1>4. /\ now \in [Cron -> SUBSET Job]
      /\ wrote \in [Cron -> SUBSET Job] /\ stale \in [Cron -> SUBSET Job]
  BY DEF Init
<1>5. /\ \A c \in Cron : wrote[c] # {} => at[c] \in {"acquire", "perform"}
      /\ \A c \in Cron : job[c] = None => at[c] \in {"idle", "acquire"}
  BY DEF Init
<1>6. /\ due \subseteq Job /\ alarm \subseteq Job /\ woken \subseteq Cron
      /\ stranded \subseteq Job /\ overlooked \subseteq Job
  <2>1. late \subseteq Job
    BY CronConstants
  <2>2. QED
    BY <2>1 DEF Init
<1>7. disturbances \in 0 .. MaxDisturbances
  <2>1. disturbances = 0 /\ MaxDisturbances \in Nat
    BY CronConstants DEF Init
  <2>2. QED
    BY <2>1
<1>8. QED
  BY <1>1, <1>2, <1>3, <1>4, <1>5, <1>6, <1>7 DEF TypeOK

\* Every step preserves the types.
LEMMA TypeStep == TypeOK /\ [Next]_cronVars => TypeOK'
<1> SUFFICES ASSUME TypeOK, [Next]_cronVars PROVE TypeOK'
  OBVIOUS
<1> USE CronConstants
<1>1. ASSUME NEW c \in Cron, start(c) PROVE TypeOK'
  BY <1>1 DEF TypeOK, start, Snapshot, rows, history, At
<1>2. ASSUME NEW c \in Cron, _acquire_one_job(c) PROVE TypeOK'
  <2> DEFINE j == Min(Candidates(c))
  <2>1. CASE serialization_failure(c)
    BY <2>1, FailureType
  <2>2. CASE ~Changed({j}, c)
    <3>1. j \in Job
      BY <1>2, AcquiresCandidate DEF _acquire_one_job
    <3>2. /\ at' = [at EXCEPT ![c] = "perform"] /\ job' = [job EXCEPT ![c] = j]
          /\ Keep(c, j) /\ Committed(c, {})
          /\ UNCHANGED <<rows, alarm, woken, wrote, history, disturbances>>
      BY <1>2, <2>2 DEF _acquire_one_job
    <3>3. at[c] = "acquire"
      BY <1>2 DEF _acquire_one_job
    <3> HIDE DEF j
    <3>4. snap' \in [Cron -> [Job -> States]] /\ now' \in [Cron -> SUBSET Job]
      BY <3>2 DEF TypeOK, Keep, States
    <3>5. stale' \in [Cron -> SUBSET Job]
      BY <3>2 DEF TypeOK, Committed
    <3>6. /\ \A d \in Cron : wrote'[d] # {} => at'[d] \in {"acquire", "perform"}
          /\ \A d \in Cron : job'[d] = None => at'[d] \in {"idle", "acquire"}
      BY <3>1, <3>2, <3>3 DEF TypeOK
    <3>7. at' \in [Cron -> At] /\ job' \in [Cron -> Job \cup {None}]
      BY <3>1, <3>2 DEF TypeOK, At
    <3>8. QED
      BY <3>2, <3>4, <3>5, <3>6, <3>7 DEF TypeOK, rows, history
  <2>3. QED
    BY <1>2, <2>1, <2>2 DEF _acquire_one_job
<1>3. ASSUME NEW c \in Cron, _job_runner_end(c) PROVE TypeOK'
  <2>1. state' \in [Job -> States]
    BY <1>3 DEF TypeOK, _job_runner_end, Enqueued, States
  <2>2. snap' \in [Cron -> [Job -> States]] /\ now' \in [Cron -> SUBSET Job]
    BY <1>3 DEF TypeOK, _job_runner_end, Forget, NoSnap, States
  <2>3. stale' \in [Cron -> SUBSET Job]
    BY <1>3 DEF TypeOK, _job_runner_end, Committed
  <2>4. QED
    BY <1>3, <2>1, <2>2, <2>3 DEF TypeOK, _job_runner_end, history, At
<1>4. ASSUME NEW c \in Cron, perform_done(c) PROVE TypeOK'
  <2>1. "done" \in States /\ Store(c, "done")
    BY <1>4 DEF perform_done, States
  <2>2. effects' \in [Job -> Nat]
    <3>1. job[c] \in Job
      BY <2>1, HasJob DEF Store
    <3>2. effects \in [Job -> Nat] /\ effects' = [effects EXCEPT ![job[c]] = @ + 1]
      BY <1>4 DEF TypeOK, perform_done
    <3>3. QED
      BY <3>1, <3>2, CountType, Zenon
  <2>3. QED
    BY <1>4, <2>1, <2>2, StoreType DEF TypeOK, perform_done
<1>5. ASSUME NEW c \in Cron, perform_failed(c) PROVE TypeOK'
  <2>1. "failed" \in States /\ Store(c, "failed")
    BY <1>5 DEF perform_failed, States
  <2>2. QED
    BY <1>5, <2>1, StoreType DEF TypeOK, perform_failed
<1>6. ASSUME NEW c \in Cron, perform_postponed(c) PROVE TypeOK'
  <2>1. set_pending(c) \in States /\ Store(c, set_pending(c)) /\ job[c] \in Job
    BY <1>6, HasJob DEF perform_postponed, Store, set_pending, States
  <2>2. due' \subseteq Job /\ alarm' \subseteq Job /\ woken' \subseteq Cron
    BY <1>6, <2>1 DEF TypeOK, perform_postponed, _ensure_cron_trigger
  <2>3. stranded' \subseteq Job
    BY <1>6, <2>1 DEF TypeOK, perform_postponed
  <2>4. disturbances' \in 0 .. MaxDisturbances /\ effects' = effects
    BY <1>6 DEF TypeOK, perform_postponed, Disturbed
  <2>5. QED
    BY <2>1, <2>2, <2>3, <2>4, StoreType DEF TypeOK
<1>7. ASSUME NEW c \in Cron, enqueue_waiting_begin(c) PROVE TypeOK'
  BY <1>7 DEF TypeOK, enqueue_waiting_begin, Snapshot, rows, history, At
<1>8. ASSUME NEW c \in Cron, enqueue_waiting(c) PROVE TypeOK'
  <2> DEFINE S == Children(job[c], snap[c])
  <2>1. CASE serialization_failure(c)
    BY <2>1, FailureType
  <2>2. CASE ~Changed(S, c)
    <3>1. S \subseteq Job
      BY DEF Children
    <3> HIDE DEF S
    <3>2. /\ at' = [at EXCEPT ![c] = "acquire"] /\ wrote' = [wrote EXCEPT ![c] = S]
          /\ job' = [job EXCEPT ![c] = None]
          /\ UNCHANGED <<rows, alarm, woken, snap, now, stale, history, disturbances>>
      BY <1>8, <2>2 DEF enqueue_waiting, S
    <3>3. QED
      BY <3>1, <3>2 DEF TypeOK, rows, history, At
  <2>3. QED
    BY <1>8, <2>1, <2>2 DEF enqueue_waiting
<1>9. ASSUME NEW c \in Cron, kill(c) PROVE TypeOK'
  <2>1. snap' \in [Cron -> [Job -> States]] /\ now' \in [Cron -> SUBSET Job]
    BY <1>9 DEF TypeOK, kill, Forget, NoSnap, States
  <2>2. stale' \in [Cron -> SUBSET Job]
    BY <1>9 DEF TypeOK, kill, Committed
  <2>3. stranded' \subseteq Job
    BY <1>9 DEF TypeOK, kill, Lost, Children
  <2>4. disturbances' \in 0 .. MaxDisturbances
    BY <1>9 DEF TypeOK, kill, Disturbed
  <2>5. QED
    BY <1>9, <2>1, <2>2, <2>3, <2>4 DEF TypeOK, kill, rows, At
<1>10. ASSUME NEW j \in Job, tick(j) PROVE TypeOK'
  BY <1>10 DEF TypeOK, tick, session
<1>11. ASSUME NEW j \in Job, requeue(j) PROVE TypeOK'
  <2>1. state' \in [Job -> States] /\ effects' \in [Job -> Nat]
    BY <1>11 DEF TypeOK, requeue, States
  <2>2. alarm' \subseteq Job /\ woken' \subseteq Cron
    BY <1>11 DEF TypeOK, requeue, _ensure_cron_trigger
  <2>3. stale' \in [Cron -> SUBSET Job] /\ disturbances' \in 0 .. MaxDisturbances
    BY <1>11 DEF TypeOK, requeue, Disturbed
  <2>4. QED
    BY <1>11, <2>1, <2>2, <2>3 DEF TypeOK, requeue, history
<1>12. CASE UNCHANGED cronVars
  BY <1>12 DEF TypeOK, cronVars
<1>13. QED
  BY <1>1, <1>2, <1>3, <1>4, <1>5, <1>6, <1>7, <1>8, <1>9, <1>10, <1>11, <1>12 DEF Next, Step

-----------------------------------------------------------------------------
(* Steps that leave the rows alone, and commits *)

\* The locks, the snapshots and the rows that a step of c leaves to the others.
Others(c) ==
  \A d \in Cron \ {c} : /\ at'[d] = at[d] /\ job'[d] = job[d] /\ wrote'[d] = wrote[d]
                        /\ snap'[d] = snap[d]

\* A runner that gives up its locks and commits nothing keeps the invariant.
LEMMA Releases ==
  ASSUME IInv, TypeOK', NEW c \in Cron, Others(c),
         at'[c] = "idle", wrote'[c] = {}, Committed(c, {}),
         UNCHANGED <<state, effects>>
  PROVE  IInv'
<1>1. /\ Locks(c)' = {} /\ \A d \in Cron \ {c} : Locks(d)' = Locks(d)
  BY DEF Others, Locks
<1>2. LocksExclude'
  BY <1>1 DEF IInv, LocksExclude
<1>3. SnapshotsAreFresh'
  BY DEF IInv, TypeOK, SnapshotsAreFresh, Reading, Others, Committed
<1>4. WrittenWait' /\ PerformedIsNotDone' /\ DoneOnce'
  BY DEF IInv, WrittenWait, PerformedIsNotDone, DoneOnce, Others
<1>5. QED
  BY <1>2, <1>3, <1>4 DEF IInv

LEMMA FailureReleases ==
  ASSUME IInv, TypeOK', NEW c \in Cron, serialization_failure(c)
  PROVE  IInv'
<1>1. Others(c) /\ at'[c] = "idle" /\ wrote'[c] = {}
  BY DEF IInv, TypeOK, serialization_failure, Others, Forget
<1>2. Committed(c, {}) /\ UNCHANGED <<state, effects>>
  BY DEF serialization_failure, rows
<1>3. QED
  BY <1>1, <1>2, Releases

\* A runner that commits the rows that it has written, its job in the state new,
\* keeps the locks apart and the snapshots of the others right.
LEMMA Commits ==
  ASSUME IInv, TypeOK', NEW c \in Cron, NEW new \in States, Store(c, new),
         \A j \in Job \ {job[c]} : effects'[j] = effects[j],
         effects'[job[c]] = IF new = "done" THEN effects[job[c]] + 1 ELSE effects[job[c]]
  PROVE  IInv'
<1>1. Others(c) /\ at[c] = "perform" /\ at'[c] = "committed" /\ wrote'[c] = {}
  BY DEF IInv, TypeOK, Store, Others, Forget
<1>2. job[c] \in Job /\ Locks(c) = wrote[c] \cup {job[c]}
  BY <1>1, HasJob DEF IInv, Locks
<1>3. /\ \A k \in Job \ Locks(c) : state'[k] = state[k]
      /\ \A k \in wrote[c] \ {job[c]} : state'[k] = "pending"
      /\ state'[job[c]] = new
  BY <1>2 DEF IInv, TypeOK, Store, Enqueued
<1>4. \A d \in Cron \ {c} : Locks(d)' = Locks(d) /\ Locks(d) \cap Locks(c) = {}
  BY <1>1 DEF IInv, LocksExclude, Locks, Others
<1>5. Locks(c)' = {}
  BY <1>1 DEF Locks
<1>6. LocksExclude'
  BY <1>4, <1>5 DEF IInv, LocksExclude
<1>7. SnapshotsAreFresh'
  <2> SUFFICES ASSUME NEW d \in Cron, Reading(d)', NEW j \in Job, j \notin stale'[d]
               PROVE  snap'[d][j] = state'[j]
    BY DEF SnapshotsAreFresh
  <2>1. d # c /\ at'[d] = at[d] /\ snap'[d] = snap[d] /\ Reading(d)
    BY <1>1 DEF Reading, Others
  <2>2. stale'[d] = stale[d] \cup Locks(c)
    BY <1>2, <2>1 DEF IInv, TypeOK, Store, Committed
  <2>3. QED
    BY <1>3, <2>1, <2>2 DEF IInv, SnapshotsAreFresh
<1>8. WrittenWait'
  <2> SUFFICES ASSUME NEW d \in Cron, NEW k \in wrote'[d]
               PROVE  state'[k] = "wait_dependencies"
    BY DEF WrittenWait
  <2>1. d # c /\ k \in wrote[d] /\ k \in Job
    BY <1>1 DEF Others, IInv, TypeOK
  <2>2. k \notin Locks(c)
    BY <1>4, <2>1 DEF Locks
  <2>3. QED
    BY <1>3, <2>1, <2>2 DEF IInv, WrittenWait
<1>9. PerformedIsNotDone'
  <2> SUFFICES ASSUME NEW d \in Cron, at'[d] = "perform"
               PROVE  state'[job'[d]] # "done"
    BY DEF PerformedIsNotDone
  <2>1. d # c /\ at[d] = "perform" /\ job'[d] = job[d]
    BY <1>1 DEF Others
  <2>2. job[d] \in Job /\ job[d] \notin Locks(c)
    BY <1>4, <2>1, HasJob DEF IInv, Locks
  <2>3. QED
    BY <1>3, <2>1, <2>2 DEF IInv, PerformedIsNotDone
<1>10. DoneOnce'
  <2> SUFFICES ASSUME NEW j \in Job
               PROVE  effects'[j] = IF state'[j] = "done" THEN 1 ELSE 0
    BY DEF DoneOnce
  <2>1. CASE j = job[c]
    <3>1. effects[j] = 0
      BY <1>1, <2>1 DEF IInv, PerformedIsNotDone, DoneOnce
    <3>2. QED
      BY <1>3, <2>1, <3>1
  <2>2. CASE j # job[c] /\ j \in wrote[c]
    BY <1>3, <2>2 DEF IInv, WrittenWait, DoneOnce
  <2>3. CASE j \notin Locks(c)
    BY <1>2, <1>3, <2>3 DEF IInv, DoneOnce
  <2>4. QED
    BY <1>2, <2>1, <2>2, <2>3
<1>11. QED
  BY <1>6, <1>7, <1>8, <1>9, <1>10 DEF IInv

-----------------------------------------------------------------------------
(* The inductive invariant *)

LEMMA InitInvariant == Init => IInv
<1> SUFFICES ASSUME Init PROVE IInv
  OBVIOUS
<1>1. \A c \in Cron : at[c] = "idle" /\ wrote[c] = {}
  BY DEF Init
<1>2. \A c \in Cron : Locks(c) = {} /\ ~Reading(c)
  BY <1>1 DEF Locks, Reading
<1>3. LocksExclude /\ SnapshotsAreFresh /\ WrittenWait /\ PerformedIsNotDone
  BY <1>1, <1>2 DEF LocksExclude, SnapshotsAreFresh, WrittenWait, PerformedIsNotDone
<1>4. DoneOnce
  BY DEF Init, DoneOnce
<1>5. QED
  BY <1>3, <1>4, InitType DEF IInv

\* A transaction that begins reads what is committed.
LEMMA Reads ==
  ASSUME IInv, TypeOK', NEW c \in Cron, NEW to \in {"acquire", "enqueue"},
         at[c] \in {"idle", "committed"}, at' = [at EXCEPT ![c] = to], Snapshot(c),
         UNCHANGED <<state, effects, job, wrote>>
  PROVE  IInv'
<1>1. wrote[c] = {}
  BY DEF IInv, TypeOK
<1>2. \A d \in Cron : Locks(d)' = Locks(d)
  BY DEF IInv, TypeOK, Locks
<1>3. LocksExclude'
  BY <1>2 DEF IInv, LocksExclude
<1>4. SnapshotsAreFresh'
  BY DEF IInv, TypeOK, SnapshotsAreFresh, Reading, Snapshot
<1>5. WrittenWait' /\ PerformedIsNotDone' /\ DoneOnce'
  BY DEF IInv, TypeOK, WrittenWait, PerformedIsNotDone, DoneOnce
<1>6. QED
  BY <1>3, <1>4, <1>5 DEF IInv

\* The job that a runner acquires is its own and not done.
LEMMA Acquires ==
  ASSUME IInv, TypeOK', NEW c \in Cron, _acquire_one_job(c)
  PROVE  IInv'
<1> DEFINE j == Min(Candidates(c))
<1>1. CASE serialization_failure(c)
  BY <1>1, FailureReleases
<1>2. CASE ~Changed({j}, c)
  <2>1. j \in Candidates(c) /\ j \in Job /\ at[c] = "acquire"
    BY AcquiresCandidate DEF _acquire_one_job, IInv
  <2>2. /\ at' = [at EXCEPT ![c] = "perform"] /\ job' = [job EXCEPT ![c] = j]
        /\ Keep(c, j) /\ Committed(c, {})
        /\ UNCHANGED <<state, effects, wrote>>
    BY <1>2 DEF _acquire_one_job, rows
  <2>3. j \notin stale[c] /\ (\A d \in Cron \ {c} : j \notin Locks(d))
        /\ (snap[c][j] = "pending" \/ j \in wrote[c])
    BY <1>2, <2>1 DEF Changed, Candidates, Unlocked
  <2> HIDE DEF j
  <2>4. state[j] # "done"
    <3>1. CASE j \in wrote[c]
      BY <3>1 DEF IInv, WrittenWait
    <3>2. CASE snap[c][j] = "pending"
      BY <2>1, <2>3, <3>2 DEF IInv, SnapshotsAreFresh, Reading
    <3>3. QED
      BY <2>3, <3>1, <3>2
  <2>5. /\ Locks(c)' = wrote[c] \cup {j} /\ Locks(c) = wrote[c]
        /\ \A d \in Cron \ {c} : Locks(d)' = Locks(d)
    BY <2>1, <2>2 DEF IInv, TypeOK, Locks
  <2>6. LocksExclude'
    <3> SUFFICES ASSUME NEW a \in Cron, NEW b \in Cron, a # b
                 PROVE  Locks(a)' \cap Locks(b)' = {}
      BY DEF LocksExclude
    <3>1. Locks(a) \cap Locks(b) = {}
      BY DEF IInv, LocksExclude
    <3>2. QED
      BY <2>3, <2>5, <3>1
  <2>7. SnapshotsAreFresh'
    <3> SUFFICES ASSUME NEW d \in Cron, Reading(d)', NEW k \in Job, k \notin stale'[d]
                 PROVE  snap'[d][k] = state'[k]
      BY DEF SnapshotsAreFresh
    <3>1. d # c /\ Reading(d) /\ snap'[d] = snap[d] /\ stale'[d] = stale[d]
      BY <2>2 DEF IInv, TypeOK, Reading, Keep, Committed
    <3>2. QED
      BY <2>2, <3>1 DEF IInv, SnapshotsAreFresh
  <2>8. PerformedIsNotDone'
    BY <2>2, <2>4 DEF IInv, TypeOK, PerformedIsNotDone
  <2>9. WrittenWait' /\ DoneOnce'
    BY <2>2 DEF IInv, WrittenWait, DoneOnce
  <2>10. QED
    BY <2>6, <2>7, <2>8, <2>9 DEF IInv
<1>3. QED
  BY <1>1, <1>2 DEF _acquire_one_job

\* The rows of the children that a runner enqueues are free and wait.
LEMMA Enqueuing ==
  ASSUME IInv, TypeOK', NEW c \in Cron, enqueue_waiting(c)
  PROVE  IInv'
<1> DEFINE S == Children(job[c], snap[c])
<1>1. CASE serialization_failure(c)
  BY <1>1, FailureReleases
<1>2. CASE ~Changed(S, c)
  <2>1. /\ at[c] = "enqueue" /\ \A k \in S : \A d \in Cron \ {c} : k \notin Locks(d)
        /\ at' = [at EXCEPT ![c] = "acquire"] /\ wrote' = [wrote EXCEPT ![c] = S]
        /\ job' = [job EXCEPT ![c] = None]
        /\ UNCHANGED <<state, effects, snap, stale>>
    BY <1>2 DEF enqueue_waiting, Unlocked, rows
  <2>2. /\ S \subseteq Job /\ S \cap stale[c] = {}
        /\ \A k \in S : snap[c][k] = "wait_dependencies"
    BY <1>2 DEF Changed, Children, Ready
  <2> HIDE DEF S
  <2>3. \A k \in S : state[k] = "wait_dependencies"
    BY <2>1, <2>2 DEF IInv, SnapshotsAreFresh, Reading
  <2>4. /\ Locks(c)' = S
        /\ \A d \in Cron \ {c} : Locks(d)' = Locks(d)
    BY <2>1 DEF IInv, TypeOK, Locks
  <2>5. LocksExclude'
    <3> SUFFICES ASSUME NEW a \in Cron, NEW b \in Cron, a # b
                 PROVE  Locks(a)' \cap Locks(b)' = {}
      BY DEF LocksExclude
    <3>1. Locks(a) \cap Locks(b) = {}
      BY DEF IInv, LocksExclude
    <3>2. QED
      BY <2>1, <2>4, <3>1
  <2>6. SnapshotsAreFresh'
    <3> SUFFICES ASSUME NEW d \in Cron, Reading(d)' PROVE Reading(d)
      BY <2>1 DEF IInv, SnapshotsAreFresh
    <3>1. QED
      BY <2>1 DEF IInv, TypeOK, Reading
  <2>7. WrittenWait'
    BY <2>1, <2>3 DEF IInv, TypeOK, WrittenWait
  <2>8. PerformedIsNotDone' /\ DoneOnce'
    BY <2>1 DEF IInv, TypeOK, PerformedIsNotDone, DoneOnce
  <2>9. QED
    BY <2>5, <2>6, <2>7, <2>8 DEF IInv
<1>3. QED
  BY <1>1, <1>2 DEF enqueue_waiting

\* The last transaction of a run commits the children that it has enqueued.
LEMMA Ending ==
  ASSUME IInv, TypeOK', NEW c \in Cron, _job_runner_end(c)
  PROVE  IInv'
<1>1. /\ at[c] = "acquire" /\ at'[c] = "idle" /\ wrote'[c] = {} /\ Others(c)
      /\ effects' = effects
  BY DEF IInv, TypeOK, _job_runner_end, Others, Forget
<1>2. /\ \A k \in wrote[c] : state'[k] = "pending"
      /\ \A k \in Job \ wrote[c] : state'[k] = state[k]
  BY DEF IInv, TypeOK, _job_runner_end, Enqueued
<1>3. /\ Locks(c)' = {} /\ wrote[c] \subseteq Locks(c)
      /\ \A d \in Cron \ {c} : Locks(d)' = Locks(d) /\ Locks(d) \cap wrote[c] = {}
  BY <1>1 DEF IInv, LocksExclude, Locks, Others
<1>4. LocksExclude'
  BY <1>3 DEF IInv, LocksExclude
<1>5. SnapshotsAreFresh'
  <2> SUFFICES ASSUME NEW d \in Cron, Reading(d)', NEW j \in Job, j \notin stale'[d]
               PROVE  snap'[d][j] = state'[j]
    BY DEF SnapshotsAreFresh
  <2>1. d # c /\ snap'[d] = snap[d] /\ Reading(d)
    BY <1>1 DEF Reading, Others
  <2>2. stale'[d] = stale[d] \cup wrote[c]
    BY <2>1 DEF _job_runner_end, Committed
  <2>3. QED
    BY <1>2, <2>1, <2>2 DEF IInv, SnapshotsAreFresh
<1>6. WrittenWait'
  <2> SUFFICES ASSUME NEW d \in Cron, NEW k \in wrote'[d]
               PROVE  state'[k] = "wait_dependencies"
    BY DEF WrittenWait
  <2>1. d # c /\ k \in wrote[d] /\ k \in Job
    BY <1>1 DEF Others, IInv, TypeOK
  <2>2. k \notin wrote[c]
    BY <1>3, <2>1 DEF Locks
  <2>3. QED
    BY <1>2, <2>1, <2>2 DEF IInv, WrittenWait
<1>7. PerformedIsNotDone'
  <2> SUFFICES ASSUME NEW d \in Cron, at'[d] = "perform"
               PROVE  state'[job'[d]] # "done"
    BY DEF PerformedIsNotDone
  <2>1. d # c /\ at[d] = "perform" /\ job'[d] = job[d]
    BY <1>1 DEF Others
  <2>2. job[d] \in Job /\ job[d] \notin wrote[c]
    BY <1>3, <2>1, HasJob DEF IInv, Locks
  <2>3. QED
    BY <1>2, <2>1, <2>2 DEF IInv, PerformedIsNotDone
<1>8. DoneOnce'
  BY <1>1, <1>2 DEF IInv, WrittenWait, DoneOnce
<1>9. QED
  BY <1>4, <1>5, <1>6, <1>7, <1>8 DEF IInv

\* A requeue changes a row that no transaction has locked.
LEMMA Requeuing ==
  ASSUME IInv, TypeOK', NEW j \in Job, requeue(j)
  PROVE  IInv'
<1>1. /\ \A c \in Cron : j \notin Locks(c)
      /\ state'[j] \in {"wait_dependencies", "pending"} /\ effects'[j] = 0
      /\ \A k \in Job \ {j} : state'[k] = state[k] /\ effects'[k] = effects[k]
      /\ UNCHANGED <<at, job, snap, wrote>>
  BY DEF IInv, TypeOK, requeue
<1>2. \A c \in Cron : Locks(c)' = Locks(c) /\ Reading(c)' = Reading(c)
  BY <1>1 DEF Locks, Reading
<1>3. LocksExclude'
  BY <1>2 DEF IInv, LocksExclude
<1>4. SnapshotsAreFresh'
  <2> SUFFICES ASSUME NEW c \in Cron, Reading(c)', NEW k \in Job, k \notin stale'[c]
               PROVE  snap'[c][k] = state'[k]
    BY DEF SnapshotsAreFresh
  <2>1. Reading(c) /\ stale'[c] = stale[c] \cup {j}
    BY <1>2 DEF requeue
  <2>2. QED
    BY <1>1, <2>1 DEF IInv, SnapshotsAreFresh
<1>5. WrittenWait'
  BY <1>1 DEF IInv, TypeOK, WrittenWait, Locks
<1>6. PerformedIsNotDone'
  <2> SUFFICES ASSUME NEW c \in Cron, at[c] = "perform" PROVE state'[job[c]] # "done"
    BY <1>1 DEF PerformedIsNotDone
  <2>1. job[c] \in Job /\ job[c] # j
    BY <1>1, HasJob DEF IInv, Locks
  <2>2. QED
    BY <1>1, <2>1 DEF IInv, PerformedIsNotDone
<1>7. DoneOnce'
  BY <1>1 DEF IInv, DoneOnce
<1>8. QED
  BY <1>3, <1>4, <1>5, <1>6, <1>7 DEF IInv

LEMMA Unchanged ==
  ASSUME IInv, TypeOK', UNCHANGED <<state, effects, session>>
  PROVE  IInv'
<1>1. \A c \in Cron : Locks(c)' = Locks(c) /\ Reading(c)' = Reading(c)
  BY DEF session, Locks, Reading
<1>2. LocksExclude' /\ SnapshotsAreFresh'
  BY <1>1 DEF IInv, LocksExclude, SnapshotsAreFresh, session
<1>3. WrittenWait' /\ PerformedIsNotDone' /\ DoneOnce'
  BY DEF IInv, WrittenWait, PerformedIsNotDone, DoneOnce, session
<1>4. QED
  BY <1>2, <1>3 DEF IInv

LEMMA InvariantStep == IInv /\ [Next]_cronVars => IInv'
<1> SUFFICES ASSUME IInv, [Next]_cronVars PROVE IInv'
  OBVIOUS
<1>0. TypeOK'
  BY TypeStep DEF IInv
<1>1. ASSUME NEW c \in Cron, start(c) PROVE IInv'
  BY <1>0, <1>1, Reads DEF start, rows
<1>2. ASSUME NEW c \in Cron, _acquire_one_job(c) PROVE IInv'
  BY <1>0, <1>2, Acquires
<1>3. ASSUME NEW c \in Cron, _job_runner_end(c) PROVE IInv'
  BY <1>0, <1>3, Ending
<1>4. ASSUME NEW c \in Cron, perform_done(c) PROVE IInv'
  <2>1. "done" \in States /\ Store(c, "done")
    BY <1>4 DEF perform_done, States
  <2>2. job[c] \in Job
    BY <2>1, HasJob DEF IInv, Store
  <2>3. /\ \A j \in Job \ {job[c]} : effects'[j] = effects[j]
        /\ effects'[job[c]] = effects[job[c]] + 1
    BY <1>4, <2>2 DEF IInv, TypeOK, perform_done
  <2>4. QED
    BY <1>0, <2>1, <2>3, Commits
<1>5. ASSUME NEW c \in Cron, perform_failed(c) PROVE IInv'
  <2>1. "failed" \in States /\ Store(c, "failed") /\ effects' = effects
    BY <1>5 DEF perform_failed, States
  <2>2. QED
    BY <1>0, <2>1, Commits
<1>6. ASSUME NEW c \in Cron, perform_postponed(c) PROVE IInv'
  <2>1. /\ set_pending(c) \in States /\ set_pending(c) # "done"
        /\ Store(c, set_pending(c)) /\ effects' = effects
    BY <1>6 DEF perform_postponed, set_pending, States
  <2>2. QED
    BY <1>0, <2>1, Commits
<1>7. ASSUME NEW c \in Cron, enqueue_waiting_begin(c) PROVE IInv'
  BY <1>0, <1>7, Reads DEF enqueue_waiting_begin, rows
<1>8. ASSUME NEW c \in Cron, enqueue_waiting(c) PROVE IInv'
  BY <1>0, <1>8, Enqueuing
<1>9. ASSUME NEW c \in Cron, kill(c) PROVE IInv'
  <2>1. Others(c) /\ at'[c] = "idle" /\ wrote'[c] = {}
    BY <1>9 DEF IInv, TypeOK, kill, Others, Forget
  <2>2. Committed(c, {}) /\ UNCHANGED <<state, effects>>
    BY <1>9 DEF kill, rows
  <2>3. QED
    BY <1>0, <2>1, <2>2, Releases
<1>10. ASSUME NEW j \in Job, tick(j) PROVE IInv'
  BY <1>0, <1>10, Unchanged DEF tick
<1>11. ASSUME NEW j \in Job, requeue(j) PROVE IInv'
  BY <1>0, <1>11, Requeuing
<1>12. CASE UNCHANGED cronVars
  BY <1>0, <1>12, Unchanged DEF cronVars, session
<1>13. QED
  BY <1>1, <1>2, <1>3, <1>4, <1>5, <1>6, <1>7, <1>8, <1>9, <1>10, <1>11, <1>12 DEF Next, Step

-----------------------------------------------------------------------------
(* Theorems *)

\* Snapshots and row locks hold together in every reachable state.
THEOREM Invariance == Spec => []IInv
BY InitInvariant, InvariantStep, PTL DEF Spec

\* Every variable keeps its type, and a runner that performs, or enqueues, has a job.
THEOREM TypeCorrectness == Spec => []TypeOK
<1>1. IInv => TypeOK
  BY DEF IInv
<1>2. QED
  BY <1>1, Invariance, PTL

\* The work of a job is committed once when its row is done, and never when it is
\* not, for any number of scheduled actions, kills and retries.
THEOREM WorkIsDoneOnce == Spec => []DoneOnce
<1>1. IInv => DoneOnce
  BY DEF IInv
<1>2. QED
  BY <1>1, Invariance, PTL

-----------------------------------------------------------------------------
(* Children *)

\* What the other runners are about to enqueue does not depend on a step of c.
LEMMA KeepsEnqueuing ==
  ASSUME NEW c \in Cron, NEW d \in Cron \ {c}, NEW k \in Job, Others(c),
         Enqueues(d, k), Ready(k, state')
  PROVE  Enqueues(d, k)'
BY DEF Others, Enqueues, Children

\* A transaction that does not commit has its children recorded.
LEMMA LosesChildren ==
  ASSUME TypeOK, WaitsForAParent, NEW c \in Cron, Others(c), state' = state,
         stranded' = stranded \cup {k \in Lost(c) : state[k] = "wait_dependencies"}
  PROVE  WaitsForAParent'
<1> SUFFICES ASSUME NEW k \in Job, k \notin stranded', Ready(k, state')
             PROVE  \E d \in Cron : Enqueues(d, k)'
  BY DEF WaitsForAParent
<1>1. PICK d \in Cron : Enqueues(d, k)
  BY DEF WaitsForAParent
<1>2. k \notin Lost(c)
  BY DEF Ready
<1>3. d # c
  BY <1>1, <1>2 DEF Enqueues, Lost
<1>4. QED
  BY <1>1, <1>3, KeepsEnqueuing

\* A runner that commits the parents of a child goes on to enqueue it.
LEMMA CommitsParent ==
  ASSUME TypeOK, WrittenWait, WaitsForAParent, NEW c \in Cron, NEW new \in States, Store(c, new),
         stranded \subseteq stranded',
         new = "wait_dependencies" /\ Misses(c, job[c]) => job[c] \in stranded'
  PROVE  WaitsForAParent'
<1> SUFFICES ASSUME NEW k \in Job, k \notin stranded', Ready(k, state')
             PROVE  \E d \in Cron : Enqueues(d, k)'
  BY DEF WaitsForAParent
<1>1. Others(c) /\ at[c] = "perform" /\ at'[c] = "committed" /\ job' = job
  BY DEF TypeOK, Store, Others, Forget
<1>2. job[c] \in Job
  BY <1>1, HasJob
<1>3. /\ state'[job[c]] = new
      /\ \A p \in Job \ {job[c]} :
            state'[p] = IF p \in wrote[c] THEN "pending" ELSE state[p]
  BY <1>2 DEF TypeOK, Store, Enqueued
<1>4. /\ state'[k] = "wait_dependencies" /\ \A p \in parents[k] : state'[p] = "done"
      /\ parents[k] \subseteq Job /\ k \notin parents[k]
  BY CronConstants DEF Ready
<1>5. CASE k = job[c]
  <2>1. \A p \in parents[k] : state[p] = "done"
    BY <1>3, <1>4, <1>5
  <2>2. PICK d \in Cron \ {c} : at[d] = "committed" /\ job[d] \in parents[k]
    BY <1>3, <1>4, <1>5, <2>1 DEF Misses
  <2>3. Enqueues(d, k)'
    BY <1>1, <2>2 DEF Enqueues, Children, Others
  <2>4. QED
    BY <2>3
<1>6. CASE k # job[c] /\ job[c] \in parents[k]
  <2>1. Enqueues(c, k)'
    BY <1>1, <1>6 DEF Enqueues, Children
  <2>2. QED
    BY <2>1
<1>7. CASE k # job[c] /\ job[c] \notin parents[k]
  <2>1. Ready(k, state) /\ k \notin wrote[c]
    BY <1>3, <1>4, <1>7 DEF Ready
  <2>2. PICK d \in Cron : Enqueues(d, k)
    BY <2>1 DEF WaitsForAParent
  <2>3. d # c
    BY <1>1, <2>1, <2>2 DEF Enqueues
  <2>4. QED
    BY <1>1, <2>2, <2>3, KeepsEnqueuing
<1>8. QED
  BY <1>5, <1>6, <1>7

LEMMA ChildrenStep ==
  ASSUME TypeOK, WrittenWait, WaitsForAParent, [Next]_cronVars
  PROVE  WaitsForAParent'
\* A step of c that leaves the rows alone, and what c itself is about to enqueue.
<1>0. ASSUME NEW c \in Cron, Others(c), state' = state, stranded' = stranded,
             \A k \in Job : Enqueues(c, k) => Enqueues(c, k)'
      PROVE  WaitsForAParent'
  <2> SUFFICES ASSUME NEW k \in Job, k \notin stranded', Ready(k, state')
               PROVE  \E d \in Cron : Enqueues(d, k)'
    BY DEF WaitsForAParent
  <2>1. PICK d \in Cron : Enqueues(d, k)
    BY <1>0 DEF WaitsForAParent
  <2>2. CASE d = c
    BY <1>0, <2>1, <2>2
  <2>3. CASE d # c
    BY <1>0, <2>1, <2>3, KeepsEnqueuing
  <2>4. QED
    BY <2>2, <2>3
<1>1. ASSUME NEW c \in Cron, start(c) PROVE WaitsForAParent'
  <2>1. Others(c) /\ state' = state /\ stranded' = stranded
    BY <1>1 DEF TypeOK, start, Others, Snapshot, rows, history
  <2>2. \A k \in Job : ~Enqueues(c, k)
    BY <1>1 DEF TypeOK, start, Enqueues
  <2>3. QED
    BY <1>0, <2>1, <2>2
<1>2. ASSUME NEW c \in Cron, serialization_failure(c) PROVE WaitsForAParent'
  <2>1. Others(c) /\ state' = state
    BY <1>2 DEF TypeOK, serialization_failure, Others, Forget, rows
  <2>2. QED
    BY <1>2, <2>1, LosesChildren DEF serialization_failure
<1>3. ASSUME NEW c \in Cron, _acquire_one_job(c) PROVE WaitsForAParent'
  <2> DEFINE j == Min(Candidates(c))
  <2>1. CASE ~Changed({j}, c)
    <3>1. /\ at[c] = "acquire" /\ wrote' = wrote
          /\ at' = [at EXCEPT ![c] = "perform"] /\ job' = [job EXCEPT ![c] = j]
          /\ Keep(c, j) /\ UNCHANGED <<rows, history>>
      BY <1>3, <2>1 DEF _acquire_one_job
    <3> HIDE DEF j
    <3>2. Others(c) /\ state' = state /\ stranded' = stranded
      BY <3>1 DEF TypeOK, Others, Keep, rows, history
    <3>3. \A k \in Job : Enqueues(c, k) => Enqueues(c, k)'
      BY <3>1 DEF Enqueues
    <3>4. QED
      BY <1>0, <3>2, <3>3
  <2>2. QED
    BY <1>2, <1>3, <2>1 DEF _acquire_one_job
<1>4. ASSUME NEW c \in Cron, _job_runner_end(c) PROVE WaitsForAParent'
  <2> SUFFICES ASSUME NEW k \in Job, k \notin stranded', Ready(k, state')
               PROVE  \E d \in Cron : Enqueues(d, k)'
    BY DEF WaitsForAParent
  <2>1. Others(c) /\ at[c] = "acquire" /\ stranded' = stranded
    BY <1>4 DEF TypeOK, _job_runner_end, Others, Forget, history
  <2>2. \A p \in Job : state'[p] = IF p \in wrote[c] THEN "pending" ELSE state[p]
    BY <1>4 DEF _job_runner_end, Enqueued
  <2>3. Ready(k, state) /\ k \notin wrote[c]
    BY <2>2, CronConstants DEF Ready
  <2>4. PICK d \in Cron : Enqueues(d, k)
    BY <2>1, <2>3 DEF WaitsForAParent
  <2>5. d # c
    BY <2>1, <2>3, <2>4 DEF Enqueues
  <2>6. QED
    BY <2>1, <2>4, <2>5, KeepsEnqueuing
<1>5. ASSUME NEW c \in Cron, perform_done(c) \/ perform_failed(c) PROVE WaitsForAParent'
  <2>1. PICK new \in {"done", "failed"} : Store(c, new) /\ stranded' = stranded
    BY <1>5 DEF perform_done, perform_failed
  <2>2. new \in States /\ new # "wait_dependencies"
    BY DEF States
  <2>3. QED
    BY <2>1, <2>2, CommitsParent
<1>6. ASSUME NEW c \in Cron, perform_postponed(c) PROVE WaitsForAParent'
  <2>1. set_pending(c) \in States /\ Store(c, set_pending(c))
    BY <1>6 DEF perform_postponed, set_pending, States
  <2>2. /\ stranded \subseteq stranded'
        /\ set_pending(c) = "wait_dependencies" /\ Misses(c, job[c])
              => job[c] \in stranded'
    BY <1>6 DEF perform_postponed
  <2>3. QED
    BY <2>1, <2>2, CommitsParent
<1>7. ASSUME NEW c \in Cron, enqueue_waiting_begin(c) PROVE WaitsForAParent'
  <2>1. /\ Others(c) /\ state' = state /\ stranded' = stranded /\ job' = job
        /\ at[c] = "committed" /\ at'[c] = "enqueue" /\ snap'[c] = state
    BY <1>7 DEF TypeOK, enqueue_waiting_begin, Others, Snapshot, rows, history
  <2>2. \A k \in Job : Enqueues(c, k) => Enqueues(c, k)'
    BY <2>1 DEF TypeOK, Enqueues, Children
  <2>3. QED
    BY <1>0, <2>1, <2>2
<1>8. ASSUME NEW c \in Cron, enqueue_waiting(c) PROVE WaitsForAParent'
  <2> DEFINE S == Children(job[c], snap[c])
  <2>1. CASE ~Changed(S, c)
    <3>1. /\ Others(c) /\ state' = state /\ stranded' = stranded
          /\ at[c] = "enqueue" /\ wrote'[c] = S
      BY <1>8, <2>1 DEF TypeOK, enqueue_waiting, Others, rows, history
    <3>2. \A k \in Job : Enqueues(c, k) => Enqueues(c, k)'
      BY <3>1 DEF TypeOK, Enqueues
    <3>3. QED
      BY <1>0, <3>1, <3>2
  <2>2. QED
    BY <1>2, <1>8, <2>1 DEF enqueue_waiting
<1>9. ASSUME NEW c \in Cron, kill(c) PROVE WaitsForAParent'
  <2>1. Others(c) /\ state' = state
    BY <1>9 DEF TypeOK, kill, Others, Forget, rows
  <2>2. QED
    BY <1>9, <2>1, LosesChildren DEF kill
<1>10. ASSUME UNCHANGED <<state, session, stranded>> PROVE WaitsForAParent'
  BY <1>10 DEF WaitsForAParent, Enqueues, Children, Ready, session
<1>11. ASSUME NEW j \in Job, requeue(j) PROVE WaitsForAParent'
  <2> SUFFICES ASSUME NEW k \in Job, k \notin stranded', Ready(k, state')
               PROVE  \E d \in Cron : Enqueues(d, k)'
    BY DEF WaitsForAParent
  <2>1. UNCHANGED <<at, job, snap, wrote, stranded>>
    BY <1>11 DEF requeue, history
  <2>2. /\ \A p \in Job \ {j} : state'[p] = state[p]
        /\ state'[j] = IF \E p \in parents[j] : state[p] # "done"
                       THEN "wait_dependencies" ELSE "pending"
    BY <1>11 DEF TypeOK, requeue
  <2>3. /\ parents[k] \subseteq Job /\ k \notin parents[k]
        /\ state'[k] = "wait_dependencies" /\ \A p \in parents[k] : state'[p] = "done"
    BY CronConstants DEF Ready
  <2>4. k # j /\ j \notin parents[k]
    BY <2>2, <2>3
  <2>5. Ready(k, state)
    BY <2>2, <2>3, <2>4 DEF Ready
  <2>6. PICK d \in Cron : Enqueues(d, k)
    BY <2>1, <2>5 DEF WaitsForAParent
  <2>7. Enqueues(d, k)'
    BY <2>1, <2>6 DEF Enqueues, Children
  <2>8. QED
    BY <2>7
<1>12. QED
  BY <1>1, <1>3, <1>4, <1>5, <1>6, <1>7, <1>8, <1>9, <1>10, <1>11
     DEF Next, Step, tick, cronVars, session, history

\* A child whose parents are done is about to be enqueued, but for those whose
\* enqueuing was lost with a transaction: whatever the graph.
THEOREM ChildrenAreFollowed == Spec => []WaitsForAParent
<1>1. Init => WaitsForAParent
  <2> SUFFICES ASSUME Init, NEW k \in Job PROVE ~Ready(k, state)
    BY DEF WaitsForAParent
  <2>1. CASE parents[k] = {}
    BY <2>1 DEF Init, Ready
  <2>2. CASE parents[k] # {}
    <3>1. PICK p \in parents[k] : p \in Job
      BY <2>2, CronConstants
    <3>2. state[p] # "done"
      BY <3>1 DEF Init
    <3>3. QED
      BY <3>2 DEF Ready
  <2>3. QED
    BY <2>1, <2>2
<1>2. IInv /\ WaitsForAParent /\ [Next]_cronVars => WaitsForAParent'
  BY ChildrenStep DEF IInv
<1>3. QED
  BY <1>1, <1>2, Invariance, PTL DEF Spec

-----------------------------------------------------------------------------
(* Announcements.  A job that comes after the snapshot of a runner has a    *)
(* trigger, unless it is a child that was due later: nobody is told of it.  *)

\* There are triggers for the arrival of jobs that are pending and not due ...
AlarmsArePending == \A j \in alarm : state[j] = "pending" /\ j \notin due

\* ... and for that of every job without parents.
RootsAreAnnounced ==
  \A j \in Job : parents[j] = {} =>
     /\ state[j] # "wait_dependencies"
     /\ state[j] = "pending" => j \in due \cup alarm

\* What a runner knows.  The job that it performs is due, and those that its
\* transaction finds due are, unless they were committed since.  It has found due all
\* those that wait, but for what was committed since and those that nobody will be
\* told of; and nobody else commits the children that it has enqueued.
Knows(c) ==
  /\ at[c] = "perform" => job[c] \in due
  /\ Reading(c) =>
       /\ now[c] \ stale[c] \subseteq due
       /\ \A j \in Job \ (stale[c] \cup overlooked) :
             state[j] = "wait_dependencies" /\ j \in due => j \in now[c]
  /\ at[c] = "acquire" => wrote[c] \cap stale[c] = {}

AInv == /\ AlarmsArePending
        /\ RootsAreAnnounced
        /\ \A c \in Cron : Knows(c)
        /\ DueJobsAreAnnounced

\* What a step of c leaves to the others, when it commits the rows S: their
\* transactions, the other rows, and what is due of them.
Spares(c, S) ==
  /\ Others(c)
  /\ \A d \in Cron \ {c} : /\ now'[d] = now[d]
                           /\ Reading(d) => stale'[d] = stale[d] \cup S
  /\ \A j \in Job \ S : state'[j] = state[j]
  /\ due' \subseteq due /\ due \ S \subseteq due'
  /\ overlooked \subseteq overlooked'

LEMMA OthersKnow ==
  ASSUME IInv, NEW c \in Cron, NEW S, S \subseteq Locks(c), Spares(c, S),
         NEW d \in Cron \ {c}, Knows(d)
  PROVE  Knows(d)'
<1>1. /\ at'[d] = at[d] /\ job'[d] = job[d] /\ wrote'[d] = wrote[d] /\ now'[d] = now[d]
      /\ Reading(d)' <=> Reading(d)
      /\ Reading(d) => stale'[d] = stale[d] \cup S
  BY DEF Spares, Others, Reading
<1>2. S \cap Locks(d) = {}
  BY DEF IInv, LocksExclude
<1>3. at[d] = "perform" => job[d] \in due'
  BY <1>2 DEF Locks, Knows, Spares
<1>4. at[d] = "acquire" => wrote[d] \cap stale'[d] = {}
  BY <1>1, <1>2 DEF Locks, Knows, Reading
<1>5. Reading(d) => now[d] \ stale'[d] \subseteq due'
  BY <1>1 DEF Knows, Spares
<1>6. ASSUME Reading(d), NEW j \in Job, j \notin stale'[d], j \notin overlooked',
             state'[j] = "wait_dependencies", j \in due'
      PROVE  j \in now[d]
  BY <1>1, <1>6 DEF Knows, Spares
<1>7. QED
  BY <1>1, <1>3, <1>4, <1>5, <1>6 DEF Knows

\* Jobs are as announced as before when those that become pending and due are seen by
\* the runner, and it does not lose sight of the others.
LEMMA StayAnnounced ==
  ASSUME DueJobsAreAnnounced, NEW c \in Cron, NEW S, Spares(c, S),
         woken # {} => woken' # {},
         \A j \in Job \ overlooked' : state'[j] = "pending" /\ j \in due' =>
            \/ woken' # {}
            \/ \E d \in Cron : Looks(d, j)'
            \/ state[j] = "pending" /\ ~Looks(c, j)
  PROVE  DueJobsAreAnnounced'
<1> SUFFICES ASSUME NEW j \in Job, j \notin overlooked', state'[j] = "pending", j \in due',
                    woken' = {}
             PROVE  \E d \in Cron : Looks(d, j)'
  BY DEF DueJobsAreAnnounced
<1>1. CASE state[j] = "pending" /\ ~Looks(c, j)
  <2>1. j \notin overlooked /\ j \in due /\ woken = {}
    BY DEF Spares
  <2>2. PICK d \in Cron : Looks(d, j)
    BY <1>1, <2>1 DEF DueJobsAreAnnounced
  <2>3. /\ d # c /\ at'[d] = at[d] /\ job'[d] = job[d] /\ wrote'[d] = wrote[d]
        /\ snap'[d] = snap[d] /\ now'[d] = now[d]
    BY <1>1, <2>2 DEF Spares, Others
  <2>4. Looks(d, j)'
    BY <2>2, <2>3 DEF Looks, Children
  <2>5. QED
    BY <2>4
<1>2. QED
  BY <1>1

\* Triggers and roots, when only rows that have no trigger are written.
LEMMA AlarmsStay ==
  ASSUME AlarmsArePending, alarm' = alarm, due' \subseteq due,
         \A j \in alarm : state'[j] = state[j]
  PROVE  AlarmsArePending'
BY DEF AlarmsArePending

LEMMA RootsStay ==
  ASSUME RootsAreAnnounced, due \subseteq due', alarm' = alarm,
         \A j \in Job : parents[j] = {} =>
            state'[j] = state[j] \/ state'[j] \in {"done", "failed"}
  PROVE  RootsAreAnnounced'
BY DEF RootsAreAnnounced

\* A transaction that ends without a commit: the jobs that are pending are overlooked,
\* or its runner is woken up again.
LEMMA GivesUp ==
  ASSUME IInv, AInv, NEW c \in Cron, Spares(c, {}), at'[c] = "idle",
         UNCHANGED <<state, due, alarm>>, woken \subseteq woken',
         woken' # {} \/ \A j \in Job : state[j] = "pending" => j \in overlooked'
  PROVE  AInv'
<1>1. AlarmsArePending' /\ RootsAreAnnounced'
  BY DEF AInv, AlarmsArePending, RootsAreAnnounced
<1>2. \A d \in Cron \ {c} : Knows(d)'
  BY OthersKnow DEF AInv
<1>3. Knows(c)'
  BY DEF Knows, Reading
<1>4. DueJobsAreAnnounced'
  BY DEF DueJobsAreAnnounced
<1>5. QED
  BY <1>1, <1>2, <1>3, <1>4 DEF AInv

LEMMA FailureGivesUp ==
  ASSUME IInv, AInv, NEW c \in Cron, serialization_failure(c)
  PROVE  AInv'
<1>1. Others(c) /\ at'[c] = "idle"
  BY DEF IInv, TypeOK, serialization_failure, Others, Forget
<1>2. \A d \in Cron \ {c} : now'[d] = now[d] /\ (Reading(d) => stale'[d] = stale[d])
  BY DEF IInv, TypeOK, serialization_failure, Forget, Committed
<1>3. UNCHANGED <<state, due, alarm, woken>>
  BY DEF serialization_failure, rows
<1>4. /\ overlooked \subseteq overlooked'
      /\ \A j \in Job : state[j] = "pending" => j \in overlooked'
  BY DEF serialization_failure
<1>5. Spares(c, {})
  BY <1>1, <1>2, <1>3, <1>4 DEF Spares
<1>6. QED
  BY <1>1, <1>3, <1>4, <1>5, GivesUp

\* A transaction that begins finds all that is due.
LEMMA ReadsAll ==
  ASSUME IInv, AInv, NEW c \in Cron, NEW to \in {"acquire", "enqueue"},
         at[c] \in {"idle", "committed"}, at' = [at EXCEPT ![c] = to], Snapshot(c),
         UNCHANGED <<state, due, alarm, job, wrote, overlooked>>
  PROVE  AInv'
<1>1. /\ Others(c) /\ at'[c] = to /\ snap'[c] = state /\ now'[c] = due /\ stale'[c] = {}
      /\ \A d \in Cron \ {c} : now'[d] = now[d] /\ stale'[d] = stale[d]
  BY DEF IInv, TypeOK, Snapshot, Others
<1>2. Spares(c, {})
  BY <1>1 DEF Spares
<1>3. AlarmsArePending' /\ RootsAreAnnounced'
  BY DEF AInv, AlarmsArePending, RootsAreAnnounced
<1>4. \A d \in Cron \ {c} : Knows(d)'
  BY <1>2, OthersKnow DEF AInv
<1>5. Knows(c)'
  BY <1>1 DEF Knows
<1>6. DueJobsAreAnnounced'
  <2>1. \A j \in Job : state'[j] = "pending" /\ j \in due' => Looks(c, j)'
    BY <1>1 DEF Looks
  <2>2. QED
    BY <2>1 DEF DueJobsAreAnnounced
<1>7. QED
  BY <1>3, <1>4, <1>5, <1>6 DEF AInv

\* A runner that acquires a job looks for others next.
LEMMA AcquiresDue ==
  ASSUME IInv, AInv, NEW c \in Cron, _acquire_one_job(c)
  PROVE  AInv'
<1> DEFINE j == Min(Candidates(c))
<1>1. CASE serialization_failure(c)
  BY <1>1, FailureGivesUp
<1>2. CASE ~Changed({j}, c)
  <2>1. j \in Candidates(c) /\ j \in Job /\ at[c] = "acquire"
    BY AcquiresCandidate DEF _acquire_one_job, IInv
  <2>2. /\ at' = [at EXCEPT ![c] = "perform"] /\ job' = [job EXCEPT ![c] = j]
        /\ Keep(c, j) /\ Committed(c, {})
        /\ UNCHANGED <<rows, alarm, woken, wrote, history>>
    BY <1>2 DEF _acquire_one_job
  <2>3. j \in due
    BY <1>2, <2>1 DEF Changed, Candidates, AInv, Knows, Reading
  <2> HIDE DEF j
  <2>4. /\ Others(c) /\ at'[c] = "perform" /\ job'[c] = j
        /\ \A d \in Cron \ {c} : now'[d] = now[d] /\ (Reading(d) => stale'[d] = stale[d])
    BY <2>2 DEF IInv, TypeOK, Others, Keep, Committed
  <2>5. Spares(c, {}) /\ UNCHANGED <<state, due, alarm, woken, overlooked>>
    BY <2>2, <2>4 DEF Spares, rows, history
  <2>6. AlarmsArePending' /\ RootsAreAnnounced'
    BY <2>5 DEF AInv, AlarmsArePending, RootsAreAnnounced
  <2>7. \A d \in Cron \ {c} : Knows(d)'
    BY <2>5, OthersKnow DEF AInv
  <2>8. Knows(c)'
    BY <2>3, <2>4, <2>5 DEF Knows, Reading
  <2>9. DueJobsAreAnnounced'
    <3>1. \A i : Looks(c, i)'
      BY <2>4 DEF Looks
    <3>2. QED
      BY <3>1 DEF DueJobsAreAnnounced
  <2>10. QED
    BY <2>6, <2>7, <2>8, <2>9 DEF AInv
<1>3. QED
  BY <1>1, <1>2 DEF _acquire_one_job

\* A runner that ends has skipped jobs that others perform; the children that it
\* commits were not due when it began, and nobody is told of them.
LEMMA EndsAnnounced ==
  ASSUME IInv, AInv, NEW c \in Cron, _job_runner_end(c)
  PROVE  AInv'
<1>1. /\ at[c] = "acquire" /\ at'[c] = "idle" /\ Others(c) /\ Candidates(c) = {}
      /\ \A d \in Cron \ {c} : /\ now'[d] = now[d]
                               /\ Reading(d) => stale'[d] = stale[d] \cup wrote[c]
      /\ UNCHANGED <<due, alarm, woken, overlooked>>
  BY DEF IInv, TypeOK, _job_runner_end, Others, Forget, Committed, history
<1>2. /\ \A j \in Job \ wrote[c] : state'[j] = state[j]
      /\ \A j \in wrote[c] : /\ j \in Job /\ state'[j] = "pending"
                             /\ state[j] = "wait_dependencies"
  BY DEF IInv, TypeOK, WrittenWait, _job_runner_end, Enqueued
<1>3. Spares(c, wrote[c]) /\ wrote[c] \subseteq Locks(c)
  BY <1>1, <1>2 DEF Spares, Locks
<1>4. AlarmsArePending'
  <2>1. \A j \in alarm : j \notin wrote[c] /\ j \in Job
    BY <1>2 DEF AInv, AlarmsArePending, IInv, TypeOK
  <2>2. QED
    BY <1>1, <1>2, <2>1 DEF AInv, AlarmsArePending
<1>5. RootsAreAnnounced'
  <2>1. \A j \in wrote[c] : parents[j] # {}
    BY <1>2 DEF AInv, RootsAreAnnounced
  <2>2. QED
    BY <1>1, <1>2, <2>1, RootsStay DEF AInv
<1>6. \A d \in Cron \ {c} : Knows(d)'
  BY <1>3, OthersKnow DEF AInv
<1>7. Knows(c)'
  BY <1>1 DEF Knows, Reading
<1>8. DueJobsAreAnnounced'
  <2> SUFFICES ASSUME NEW j \in Job, j \notin overlooked', state'[j] = "pending", j \in due'
               PROVE  \/ \E d \in Cron : Looks(d, j)'
                      \/ state[j] = "pending" /\ ~Looks(c, j)
    BY <1>1, <1>3, StayAnnounced DEF AInv
  <2>1. j \notin wrote[c]
    <3> SUFFICES ASSUME j \in wrote[c] PROVE FALSE
      OBVIOUS
    <3>1. j \in now[c]
      BY <1>1, <1>2 DEF AInv, Knows, Reading
    <3>2. Unlocked(j, c)
      BY DEF IInv, LocksExclude, Locks, Unlocked
    <3>3. QED
      BY <1>1, <3>1, <3>2 DEF Candidates
  <2>2. state[j] = "pending"
    BY <1>2, <2>1
  <2>3. CASE Looks(c, j)
    <3>1. j \in now[c] /\ snap[c][j] = "pending"
      BY <1>1, <2>1, <2>3 DEF Looks
    <3>2. PICK d \in Cron \ {c} : j \in Locks(d)
      BY <1>1, <3>1 DEF Candidates, Unlocked
    <3>3. j \notin wrote[d]
      BY <2>2 DEF IInv, WrittenWait
    <3>4. at'[d] = "perform"
      BY <1>1, <3>2, <3>3 DEF Locks, Others
    <3>5. QED
      BY <3>4 DEF Looks
  <2>4. QED
    BY <2>2, <2>3
<1>9. QED
  BY <1>4, <1>5, <1>6, <1>7, <1>8 DEF AInv

\* What a runner writes when it commits its job; it looks for others next.
LEMMA StoreSpares ==
  ASSUME IInv, AInv, NEW c \in Cron, NEW new \in States, Store(c, new),
         due' \subseteq due, due \ {job[c]} \subseteq due'
  PROVE  /\ job[c] \in Job /\ job[c] \in due
         /\ state'[job[c]] = new
         /\ \A j \in wrote[c] : /\ j \in Job /\ state[j] = "wait_dependencies"
                                /\ j # job[c] => state'[j] = "pending"
         /\ \A j \in Job \ (wrote[c] \cup {job[c]}) : state'[j] = state[j]
         /\ \A d \in Cron : Knows(d)'
         /\ DueJobsAreAnnounced'
<1>1. at[c] = "perform" /\ at'[c] = "committed" /\ Others(c) /\ overlooked' = overlooked
  BY DEF IInv, TypeOK, Store, Others, Forget
<1>2. job[c] \in Job /\ job[c] \in due
  BY <1>1, HasJob DEF IInv, AInv, Knows
<1>3. /\ state'[job[c]] = new
      /\ \A j \in wrote[c] : /\ j \in Job /\ state[j] = "wait_dependencies"
                             /\ j # job[c] => state'[j] = "pending"
      /\ \A j \in Job \ (wrote[c] \cup {job[c]}) : state'[j] = state[j]
  BY <1>2 DEF IInv, TypeOK, WrittenWait, Store, Enqueued
<1>4. \A d \in Cron \ {c} :
        now'[d] = now[d] /\ (Reading(d) => stale'[d] = stale[d] \cup Locks(c))
  BY <1>1 DEF IInv, TypeOK, Store, Forget, Committed, Locks
<1>5. Locks(c) = wrote[c] \cup {job[c]}
  BY <1>1 DEF Locks
<1>6. Spares(c, Locks(c))
  BY <1>1, <1>3, <1>4, <1>5 DEF Spares
<1>7. \A d \in Cron \ {c} : Knows(d)'
  BY <1>6, OthersKnow DEF AInv
<1>8. Knows(c)'
  BY <1>1 DEF Knows, Reading
<1>9. DueJobsAreAnnounced'
  <2>1. \A j : Looks(c, j)'
    BY <1>1 DEF Looks
  <2>2. QED
    BY <2>1 DEF DueJobsAreAnnounced
<1>10. QED
  BY <1>2, <1>3, <1>7, <1>8, <1>9

LEMMA AnnouncedStep ==
  ASSUME Cron # {}, IInv, AInv, [Next]_cronVars
  PROVE  AInv'
<1>1. ASSUME NEW c \in Cron, start(c) PROVE AInv'
  BY <1>1, ReadsAll DEF start, rows, history
<1>2. ASSUME NEW c \in Cron, _acquire_one_job(c) PROVE AInv'
  BY <1>2, AcquiresDue
<1>3. ASSUME NEW c \in Cron, _job_runner_end(c) PROVE AInv'
  BY <1>3, EndsAnnounced
<1>4. ASSUME NEW c \in Cron, perform_done(c) \/ perform_failed(c) PROVE AInv'
  <2>1. PICK new \in {"done", "failed"} : Store(c, new) /\ UNCHANGED <<due, alarm>>
    BY <1>4 DEF perform_done, perform_failed
  <2>2. new \in States /\ due' \subseteq due /\ due \ {job[c]} \subseteq due'
    BY <2>1 DEF States
  <2>3. /\ job[c] \in due /\ state'[job[c]] = new
        /\ \A j \in wrote[c] : j \in Job /\ state[j] = "wait_dependencies"
        /\ \A j \in Job \ (wrote[c] \cup {job[c]}) : state'[j] = state[j]
        /\ (\A d \in Cron : Knows(d)') /\ DueJobsAreAnnounced'
    BY <2>1, <2>2, StoreSpares
  <2>4. AlarmsArePending'
    <3>1. \A j \in alarm : j \in Job /\ j \notin wrote[c] \cup {job[c]}
      BY <2>3 DEF AInv, AlarmsArePending, IInv, TypeOK
    <3>2. QED
      BY <2>1, <2>3, <3>1, AlarmsStay DEF AInv
  <2>5. RootsAreAnnounced'
    <3>1. \A j \in wrote[c] : parents[j] # {}
      BY <2>3 DEF AInv, RootsAreAnnounced
    <3>2. \A j \in Job : parents[j] = {} =>
             state'[j] = state[j] \/ state'[j] \in {"done", "failed"}
      BY <2>3, <3>1
    <3>3. QED
      BY <2>1, <3>2, RootsStay DEF AInv
  <2>6. QED
    BY <2>3, <2>4, <2>5 DEF AInv
<1>5. ASSUME NEW c \in Cron, perform_postponed(c) PROVE AInv'
  <2> DEFINE new == set_pending(c)
  <2>1. /\ new \in {"wait_dependencies", "pending"} /\ new \in States /\ Store(c, new)
        /\ due' = due \ {job[c]}
        /\ alarm' = alarm \cup (IF new = "pending" THEN {job[c]} ELSE {})
        /\ parents[job[c]] = {} => new = "pending"
    BY <1>5 DEF perform_postponed, set_pending, _ensure_cron_trigger, States
  <2> HIDE DEF new
  <2>2. due' \subseteq due /\ due \ {job[c]} \subseteq due'
    BY <2>1
  <2>3. /\ job[c] \in due /\ job[c] \in Job /\ state'[job[c]] = new
        /\ \A j \in wrote[c] : j \in Job /\ state[j] = "wait_dependencies"
        /\ \A j \in Job \ (wrote[c] \cup {job[c]}) : state'[j] = state[j]
        /\ (\A d \in Cron : Knows(d)') /\ DueJobsAreAnnounced'
    BY <2>1, <2>2, StoreSpares
  <2>4. AlarmsArePending'
    <3>1. \A j \in alarm : j \in Job /\ j \notin wrote[c] \cup {job[c]}
      BY <2>3 DEF AInv, AlarmsArePending, IInv, TypeOK
    <3>2. QED
      BY <2>1, <2>3, <3>1 DEF AInv, AlarmsArePending
  <2>5. RootsAreAnnounced'
    <3>1. \A j \in wrote[c] : parents[j] # {}
      BY <2>3 DEF AInv, RootsAreAnnounced
    <3>2. QED
      BY <2>1, <2>3, <3>1 DEF AInv, RootsAreAnnounced
  <2>6. QED
    BY <2>3, <2>4, <2>5 DEF AInv
<1>6. ASSUME NEW c \in Cron, enqueue_waiting_begin(c) PROVE AInv'
  BY <1>6, ReadsAll DEF enqueue_waiting_begin, rows, history
<1>7. ASSUME NEW c \in Cron, enqueue_waiting(c) PROVE AInv'
  <2> DEFINE S == Children(job[c], snap[c])
  <2>1. CASE serialization_failure(c)
    BY <2>1, FailureGivesUp
  <2>2. CASE ~Changed(S, c)
    <3>1. /\ at[c] = "enqueue" /\ at'[c] = "acquire" /\ wrote'[c] = S /\ Others(c)
          /\ UNCHANGED <<state, due, alarm, woken, snap, now, stale, overlooked>>
      BY <1>7, <2>2 DEF IInv, TypeOK, enqueue_waiting, Others, rows, history
    <3>2. Spares(c, {})
      BY <3>1 DEF Spares
    <3>3. AlarmsArePending' /\ RootsAreAnnounced'
      BY <3>1 DEF AInv, AlarmsArePending, RootsAreAnnounced
    <3>4. \A d \in Cron \ {c} : Knows(d)'
      BY <3>2, OthersKnow DEF AInv
    <3>5. Knows(c)'
      BY <2>2, <3>1 DEF AInv, Knows, Reading, Changed
    <3>6. DueJobsAreAnnounced'
      <4>1. \A j \in Job : Looks(c, j) => Looks(c, j)'
        BY <3>1 DEF Looks
      <4>2. QED
        BY <3>1, <3>2, <4>1, StayAnnounced DEF AInv
    <3>7. QED
      BY <3>3, <3>4, <3>5, <3>6 DEF AInv
  <2>3. QED
    BY <1>7, <2>1, <2>2 DEF enqueue_waiting
<1>8. ASSUME NEW c \in Cron, kill(c) PROVE AInv'
  <2>1. Others(c) /\ at'[c] = "idle"
    BY <1>8 DEF IInv, TypeOK, kill, Others, Forget
  <2>2. \A d \in Cron \ {c} : now'[d] = now[d] /\ (Reading(d) => stale'[d] = stale[d])
    BY <1>8 DEF IInv, TypeOK, kill, Forget, Committed
  <2>3. UNCHANGED <<state, due, alarm, overlooked>> /\ woken \subseteq woken' /\ woken' # {}
    BY <1>8 DEF kill, rows
  <2>4. Spares(c, {})
    BY <2>1, <2>2, <2>3 DEF Spares
  <2>5. QED
    BY <2>1, <2>3, <2>4, GivesUp
<1>9. ASSUME NEW j \in Job, tick(j) PROVE AInv'
  <2>1. /\ j \notin due /\ due' = due \cup {j} /\ alarm' = alarm \ {j}
        /\ UNCHANGED <<state, at, job, snap, now, wrote, stale>>
    BY <1>9 DEF tick, session
  <2>2. /\ j \in alarm => woken' = Cron /\ overlooked' = overlooked
        /\ j \notin alarm => woken' = woken
        /\ j \notin alarm /\ parents[j] # {} => j \in overlooked'
        /\ overlooked \subseteq overlooked'
    BY <1>9 DEF tick
  <2>3. AlarmsArePending'
    BY <2>1 DEF AInv, AlarmsArePending
  <2>4. RootsAreAnnounced'
    BY <2>1 DEF AInv, RootsAreAnnounced
  <2>5. ASSUME NEW d \in Cron PROVE Knows(d)'
    <3>1. state[j] = "wait_dependencies" => j \in overlooked'
      BY <2>2 DEF AInv, AlarmsArePending, RootsAreAnnounced
    <3>2. Knows(d)
      BY DEF AInv
    <3>3. QED
      BY <2>1, <2>2, <3>1, <3>2 DEF Knows, Reading
  <2>6. DueJobsAreAnnounced'
    <3> SUFFICES ASSUME NEW i \in Job, i \notin overlooked', state'[i] = "pending",
                        i \in due', woken' = {}
                 PROVE  \E d \in Cron : Looks(d, i)'
      BY DEF DueJobsAreAnnounced
    <3>1. j \notin alarm /\ woken = {} /\ i \notin overlooked
      BY <2>2
    <3>2. i # j
      BY <2>1, <2>2, <3>1 DEF AInv, RootsAreAnnounced
    <3>3. PICK d \in Cron : Looks(d, i)
      BY <2>1, <3>1, <3>2 DEF AInv, DueJobsAreAnnounced
    <3>4. Looks(d, i)'
      BY <2>1, <3>3 DEF Looks
    <3>5. QED
      BY <3>4
  <2>7. QED
    BY <2>3, <2>4, <2>5, <2>6 DEF AInv
<1>10. ASSUME NEW j \in Job, requeue(j) PROVE AInv'
  <2> DEFINE new == IF \E p \in parents[j] : state[p] # "done"
                    THEN "wait_dependencies" ELSE "pending"
  <2>1. /\ state[j] \in {"failed", "done"} /\ \A d \in Cron : j \notin Locks(d)
        /\ state' = [state EXCEPT ![j] = new]
        /\ \A d \in Cron : Reading(d) => stale'[d] = stale[d] \cup {j}
        /\ UNCHANGED <<due, at, job, snap, now, wrote, overlooked>>
    BY <1>10 DEF requeue, history
  <2>2. /\ new = "pending" /\ j \in due => woken' = Cron
        /\ new = "pending" /\ j \notin due => j \in alarm'
        /\ alarm \subseteq alarm' /\ woken' \in {woken, Cron}
        /\ \A i \in alarm' \ alarm : i = j /\ new = "pending" /\ j \notin due
    BY <1>10 DEF requeue, _ensure_cron_trigger
  <2>3. parents[j] = {} => new = "pending"
    OBVIOUS
  <2>4. /\ \A i \in Job \ {j} : state'[i] = state[i]
        /\ state'[j] = new
    BY <2>1 DEF IInv, TypeOK
  <2> HIDE DEF new
  <2>5. AlarmsArePending'
    <3>1. \A i \in alarm : i \in Job /\ i # j
      BY <2>1 DEF AInv, AlarmsArePending, IInv, TypeOK
    <3>2. QED
      BY <2>1, <2>2, <2>4, <3>1 DEF AInv, AlarmsArePending
  <2>6. RootsAreAnnounced'
    BY <2>1, <2>2, <2>3, <2>4 DEF AInv, RootsAreAnnounced
  <2>7. ASSUME NEW d \in Cron PROVE Knows(d)'
    <3>1. Knows(d) /\ j \notin Locks(d)
      BY <2>1 DEF AInv
    <3>2. QED
      BY <2>1, <2>4, <3>1 DEF Knows, Reading, Locks
  <2>8. DueJobsAreAnnounced'
    <3> SUFFICES ASSUME NEW i \in Job, i \notin overlooked', state'[i] = "pending",
                        i \in due', woken' = {}
                 PROVE  \E d \in Cron : Looks(d, i)'
      BY DEF DueJobsAreAnnounced
    <3>1. woken = {} /\ i # j
      BY <2>1, <2>2, <2>4
    <3>2. PICK d \in Cron : Looks(d, i)
      BY <2>1, <2>4, <3>1 DEF AInv, DueJobsAreAnnounced
    <3>3. Looks(d, i)'
      BY <2>1, <3>2 DEF Looks
    <3>4. QED
      BY <3>3
  <2>9. QED
    BY <2>5, <2>6, <2>7, <2>8 DEF AInv
<1>11. CASE UNCHANGED cronVars
  BY <1>11 DEF cronVars, AInv, AlarmsArePending, RootsAreAnnounced, Knows, Reading,
     DueJobsAreAnnounced, Looks
<1>12. QED
  BY <1>1, <1>2, <1>3, <1>4, <1>5, <1>6, <1>7, <1>8, <1>9, <1>10, <1>11 DEF Next, Step

\* If there is a runner at all, a job that is pending and due has a trigger or a
\* runner that will find it, but for those that nobody is told of: whatever snapshots,
\* locks and times of arrival do to one another.
THEOREM AllAreAnnounced == ASSUME Cron # {} PROVE Spec => []DueJobsAreAnnounced
<1>1. Init => AInv
  <2> SUFFICES ASSUME Init PROVE AInv
    OBVIOUS
  <2>1. AlarmsArePending /\ RootsAreAnnounced
    BY CronConstants DEF Init, AlarmsArePending, RootsAreAnnounced
  <2>2. \A c \in Cron : Knows(c)
    BY DEF Init, Knows, Reading
  <2>3. woken # {}
    BY DEF Init
  <2>4. QED
    BY <2>1, <2>2, <2>3 DEF AInv, DueJobsAreAnnounced
<1>2. IInv /\ AInv /\ [Next]_cronVars => AInv'
  BY AnnouncedStep
<1>3. AInv => DueJobsAreAnnounced
  BY DEF AInv
<1>4. QED
  BY <1>1, <1>2, <1>3, Invariance, PTL DEF Spec

-----------------------------------------------------------------------------
(* Refinement *)

\* Who performs a job, in terms of ExclusiveExecution.
Performers == [j \in Job |-> {c \in Cron : at[c] = "perform" /\ job[c] = j}]

\* A step that nobody begins or ends a performance in.
LEMMA PerformersUnchanged ==
  ASSUME \A c \in Cron : /\ at'[c] = "perform" <=> at[c] = "perform"
                         /\ at[c] = "perform" => job'[c] = job[c]
  PROVE  Performers' = Performers
BY DEF Performers

LEMMA StutterStep ==
  ASSUME effects' = effects,
         \A c \in Cron : /\ at'[c] = "perform" <=> at[c] = "perform"
                         /\ at[c] = "perform" => job'[c] = job[c]
  PROVE  UNCHANGED Exclusive!exclusiveVars
BY PerformersUnchanged DEF Exclusive!exclusiveVars, Performers

\* A runner that stops performing was the only performer of its job.
LEMMA PerformerLeaves ==
  ASSUME IInv, NEW c \in Cron, at[c] = "perform", at'[c] # "perform",
         \A d \in Cron \ {c} : at'[d] = at[d] /\ job'[d] = job[d]
  PROVE  /\ job[c] \in Job
         /\ Performers[job[c]] = {c}
         /\ Performers' = [Performers EXCEPT ![job[c]] = {}]
<1>1. job[c] \in Job
  BY HasJob DEF IInv
<1>2. \A d \in Cron : at[d] = "perform" /\ job[d] = job[c] => d = c
  BY DEF IInv, LocksExclude, Locks
<1>3. Performers[job[c]] = {c}
  BY <1>1, <1>2 DEF Performers
<1>4. \A j \in Job \ {job[c]} : Performers'[j] = Performers[j]
  BY DEF Performers
<1>5. Performers'[job[c]] = {}
  BY <1>1, <1>2 DEF Performers
<1>6. Performers' = [j \in Job |-> Performers'[j]] /\ Performers = [j \in Job |-> Performers[j]]
  BY DEF Performers
<1>7. Performers' = [Performers EXCEPT ![job[c]] = {}]
  BY <1>4, <1>5, <1>6
<1>8. QED
  BY <1>1, <1>3, <1>7

\* A runner that leaves without a commit of the work abandons the job, if it has one.
LEMMA Leaves ==
  ASSUME IInv, NEW c \in Cron, at'[c] # "perform", effects' = effects,
         \A d \in Cron \ {c} : at'[d] = at[d] /\ job'[d] = job[d]
  PROVE  Exclusive!Next \/ UNCHANGED Exclusive!exclusiveVars
<1>1. CASE at[c] = "perform"
  <2>1. \E j \in Job : Exclusive!Abandon(c, j)
    BY <1>1, PerformerLeaves DEF Exclusive!Abandon, Performers
  <2>2. QED
    BY <2>1 DEF Exclusive!Next
<1>2. CASE at[c] # "perform"
  BY <1>2, StutterStep
<1>3. QED
  BY <1>1, <1>2

\* A runner that acquires a job begins alone.
LEMMA AcquiresAlone ==
  ASSUME IInv, NEW c \in Cron, _acquire_one_job(c)
  PROVE  Exclusive!Next \/ UNCHANGED Exclusive!exclusiveVars
<1> DEFINE j == Min(Candidates(c))
<1>1. CASE serialization_failure(c)
  BY <1>1, Leaves DEF serialization_failure, rows, IInv, TypeOK
<1>2. CASE ~Changed({j}, c)
  <2>1. j \in Candidates(c) /\ j \in Job /\ at[c] = "acquire"
    BY AcquiresCandidate DEF _acquire_one_job, IInv
  <2>2. /\ at' = [at EXCEPT ![c] = "perform"] /\ job' = [job EXCEPT ![c] = j]
        /\ effects' = effects
    BY <1>2 DEF _acquire_one_job, rows
  <2>3. \A d \in Cron \ {c} : j \notin Locks(d)
    BY <2>1 DEF Candidates, Unlocked
  <2> HIDE DEF j
  <2>4. \A d \in Cron : ~(at[d] = "perform" /\ job[d] = j)
    BY <2>1, <2>3 DEF Locks
  <2>5. Performers[j] = {} /\ Performers'[j] = {c}
    BY <2>1, <2>2, <2>4 DEF Performers, IInv, TypeOK
  <2>6. \A k \in Job \ {j} : Performers'[k] = Performers[k]
    BY <2>1, <2>2 DEF Performers, IInv, TypeOK
  <2>7. Performers' = [Performers EXCEPT ![j] = {c}]
    BY <2>5, <2>6 DEF Performers
  <2>8. \E k \in Job : Exclusive!Begin(c, k)
    BY <2>1, <2>2, <2>5, <2>7 DEF Exclusive!Begin, Performers
  <2>9. QED
    BY <2>8 DEF Exclusive!Next
<1>3. QED
  BY <1>1, <1>2 DEF _acquire_one_job

LEMMA ExclusiveStep ==
  IInv /\ [Next]_cronVars => [Exclusive!Next]_(Exclusive!exclusiveVars)
<1> SUFFICES ASSUME IInv, [Next]_cronVars
             PROVE  Exclusive!Next \/ UNCHANGED Exclusive!exclusiveVars
  OBVIOUS
<1> DEFINE Ok == Exclusive!Next \/ UNCHANGED Exclusive!exclusiveVars
<1> HIDE DEF Ok
<1>1. ASSUME NEW c \in Cron, start(c) PROVE Ok
  BY <1>1, Leaves DEF start, rows, IInv, TypeOK, Ok
<1>2. ASSUME NEW c \in Cron, _acquire_one_job(c) PROVE Ok
  BY <1>2, AcquiresAlone DEF Ok
<1>3. ASSUME NEW c \in Cron, _job_runner_end(c) PROVE Ok
  BY <1>3, Leaves DEF _job_runner_end, IInv, TypeOK, Ok
<1>4. ASSUME NEW c \in Cron, perform_done(c) PROVE Ok
  <2>1. /\ at[c] = "perform" /\ at'[c] # "perform"
        /\ \A d \in Cron \ {c} : at'[d] = at[d] /\ job'[d] = job[d]
        /\ effects' = [effects EXCEPT ![job[c]] = @ + 1]
    BY <1>4 DEF perform_done, Store, IInv, TypeOK
  <2>2. \E j \in Job : Exclusive!Complete(c, j)
    BY <2>1, PerformerLeaves DEF Exclusive!Complete, Performers
  <2>3. QED
    BY <2>2 DEF Ok, Exclusive!Next
<1>5. ASSUME NEW c \in Cron, perform_failed(c) PROVE Ok
  BY <1>5, Leaves DEF perform_failed, Store, IInv, TypeOK, Ok
<1>6. ASSUME NEW c \in Cron, perform_postponed(c) PROVE Ok
  BY <1>6, Leaves DEF perform_postponed, Store, IInv, TypeOK, Ok
<1>7. ASSUME NEW c \in Cron, enqueue_waiting_begin(c) PROVE Ok
  BY <1>7, Leaves DEF enqueue_waiting_begin, rows, IInv, TypeOK, Ok
<1>8. ASSUME NEW c \in Cron, enqueue_waiting(c) PROVE Ok
  <2>1. /\ at'[c] # "perform" /\ effects' = effects
        /\ \A d \in Cron \ {c} : at'[d] = at[d] /\ job'[d] = job[d]
    BY <1>8 DEF enqueue_waiting, serialization_failure, rows, IInv, TypeOK
  <2>2. QED
    BY <2>1, Leaves DEF Ok
<1>9. ASSUME NEW c \in Cron, kill(c) PROVE Ok
  BY <1>9, Leaves DEF kill, rows, IInv, TypeOK, Ok
<1>10. ASSUME NEW j \in Job, tick(j) PROVE Ok
  BY <1>10, StutterStep DEF tick, session, Ok
<1>11. ASSUME NEW j \in Job, requeue(j) PROVE Ok
  <2>1. at' = at /\ job' = job /\ effects' = [effects EXCEPT ![j] = 0]
    BY <1>11 DEF requeue
  <2>2. Performers' = Performers
    BY <2>1, PerformersUnchanged
  <2>3. Exclusive!Reset(j)
    BY <2>1, <2>2 DEF Exclusive!Reset, Performers
  <2>4. QED
    BY <2>3 DEF Ok, Exclusive!Next
<1>12. CASE UNCHANGED cronVars
  BY <1>12, StutterStep DEF cronVars, Ok
<1>13. QED
  BY <1>1, <1>2, <1>3, <1>4, <1>5, <1>6, <1>7, <1>8, <1>9, <1>10, <1>11, <1>12
     DEF Next, Step, Ok

\* The row locks of any number of scheduled actions implement exclusive execution.
THEOREM ImplementsExclusiveExecution == Spec => ExclusiveSpec
<1>1. Init => Exclusive!Init
  <2> SUFFICES ASSUME Init PROVE Exclusive!Init
    OBVIOUS
  <2>1. \A c \in Cron : at[c] # "perform"
    BY DEF Init
  <2>2. QED
    BY <2>1 DEF Init, Exclusive!Init
<1>2. QED
  BY <1>1, ExclusiveStep, Invariance, PTL DEF Spec, ExclusiveSpec, Exclusive!Spec

=============================================================================
