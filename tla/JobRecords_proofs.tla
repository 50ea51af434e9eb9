-------------------------- MODULE JobRecords_proofs --------------------------
(***************************************************************************)
(* Theorems about JobRecords, for every set of records, keys and sessions, *)
(* every interval of removal and any number of days.                       *)
(***************************************************************************)
EXTENDS JobRecords, FiniteSetTheorems, WellFoundedInduction, TLAPS

\* The worker that has a job stores what it read: nobody else writes the record of a
\* started job but requeue_dead_jobs, which takes the worker for dead, and one that was
\* taken for dead.
MemoryIsRecord == \A j \in Job : memory[j] # None => memory[j] = record[j]
LostHasItsKey ==
    \A j \in Exists : lost[j] # None => lost[j].identity_key = record[j].identity_key

\* What the runner remembers as pending has not been enqueued: only it enqueues jobs.
KnownIsNotTaken == known \cap In({"enqueued", "started"}) = {}

\* A job that a session has found settled is active again only if it came back to the
\* queue; it is not a new one either.
SeenCameBack ==
    \A s \in Session : seen[s] # None =>
       seen[s] \subseteq Exists /\ seen[s] \cap Active \subseteq revived

\* But for the exceptions, the dates of a record belong to its state, and are the day
\* on which it got it: no transition leaves one behind.
IsDated(r, d) ==
    /\ r.date_cancelled # None => r.state = "cancelled" /\ r.date_cancelled = d
    /\ r.date_done # None => r.state = "done" /\ r.date_done = d
DatesAreOfTheState == \A j \in Exists \ misdated : IsDated(record[j], since[j])

IInv == /\ TypeOK /\ MemoryIsRecord /\ LostHasItsKey /\ KnownIsNotTaken
        /\ SeenCameBack /\ ActiveJobsAreUnique /\ DatesAreOfTheState
-----------------------------------------------------------------------------
(* Helpers *)

\* The next record is one that nobody has heard of.
LEMMA NextRecord ==
  ASSUME RecordConstants, New # {}
  PROVE  Min(New) \in New
<1> DEFINE S == New
           R == OpToRel(<, Nat)
<1>1. S \subseteq Nat /\ S # {}
  BY DEF RecordConstants, New
<1>2. PICK n \in S : \A m \in S : ~(<<m, n>> \in R)
  <2> HIDE DEF R
  <2>1. IsWellFoundedOn(R, Nat)
    BY NatLessThanWellFounded DEF R
  <2> QED
    BY <2>1, <1>1, WFMin
<1>3. \A m \in S : n <= m
  <2> SUFFICES ASSUME NEW m \in S PROVE n <= m
    OBVIOUS
  <2>1. ~(m < n)
    BY <1>1, <1>2 DEF OpToRel
  <2> QED
    BY <1>1, <2>1
<1> QED
  BY <1>3 DEF Min

\* Two different jobs are a pair.
LEMMA Pairing ==
  ASSUME NEW i \in Job, NEW j \in Job, i # j
  PROVE  {i, j} \in kSubset(2, Job)
<1>1. IsFiniteSet({i}) /\ Cardinality({i}) = 1
  BY FS_Singleton
<1>2. Cardinality({i} \cup {j}) = 2
  BY <1>1, FS_AddElement
<1>3. {i} \cup {j} = {i, j}
  OBVIOUS
<1> QED
  BY <1>2, <1>3 DEF kSubset

\* A record that exists has the fields of a record.
LEMMA ARecord ==
  ASSUME TypeOK, NEW j \in Exists
  PROVE  /\ j \in Job /\ record[j] \in Record /\ record[j] # None
         /\ record[j].state \in States /\ record[j].identity_key \in Key \cup {NoKey}
         /\ record[j].date_done \in Day \cup {None}
         /\ record[j].date_cancelled \in Day \cup {None}
  BY DEF TypeOK, Exists, Record

-----------------------------------------------------------------------------
(* What a transition has to do for the invariant *)

\* It leaves the key alone, dates the state that it sets and no other, or makes the job
\* an exception, and does not take a job that the runner remembers as pending.
Moves(j, r) ==
    /\ r \in Record
    /\ j \in Exists => r.identity_key = record[j].identity_key
    /\ j \notin misdated' => IsDated(r, day)
    /\ r.state \in {"enqueued", "started"} => j \notin known'

\* The worker that has the job knows its record, and one that has lost it the key.
Remembers(j, r) ==
    /\ memory' \in [Job -> Record \cup {None}] /\ lost' \in [Job -> Record \cup {None}]
    /\ \A i \in Job \ {j} : memory'[i] = memory[i] /\ lost'[i] = lost[i]
    /\ memory'[j] # None => memory'[j] = r /\ r.state = "started"
    /\ lost'[j] # None => lost'[j].identity_key = r.identity_key

LEMMA StoreStays ==
  ASSUME RecordConstants, IInv, NEW j \in Job, NEW r, store(j, r), Moves(j, r),
         Remembers(j, r), known' \subseteq known,
         day' = day, seen' = seen, wanted' = wanted,
         misdated' \subseteq Job, misdated' \ {j} = misdated \ {j}
  PROVE  IInv'
<1> USE DEF IInv
<1>1. /\ r \in Record /\ r # None /\ r.state \in States
      /\ r.date_done \in Day \cup {None} /\ r.date_cancelled \in Day \cup {None}
  BY DEF Moves, Record, RecordConstants
<1>2. /\ record' = [record EXCEPT ![j] = r] /\ record' \in [Job -> Record \cup {None}]
      /\ record'[j] = r /\ \A i \in Job \ {j} : record'[i] = record[i]
  BY <1>1 DEF store, TypeOK
<1>3. /\ since' \in [Job -> Day] /\ \A i \in Job \ {j} : since'[i] = since[i]
      /\ r.state \in Settled => since'[j] = day
  BY <1>1 DEF store, TypeOK, Day, RecordConstants
<1>4. /\ revived' \subseteq Job /\ revived \ {j} \subseteq revived'
      /\ unseen' \subseteq unseen
      /\ r.state \in Queued => j \in revived' \/ (j \in In(Queued) /\ revived' = revived)
  BY <1>1 DEF store, TypeOK
<1>5. Exists' = Exists \cup {j}
  BY <1>1, <1>2 DEF Exists
<1>6. \A i \in Active' :
        /\ i \in Job
        /\ i \notin revived' => i \in Active \ revived
  <2> SUFFICES ASSUME NEW i \in Active'
               PROVE  i \in Job /\ (i \notin revived' => i \in Active \ revived)
    OBVIOUS
  <2>1. i \in Job /\ i \in Exists' /\ record'[i].state \in Queued
    BY DEF Active, In, Exists
  <2>2. CASE i = j
    BY <1>2, <1>4, <2>1, <2>2 DEF Active
  <2>3. CASE i # j
    BY <1>2, <1>4, <1>5, <2>1, <2>3 DEF Active, In
  <2> QED  BY <2>2, <2>3
<1>7. TypeOK'
  <2>1. \A i \in Job : memory'[i] # None => record'[i] # None /\ record'[i].state = "started"
    BY <1>1, <1>2 DEF Remembers, TypeOK
  <2> QED
    BY <1>2, <1>3, <1>4, <2>1 DEF TypeOK, Remembers
<1>8. MemoryIsRecord' /\ LostHasItsKey'
  BY <1>1, <1>2, <1>5 DEF MemoryIsRecord, LostHasItsKey, Remembers, Exists
<1>9. KnownIsNotTaken'
  <2> SUFFICES ASSUME NEW i \in known', i \in Exists',
                      record'[i].state \in {"enqueued", "started"}
               PROVE  FALSE
    BY DEF KnownIsNotTaken, In
  <2>1. CASE i = j
    BY <1>2, <2>1 DEF Moves
  <2>2. CASE i # j
    BY <1>2, <1>5, <2>2 DEF KnownIsNotTaken, In, Exists
  <2> QED  BY <2>1, <2>2
<1>10. SeenCameBack'
  BY <1>5, <1>6 DEF SeenCameBack
<1>11. ActiveJobsAreUnique'
  <2> SUFFICES ASSUME NEW i \in Active', NEW k \in Active', i # k,
                      record'[i].identity_key = record'[k].identity_key,
                      record'[i].identity_key # NoKey, {i, k} \cap revived' = {}
               PROVE  {i, k} \in unseen'
    BY DEF ActiveJobsAreUnique
  <2>1. i \in Active /\ k \in Active /\ i \notin revived /\ k \notin revived
    BY <1>6
  <2>2. i \in Exists /\ k \in Exists
    BY <2>1 DEF Active, In
  <2>3. /\ record[i].identity_key = record'[i].identity_key
        /\ record[k].identity_key = record'[k].identity_key
    BY <1>2, <2>2 DEF Moves, Exists
  <2>4. {i, k} \in unseen
    BY <2>1, <2>3 DEF ActiveJobsAreUnique
  <2>5. r.state \notin Queued => j \notin {i, k}
    BY <1>2 DEF Active, In
  <2> QED
    BY <2>4, <2>5 DEF store
<1>12. DatesAreOfTheState'
  <2> SUFFICES ASSUME NEW i \in Exists' \ misdated'
               PROVE  IsDated(record'[i], since'[i])
    BY DEF DatesAreOfTheState
  <2>1. CASE i = j
    BY <1>2, <1>3, <2>1 DEF Moves, IsDated, Settled
  <2>2. CASE i # j
    <3>1. i \in Exists \ misdated /\ i \in Job
      BY <1>5, <2>2 DEF Exists
    <3> QED
      BY <1>2, <1>3, <2>2, <3>1 DEF DatesAreOfTheState
  <2> QED  BY <2>1, <2>2
<1> QED
  BY <1>7, <1>8, <1>9, <1>10, <1>11, <1>12
-----------------------------------------------------------------------------
(* Creation and removal *)

\* A step that writes no record.
LEMMA RecordsStay ==
  ASSUME IInv, UNCHANGED <<record, memory, lost, revived, unseen, misdated, since>>,
         TypeOK', KnownIsNotTaken', SeenCameBack'
  PROVE  IInv'
<1> USE DEF IInv
<1>1. Exists' = Exists /\ Active' = Active
  BY DEF Exists, Active, In
<1> QED
  BY <1>1 DEF MemoryIsRecord, LostHasItsKey, ActiveJobsAreUnique, DatesAreOfTheState

LEMMA DelayStays ==
  ASSUME IInv, NEW s \in Session, NEW k \in Key \cup {NoKey}, delay(s, k)
  PROVE  IInv'
<1> USE DEF IInv, delay
<1>1. Exists' = Exists /\ Active' = Active
  BY DEF Exists, Active, In
<1>2. KeyMates(k) \subseteq Job /\ KeyMates(k) \subseteq Exists /\ KeyMates(k) \cap Active = {}
  BY DEF KeyMates, Exists, job_record_with_same_identity_key
<1>3. TypeOK'
  BY <1>2 DEF TypeOK
<1>4. SeenCameBack'
  <2> SUFFICES ASSUME NEW t \in Session, seen'[t] # None
               PROVE  seen'[t] \subseteq Exists /\ seen'[t] \cap Active \subseteq revived
    BY <1>1 DEF SeenCameBack
  <2>1. CASE t = s
    BY <1>2, <2>1 DEF TypeOK
  <2>2. CASE t # s
    BY <2>2 DEF TypeOK, SeenCameBack
  <2> QED  BY <2>1, <2>2
<1>5. KnownIsNotTaken'
  BY <1>1 DEF KnownIsNotTaken, In
<1> QED
  BY <1>3, <1>4, <1>5, RecordsStay

LEMMA CreationStays ==
  ASSUME RecordConstants, IInv, NEW s \in Session, NEW state \in Waiting, delay_store(s, state)
  PROVE  IInv'
<1> USE DEF IInv
<1> DEFINE j == Min(New)
           r == [state |-> state, identity_key |-> wanted[s],
                 date_done |-> None, date_cancelled |-> None]
<1>1. j \in Job \ Exists /\ j \notin known /\ lost[j] = None
  BY NextRecord DEF delay_store, New
<1> HIDE DEF j
<1>2. /\ seen[s] # None /\ seen' = [seen EXCEPT ![s] = None]
      /\ wanted' = [wanted EXCEPT ![s] = NoKey]
      /\ record' = [record EXCEPT ![j] = r]
      /\ unseen' = unseen \cup {{i, j} : i \in KeyMates(wanted[s]) \ seen[s]}
      /\ UNCHANGED <<memory, lost, known, day, revived, misdated, since>>
  BY DEF delay_store, j
<1>3. r \in Record /\ r.state \in Waiting /\ r.identity_key = wanted[s]
      /\ r.date_done = None /\ r.date_cancelled = None
  BY DEF TypeOK, Record, States, Waiting
<1> HIDE DEF r
<1>4. /\ record' \in [Job -> Record \cup {None}] /\ record'[j] = r /\ record[j] = None
      /\ \A i \in Job \ {j} : record'[i] = record[i]
  BY <1>1, <1>2, <1>3 DEF TypeOK, Exists
<1>6. Exists' = Exists \cup {j}
  BY <1>1, <1>3, <1>4 DEF Exists, RecordConstants
<1>7. \A i \in Active' : i \in Job /\ (i = j \/ i \in Active)
  BY <1>4 DEF Active, In, Exists
<1>8. TypeOK'
  <2>1. \A i \in KeyMates(wanted[s]) : {i, j} \in kSubset(2, Job)
    BY <1>1, Pairing DEF KeyMates, Exists
  <2>2. unseen' \subseteq kSubset(2, Job)
    BY <1>2, <2>1 DEF TypeOK
  <2>3. /\ seen' \in [Session -> (SUBSET Job) \cup {None}]
        /\ wanted' \in [Session -> Key \cup {NoKey}]
    BY <1>2 DEF TypeOK
  <2>4. \A i \in Job : memory'[i] # None => record'[i] # None /\ record'[i].state = "started"
    BY <1>1, <1>2, <1>4 DEF TypeOK
  <2> QED
    BY <1>2, <1>4, <2>2, <2>3, <2>4 DEF TypeOK
<1>9. MemoryIsRecord' /\ LostHasItsKey' /\ KnownIsNotTaken'
  <2>1. memory[j] = None
    BY <1>1, <1>4 DEF TypeOK
  <2>2. MemoryIsRecord' /\ LostHasItsKey'
    BY <1>1, <1>2, <1>4, <1>6, <2>1 DEF MemoryIsRecord, LostHasItsKey, Exists
  <2>3. KnownIsNotTaken'
    BY <1>1, <1>2, <1>4, <1>6 DEF KnownIsNotTaken, In, Exists
  <2> QED
    BY <2>2, <2>3
<1>10. SeenCameBack'
  <2> SUFFICES ASSUME NEW t \in Session, seen'[t] # None
               PROVE  seen'[t] \subseteq Exists' /\ seen'[t] \cap Active' \subseteq revived
    BY <1>2 DEF SeenCameBack
  <2>1. t # s /\ seen'[t] = seen[t]
    BY <1>2 DEF TypeOK
  <2>2. seen[t] \subseteq Exists /\ seen[t] \cap Active \subseteq revived
    BY <2>1 DEF SeenCameBack
  <2> QED
    BY <1>1, <1>6, <1>7, <2>1, <2>2
<1>11. ActiveJobsAreUnique'
  <2> DEFINE Excused(i, k) == {i, k} \in unseen' \/ {i, k} \cap revived # {}
  <2>1. \A i \in Active \ {j} : record'[i].identity_key = wanted[s] /\ wanted[s] # NoKey
                              => Excused(i, j)
    <3> SUFFICES ASSUME NEW i \in Active \ {j}, record'[i].identity_key = wanted[s],
                        wanted[s] # NoKey
                 PROVE  Excused(i, j)
      OBVIOUS
    <3>1. i \in KeyMates(wanted[s])
      BY <1>4 DEF KeyMates, Active, In, Exists
    <3>2. CASE i \in seen[s]
      BY <1>2, <3>2 DEF SeenCameBack
    <3>3. CASE i \notin seen[s]
      BY <1>2, <3>1, <3>3
    <3> QED  BY <3>2, <3>3
  <2> SUFFICES ASSUME NEW i \in Active', NEW k \in Active', i # k,
                      record'[i].identity_key = record'[k].identity_key,
                      record'[i].identity_key # NoKey
               PROVE  Excused(i, k)
    BY <1>2 DEF ActiveJobsAreUnique
  <2>2. CASE i = j
    <3>1. k \in Active \ {j} /\ record'[k].identity_key = wanted[s] /\ wanted[s] # NoKey
      BY <1>3, <1>4, <1>7, <2>2
    <3>2. {i, k} = {k, j}
      BY <2>2
    <3> QED
      BY <2>1, <3>1, <3>2
  <2>3. CASE k = j
    <3>1. i \in Active \ {j} /\ record'[i].identity_key = wanted[s] /\ wanted[s] # NoKey
      BY <1>3, <1>4, <1>7, <2>3
    <3> QED
      BY <2>1, <2>3, <3>1
  <2>4. CASE i # j /\ k # j
    <3>1. i \in Active /\ k \in Active
      BY <1>7, <2>4
    <3>2. /\ record[i].identity_key = record[k].identity_key
          /\ record[i].identity_key # NoKey
      BY <1>4, <2>4, <3>1 DEF Active, In, Exists
    <3> QED
      BY <1>2, <3>1, <3>2 DEF ActiveJobsAreUnique
  <2> QED  BY <2>2, <2>3, <2>4
<1>12. DatesAreOfTheState'
  BY <1>2, <1>3, <1>4, <1>6 DEF DatesAreOfTheState, IsDated, Exists
<1> QED
  BY <1>8, <1>9, <1>10, <1>11, <1>12

LEMMA RollbackStays ==
  ASSUME IInv, NEW s \in Session, rollback(s)
  PROVE  IInv'
<1> USE DEF IInv, rollback
<1>1. Exists' = Exists /\ Active' = Active
  BY DEF Exists, Active, In
<1>2. TypeOK'
  BY DEF TypeOK
<1>3. SeenCameBack'
  <2> SUFFICES ASSUME NEW t \in Session, seen'[t] # None
               PROVE  seen'[t] = seen[t]
    BY <1>1 DEF SeenCameBack
  <2> QED
    BY DEF TypeOK
<1>4. KnownIsNotTaken'
  BY <1>1 DEF KnownIsNotTaken, In
<1> QED
  BY <1>2, <1>3, <1>4, RecordsStay

\* What may be removed has ended.
LEMMA EndedBeforeRemoval ==
  ASSUME IInv, NEW j \in Removable, j \notin misdated
  PROVE  record[j].state \in Settled /\ since[j] + removal_interval <= day
<1>1. PICK d \in {record[j].date_done, record[j].date_cancelled} :
         d # None /\ d + removal_interval <= day
  BY DEF Removable
<1>2. IsDated(record[j], since[j])
  BY DEF Removable, IInv, DatesAreOfTheState
<1> QED
  BY <1>1, <1>2 DEF IsDated, Settled

\* A worker loses its job, or ends with it.
LEMMA LosesItsJob ==
  ASSUME TypeOK, NEW j \in Job, Loses(j)
  PROVE  /\ memory' \in [Job -> Record \cup {None}] /\ lost' \in [Job -> Record \cup {None}]
         /\ memory'[j] = None /\ lost'[j] \in {lost[j], memory[j]}
         /\ \A i \in Job \ {j} : memory'[i] = memory[i] /\ lost'[i] = lost[i]
  BY DEF TypeOK, Loses

LEMMA RemovalStays ==
  ASSUME RecordConstants, IInv, NEW j \in Job, autovacuum(j)
  PROVE  IInv'
<1> USE DEF IInv
<1>1. /\ j \in Exists /\ record' = [record EXCEPT ![j] = None]
      /\ since' = [since EXCEPT ![j] = 0]
      /\ revived' = revived \ {j} /\ misdated' = misdated \ {j}
      /\ unseen' = {p \in unseen : j \notin p}
      /\ seen' = [s \in Session |-> IF seen[s] = None THEN None ELSE seen[s] \ {j}]
      /\ UNCHANGED <<known, day, wanted>>
  BY DEF autovacuum, Removable
<1>2. /\ memory' \in [Job -> Record \cup {None}] /\ lost' \in [Job -> Record \cup {None}]
      /\ memory'[j] = None
      /\ \A i \in Job \ {j} : memory'[i] = memory[i] /\ lost'[i] = lost[i]
  BY LosesItsJob DEF autovacuum
<1>3. /\ record' \in [Job -> Record \cup {None}] /\ record'[j] = None
      /\ since' \in [Job -> Day]
      /\ \A i \in Job \ {j} : record'[i] = record[i] /\ since'[i] = since[i]
  BY <1>1 DEF TypeOK, Day, RecordConstants
<1>4. Exists' = Exists \ {j} /\ Active' = Active \ {j}
  BY <1>3 DEF Exists, Active, In
<1>5. seen' \in [Session -> (SUBSET Job) \cup {None}]
  BY <1>1 DEF TypeOK
<1>6. TypeOK'
  BY <1>1, <1>2, <1>3, <1>5 DEF TypeOK
<1>7. MemoryIsRecord' /\ LostHasItsKey' /\ KnownIsNotTaken'
  BY <1>1, <1>2, <1>3, <1>4 DEF MemoryIsRecord, LostHasItsKey, KnownIsNotTaken, In, Exists
<1>8. SeenCameBack'
  BY <1>1, <1>4 DEF SeenCameBack
<1>9. ActiveJobsAreUnique'
  <2> SUFFICES ASSUME NEW i \in Active', NEW k \in Active', i # k,
                      record'[i].identity_key = record'[k].identity_key
               PROVE  \/ record'[i].identity_key = NoKey
                      \/ {i, k} \in unseen' \/ {i, k} \cap revived' # {}
    BY DEF ActiveJobsAreUnique
  <2>1. i \in Active /\ k \in Active /\ i # j /\ k # j
    BY <1>4
  <2>2. record[i] = record'[i] /\ record[k] = record'[k]
    BY <1>3, <2>1 DEF Active, In, Exists
  <2> QED
    BY <1>1, <2>1, <2>2 DEF ActiveJobsAreUnique
<1>10. DatesAreOfTheState'
  BY <1>1, <1>3, <1>4 DEF DatesAreOfTheState, Exists
<1> QED
  BY <1>6, <1>7, <1>8, <1>9, <1>10

LEMMA TickStays ==
  ASSUME RecordConstants, IInv, tick
  PROVE  IInv'
<1> USE DEF IInv, tick
<1>1. Exists' = Exists /\ Active' = Active
  BY DEF Exists, Active, In
<1>2. TypeOK'
  BY DEF TypeOK, Day, RecordConstants
<1>3. KnownIsNotTaken' /\ SeenCameBack'
  BY <1>1 DEF KnownIsNotTaken, SeenCameBack, In
<1> QED
  BY <1>2, <1>3, RecordsStay

\* What the runner reads of the records.
LEMMA ReadingStays ==
  ASSUME IInv, initialize_databases \/ \E j \in Job : notify(j)
  PROVE  IInv'
<1> USE DEF IInv
<1>1. /\ UNCHANGED <<record, memory, lost, day, seen, wanted, revived, unseen, misdated, since>>
      /\ known' \subseteq known \cup In({"pending"})
  BY DEF initialize_databases, notify
<1>2. In({"pending"}) \subseteq Job /\ In({"pending"}) \cap In({"enqueued", "started"}) = {}
  BY DEF In, Exists
<1>3. /\ Exists' = Exists /\ Active' = Active
      /\ In({"enqueued", "started"})' = In({"enqueued", "started"})
  BY <1>1 DEF Exists, Active, In
<1>4. TypeOK'
  BY <1>1, <1>2 DEF TypeOK
<1>5. KnownIsNotTaken' /\ SeenCameBack'
  BY <1>1, <1>2, <1>3 DEF KnownIsNotTaken, SeenCameBack
<1> QED
  BY <1>1, <1>4, <1>5, RecordsStay
-----------------------------------------------------------------------------
(* Transitions of a job *)(* Transitions of a job *)

\* Which fields the transitions set and which they keep.
LEMMA SetsState ==
  ASSUME NEW r \in Record, NEW state \in States
  PROVE  LET n == [r EXCEPT !.state = state] IN
         /\ n \in Record /\ n.identity_key = r.identity_key /\ n.state = state
         /\ n.date_done = r.date_done /\ n.date_cancelled = r.date_cancelled
  BY DEF Record, States

LEMMA SetsPending ==
  ASSUME NEW r \in Record, NEW state \in States
  PROVE  LET n == set_pending(r, state) IN
         /\ n \in Record /\ n.identity_key = r.identity_key /\ n.state = state
         /\ n.date_done = None /\ n.date_cancelled = None
  BY DEF Record, States, set_pending

LEMMA SetsDone ==
  ASSUME NEW r \in Record, day \in Day
  PROVE  LET n == set_done(r) IN
         /\ n \in Record /\ n.identity_key = r.identity_key /\ n.state = "done"
         /\ n.date_done = day /\ n.date_cancelled = r.date_cancelled
  BY DEF Record, States, set_done

LEMMA SetsCancelled ==
  ASSUME NEW r \in Record, day \in Day
  PROVE  LET n == set_cancelled(r) IN
         /\ n \in Record /\ n.identity_key = r.identity_key /\ n.state = "cancelled"
         /\ n.date_done = r.date_done /\ n.date_cancelled = day
  BY DEF Record, States, set_cancelled

LEMMA SetsFailed ==
  ASSUME NEW r \in Record
  PROVE  LET n == set_failed(r) IN
         /\ n \in Record /\ n.identity_key = r.identity_key /\ n.state = "failed"
         /\ n.date_done = r.date_done /\ n.date_cancelled = r.date_cancelled
  BY DEF Record, States, set_failed

\* What a worker holds is a record with the key of its job; the one that has not lost
\* it holds the record itself.
LEMMA HeldIsARecord ==
  ASSUME RecordConstants, IInv, NEW j \in Job, NEW late \in BOOLEAN, Held(j, late) # None
  PROVE  /\ Held(j, late) \in Record
         /\ j \in Exists => Held(j, late).identity_key = record[j].identity_key
         /\ ~late => Held(j, late) = record[j] /\ j \in Exists /\ record[j].state = "started"
  BY DEF Held, IInv, TypeOK, MemoryIsRecord, LostHasItsKey, Exists

\* A record that is not settled has no date, but for the exceptions.
LEMMA UnsettledHasNoDate ==
  ASSUME IInv, NEW j \in Exists, j \notin misdated, record[j].state \notin Settled
  PROVE  record[j].date_done = None /\ record[j].date_cancelled = None
  BY DEF IInv, DatesAreOfTheState, IsDated, Settled

\* The raw updates, the loading of a job and the requeue of a dead one change the state
\* of a record only: nothing but the UPDATE of the runner finds a settled one.
LEMMA StateStays ==
  ASSUME RecordConstants, IInv, NEW j \in Exists, NEW state \in States,
         store(j, [record[j] EXCEPT !.state = state]),
         day' = day, seen' = seen, wanted' = wanted, known' \subseteq known,
         state \in {"enqueued", "started"} => j \notin known',
         misdated' = misdated \/ Misdates(j, record[j]),
         record[j].state \in Settled => Misdates(j, record[j]),
         memory' \in [Job -> Record \cup {None}], lost' \in [Job -> Record \cup {None}],
         \A i \in Job \ {j} : memory'[i] = memory[i] /\ lost'[i] = lost[i],
         memory'[j] # None =>
            memory'[j] = [record[j] EXCEPT !.state = state] /\ state = "started",
         lost'[j] \in {lost[j], memory[j]}
  PROVE  IInv'
<1> DEFINE r == [record[j] EXCEPT !.state = state]
<1>1. j \in Job /\ record[j] \in Record
  BY ARecord DEF IInv
<1>2. /\ r \in Record /\ r.identity_key = record[j].identity_key /\ r.state = state
      /\ r.date_done = record[j].date_done /\ r.date_cancelled = record[j].date_cancelled
  BY <1>1, SetsState
<1> HIDE DEF r
<1>3. Moves(j, r) /\ misdated' \subseteq Job /\ misdated' \ {j} = misdated \ {j}
  <2>1. misdated' \subseteq Job /\ misdated' \ {j} = misdated \ {j}
    BY <1>1 DEF Misdates, IInv, TypeOK
  <2>2. j \notin misdated' => record[j].date_done = None /\ record[j].date_cancelled = None
    <3>1. CASE Misdates(j, record[j])
      BY <3>1 DEF Misdates
    <3>2. CASE misdated' = misdated /\ record[j].state \notin Settled
      BY <3>2, UnsettledHasNoDate
    <3> QED
      BY <3>1, <3>2
  <2> QED
    BY <1>1, <1>2, <2>1, <2>2 DEF Moves, IsDated
<1>4. Remembers(j, r)
  <2>1. memory'[j] # None => memory'[j] = r /\ r.state = "started"
    BY <1>2 DEF r
  <2>2. lost'[j] # None => lost'[j].identity_key = r.identity_key
    BY <1>1, <1>2 DEF IInv, MemoryIsRecord, LostHasItsKey
  <2> QED
    BY <2>1, <2>2 DEF Remembers
<1>5. store(j, r)
  BY DEF r
<1> QED
  BY <1>1, <1>3, <1>4, <1>5, StoreStays

LEMMA RawStays ==
  ASSUME RecordConstants, IInv, NEW j \in Job,
         enqueue_waiting(j) \/ cancel_dependent_jobs(j)
  PROVE  IInv'
<1> SUFFICES ASSUME NEW state \in {"pending", "cancelled"}, j \in In({"wait_dependencies"}),
                    store(j, [record[j] EXCEPT !.state = state]),
                    UNCHANGED <<UserVars, misdated>>
             PROVE  IInv'
  BY DEF enqueue_waiting, cancel_dependent_jobs
<1>1. j \in Exists /\ record[j].state = "wait_dependencies" /\ state \in States
  BY DEF In, States
<1>2. memory[j] = None /\ record[j].state \notin Settled
  BY <1>1 DEF IInv, TypeOK, Settled
<1> QED
  BY <1>1, <1>2, StateStays DEF UserVars, WorkerVars, IInv, TypeOK

LEMMA EnqueuedStays ==
  ASSUME RecordConstants, IInv, NEW j \in Job, set_job_enqueued(j)
  PROVE  IInv'
<1> USE DEF IInv
<1>1. /\ j \in known /\ known' = known \ {j}
      /\ UNCHANGED <<memory, lost, day, seen, wanted>>
  BY DEF set_job_enqueued
<1>2. CASE j \notin Exists
  <2>1. UNCHANGED <<record, revived, unseen, misdated, since>>
    BY <1>2 DEF set_job_enqueued
  <2>2. Exists' = Exists /\ Active' = Active
    BY <2>1 DEF Exists, Active, In
  <2>3. TypeOK'
    BY <1>1, <2>1 DEF TypeOK
  <2>4. KnownIsNotTaken' /\ SeenCameBack'
    BY <1>1, <2>1, <2>2 DEF KnownIsNotTaken, SeenCameBack, In
  <2> QED
    BY <1>1, <2>1, <2>3, <2>4, RecordsStay
<1>3. CASE j \in Exists
  <2>1. /\ store(j, [record[j] EXCEPT !.state = "enqueued"])
        /\ IF record[j].state \in Settled THEN Misdates(j, record[j]) ELSE misdated' = misdated
    BY <1>3 DEF set_job_enqueued, In
  <2>2. memory[j] = None
    BY <1>1, <1>3 DEF TypeOK, KnownIsNotTaken, In
  <2>3. "enqueued" \in States
    BY DEF States
  <2> QED
    BY <1>1, <1>3, <2>1, <2>2, <2>3, StateStays DEF TypeOK
<1> QED
  BY <1>2, <1>3

LEMMA AcquireStays ==
  ASSUME RecordConstants, IInv, NEW j \in Job, _acquire_job(j)
  PROVE  IInv'
<1> DEFINE r == [record[j] EXCEPT !.state = "started"]
<1>1. /\ j \in Exists /\ record[j].state = "enqueued"
      /\ store(j, r) /\ UNCHANGED <<lost, WorkerVars, misdated>>
      /\ memory' = [memory EXCEPT ![j] = r] \/ memory' = memory
  BY DEF In, _acquire_job
<1>2. /\ memory[j] = None /\ record[j].state \notin Settled /\ "started" \in States
      /\ j \notin known
  BY <1>1 DEF IInv, TypeOK, Settled, States, KnownIsNotTaken, In
<1>3. r \in Record
  BY <1>1, <1>2, ARecord, SetsState DEF IInv
<1> HIDE DEF r
<1>4. /\ memory' \in [Job -> Record \cup {None}]
      /\ \A i \in Job \ {j} : memory'[i] = memory[i]
      /\ memory'[j] # None => memory'[j] = r
  BY <1>1, <1>2, <1>3 DEF IInv, TypeOK
<1>5. store(j, [record[j] EXCEPT !.state = "started"])
      /\ (memory'[j] # None => memory'[j] = [record[j] EXCEPT !.state = "started"])
  BY <1>1, <1>4 DEF r
<1> QED
  BY <1>1, <1>2, <1>4, <1>5, StateStays DEF WorkerVars, IInv, TypeOK

LEMMA DeadStays ==
  ASSUME RecordConstants, IInv, NEW j \in Job, requeue_dead_jobs(j)
  PROVE  IInv'
<1>1. PICK state \in {"pending", "failed"} : store(j, [record[j] EXCEPT !.state = state])
  BY DEF requeue_dead_jobs
<1>2. /\ j \in Exists /\ record[j].state \notin Settled /\ Loses(j)
      /\ UNCHANGED <<WorkerVars, misdated>> /\ state \in States
  BY DEF In, requeue_dead_jobs, Settled, States
<1> QED
  BY <1>1, <1>2, LosesItsJob, StateStays DEF WorkerVars, IInv, TypeOK

\* A worker stores the job that it has performed, put back to the queue or given up;
\* the one that has lost it does so over whatever the record has become.
LEMMA EndStays ==
  ASSUME RecordConstants, IInv, NEW j \in Job, NEW late \in BOOLEAN, NEW r, Ends(j, late, r),
         r \in Record, r.state \notin {"enqueued", "started"},
         j \in Exists => r.identity_key = record[j].identity_key, late \/ j \in Exists,
         j \notin misdated' => IsDated(r, day),
         misdated' \subseteq Job, misdated' \ {j} = misdated \ {j}
  PROVE  IInv'
<1> USE DEF IInv
<1>1. /\ store(j, r) /\ memory' = [memory EXCEPT ![j] = None] /\ UNCHANGED WorkerVars
      /\ lost' = IF late THEN [lost EXCEPT ![j] = memory[j]] ELSE lost
  BY DEF Ends
<1>2. Moves(j, r)
  BY DEF Moves
<1>3. lost'[j] # None => lost'[j].identity_key = r.identity_key
  <2>1. CASE late
    BY <1>1, <2>1 DEF TypeOK, MemoryIsRecord, Exists
  <2>2. CASE ~late
    BY <1>1, <2>2 DEF TypeOK, LostHasItsKey
  <2> QED  BY <2>1, <2>2
<1>4. Remembers(j, r)
  BY <1>1, <1>3 DEF Remembers, TypeOK
<1> QED
  BY <1>1, <1>2, <1>4, StoreStays DEF WorkerVars

LEMMA WorkersStay ==
  ASSUME RecordConstants, IInv, NEW j \in Job, NEW late \in BOOLEAN,
         \/ ~late /\ _try_perform_job(j)
         \/ retry_postpone(j, late) \/ perform_failed(j, late) \/ flush_failed(j, late)
  PROVE  IInv'
<1> DEFINE m == Held(j, late)
<1>1. day \in Day /\ misdated \subseteq Job /\ "failed" \in States
  BY DEF IInv, TypeOK, States
<1>2. /\ m \in Record
      /\ j \in Exists => m.identity_key = record[j].identity_key
      /\ ~late => m = record[j] /\ j \in Exists /\ record[j].state = "started"
  <2>1. m # None
    BY DEF _try_perform_job, retry_postpone, perform_failed, flush_failed, Held
  <2> QED
    BY <2>1, HeldIsARecord
<1>3. ~late /\ j \notin misdated => m.date_done = None /\ m.date_cancelled = None
  BY <1>2, UnsettledHasNoDate DEF Settled
<1>4. CASE ~late /\ _try_perform_job(j)
  <2> DEFINE r == set_done(m)
  <2>1. Ends(j, late, r) /\ Dated(j, r)
    BY <1>4 DEF _try_perform_job, Held
  <2>2. /\ r \in Record /\ r.identity_key = m.identity_key /\ r.state = "done"
        /\ r.date_done = day /\ r.date_cancelled = m.date_cancelled
    BY <1>1, <1>2, SetsDone
  <2> HIDE DEF r
  <2>3. day # None
    BY <1>1 DEF Day, RecordConstants
  <2>4. j \notin misdated' => IsDated(r, day)
    BY <1>3, <1>4, <2>1, <2>2, <2>3 DEF Dated, IsDated
  <2> QED
    BY <1>1, <1>2, <1>4, <2>1, <2>2, <2>4, EndStays DEF Dated
<1>5. CASE retry_postpone(j, late)
  <2>1. PICK s \in Waiting : Ends(j, late, set_pending(m, s))
    BY <1>5 DEF retry_postpone
  <2>2. s \in States /\ s \notin {"enqueued", "started"} /\ misdated' = misdated \ {j}
    BY <1>5 DEF Waiting, States, retry_postpone
  <2> DEFINE r == set_pending(m, s)
  <2>3. /\ r \in Record /\ r.identity_key = m.identity_key /\ r.state = s
        /\ r.date_done = None /\ r.date_cancelled = None /\ Ends(j, late, r)
    BY <1>2, <2>1, <2>2, SetsPending
  <2> HIDE DEF r
  <2> QED
    BY <1>1, <1>2, <2>2, <2>3, EndStays DEF IsDated
<1>6. CASE perform_failed(j, late)
  <2> DEFINE r == set_failed(m)
  <2>1. /\ Ends(j, late, r) /\ IF late THEN Misdates(j, m) ELSE misdated' = misdated
    BY <1>6 DEF perform_failed
  <2>2. /\ r \in Record /\ r.identity_key = m.identity_key /\ r.state = "failed"
        /\ r.date_done = m.date_done /\ r.date_cancelled = m.date_cancelled
    BY <1>2, SetsFailed
  <2> HIDE DEF r
  <2>3. j \notin misdated' => IsDated(r, day)
    BY <1>3, <2>1, <2>2 DEF Misdates, IsDated
  <2> QED
    BY <1>1, <1>2, <2>1, <2>2, <2>3, EndStays DEF Misdates
<1>7. CASE flush_failed(j, late)
  <2> DEFINE r == set_failed(set_done(m))
  <2>1. Ends(j, late, r) /\ Misdates(j, set_done(m))
    BY <1>7 DEF flush_failed
  <2>2. /\ r \in Record /\ r.identity_key = m.identity_key /\ r.state = "failed"
        /\ set_done(m).date_done = day /\ day # None
    BY <1>1, <1>2, SetsDone, SetsFailed DEF Day, RecordConstants
  <2> HIDE DEF r
  <2>3. misdated' = misdated \cup {j}
    BY <2>1, <2>2 DEF Misdates
  <2> QED
    BY <1>1, <1>2, <2>1, <2>2, <2>3, EndStays
<1> QED
  BY <1>4, <1>5, <1>6, <1>7

\* What the buttons write is not a job that is performed.
LEMMA ButtonsStay ==
  ASSUME RecordConstants, IInv, NEW j \in Job,
         requeue(j) \/ button_done(j) \/ button_cancelled(j)
  PROVE  IInv'
<1> SUFFICES ASSUME NEW r, store(j, r), UNCHANGED UserVars, j \in Exists,
                    record[j].state # "started",
                    \/ /\ \E s \in Waiting : r = set_pending(record[j], s)
                       /\ misdated' = misdated \ {j}
                    \/ /\ record[j].state \notin Settled /\ Dated(j, r)
                       /\ r \in {set_done(record[j]), set_cancelled(record[j])}
             PROVE  IInv'
  BY DEF requeue, button_done, button_cancelled, In, Queued, Settled
<1>1. record[j] \in Record /\ day \in Day /\ misdated \subseteq Job /\ day # None
  BY ARecord DEF IInv, TypeOK, Day, RecordConstants
<1>2. record[j].state \notin Settled /\ j \notin misdated
      => record[j].date_done = None /\ record[j].date_cancelled = None
  BY UnsettledHasNoDate
<1>3. /\ r \in Record /\ r.identity_key = record[j].identity_key
      /\ r.state \notin {"enqueued", "started"}
      /\ j \notin misdated' => IsDated(r, day)
  <2>1. CASE /\ \E s \in Waiting : r = set_pending(record[j], s)
             /\ misdated' = misdated \ {j}
    <3>1. PICK s \in Waiting : r = set_pending(record[j], s)
      BY <2>1
    <3>2. s \in States /\ s \notin {"enqueued", "started"}
      BY DEF Waiting, States
    <3> QED
      BY <1>1, <3>1, <3>2, SetsPending DEF IsDated
  <2>2. CASE /\ record[j].state \notin Settled /\ Dated(j, r)
             /\ r = set_done(record[j])
    <3>1. /\ r \in Record /\ r.identity_key = record[j].identity_key /\ r.state = "done"
          /\ r.date_done = day /\ r.date_cancelled = record[j].date_cancelled
      BY <1>1, <2>2, SetsDone
    <3> QED
      BY <1>1, <1>2, <2>2, <3>1 DEF Dated, IsDated
  <2>3. CASE /\ record[j].state \notin Settled /\ Dated(j, r)
             /\ r = set_cancelled(record[j])
    <3>1. /\ r \in Record /\ r.identity_key = record[j].identity_key /\ r.state = "cancelled"
          /\ r.date_done = record[j].date_done /\ r.date_cancelled = day
      BY <1>1, <2>3, SetsCancelled
    <3> QED
      BY <1>1, <1>2, <2>3, <3>1 DEF Dated, IsDated
  <2> QED
    BY <2>1, <2>2, <2>3
<1>4. Moves(j, r)
  BY <1>3 DEF Moves
<1>5. Remembers(j, r)
  <2>1. memory' = memory /\ lost' = lost /\ memory[j] = None
    BY DEF UserVars, IInv, TypeOK
  <2>2. lost[j] # None => lost[j].identity_key = r.identity_key
    BY <1>3 DEF IInv, LostHasItsKey
  <2> QED
    BY <2>1, <2>2 DEF Remembers, IInv, TypeOK
<1>6. misdated' \subseteq Job /\ misdated' \ {j} = misdated \ {j}
  BY <1>1 DEF Dated
<1> QED
  BY <1>4, <1>5, <1>6, StoreStays DEF UserVars, WorkerVars
-----------------------------------------------------------------------------
(* Theorems *)

LEMMA Initially == ASSUME RecordConstants, Init PROVE IInv
<1> USE DEF Init
<1>1. TypeOK
  BY DEF TypeOK, Day, RecordConstants
<1>2. Exists = {}
  BY DEF Exists
<1> QED
  BY <1>1, <1>2 DEF IInv, MemoryIsRecord, LostHasItsKey, KnownIsNotTaken, SeenCameBack,
     ActiveJobsAreUnique, DatesAreOfTheState, Active, In

LEMMA StutterStays == ASSUME IInv, UNCHANGED recordVars PROVE IInv'
<1> USE DEF recordVars
<1>1. Exists' = Exists /\ Active' = Active
  BY DEF Exists, Active, In
<1>2. TypeOK' /\ KnownIsNotTaken' /\ SeenCameBack'
  BY <1>1 DEF IInv, TypeOK, KnownIsNotTaken, SeenCameBack, In
<1> QED
  BY <1>2, RecordsStay

LEMMA NextStays == ASSUME RecordConstants, IInv, Next PROVE IInv'
<1>1. CASE \E s \in Session, k \in Key \cup {NoKey} : delay(s, k)
  BY <1>1, DelayStays
<1>2. CASE \E s \in Session, state \in Waiting : delay_store(s, state)
  BY <1>2, CreationStays
<1>3. CASE \E s \in Session : rollback(s)
  BY <1>3, RollbackStays
<1>4. CASE \E j \in Job : enqueue_waiting(j) \/ cancel_dependent_jobs(j)
  BY <1>4, RawStays
<1>5. CASE \E j \in Job : set_job_enqueued(j)
  BY <1>5, EnqueuedStays
<1>6. CASE \E j \in Job : requeue_dead_jobs(j)
  BY <1>6, DeadStays
<1>7. CASE \E j \in Job : _acquire_job(j)
  BY <1>7, AcquireStays
<1>8. CASE \E j \in Job : _try_perform_job(j)
  BY <1>8, WorkersStay
<1>9. CASE \E j \in Job, late \in BOOLEAN :
              retry_postpone(j, late) \/ perform_failed(j, late) \/ flush_failed(j, late)
  BY <1>9, WorkersStay
<1>10. CASE \E j \in Job : requeue(j) \/ button_done(j) \/ button_cancelled(j)
  BY <1>10, ButtonsStay
<1>11. CASE \E j \in Job : autovacuum(j)
  BY <1>11, RemovalStays
<1>12. CASE initialize_databases \/ \E j \in Job : notify(j)
  BY <1>12, ReadingStays
<1>13. CASE tick
  BY <1>13, TickStays
<1> QED
  BY <1>1, <1>2, <1>3, <1>4, <1>5, <1>6, <1>7, <1>8, <1>9, <1>10, <1>11, <1>12, <1>13,
     Zenon DEF Next

\* The inductive invariant holds in every reachable state.
THEOREM Invariance == ASSUME RecordConstants PROVE Spec => []IInv
<1>1. Init => IInv
  BY Initially
<1>2. IInv /\ [Next]_recordVars => IInv'
  BY NextStays, StutterStays
<1> QED
  BY <1>1, <1>2, PTL DEF Spec

\* Every variable of JobRecords keeps its type; a worker holds a job in memory only
\* while its record is started.
THEOREM TypeCorrectness == ASSUME RecordConstants PROVE Spec => []TypeOK
<1>1. IInv => TypeOK
  BY DEF IInv
<1> QED
  BY <1>1, Invariance, PTL

\* Two active jobs share an identity key only if the session of one could not see the
\* other, or if one of them came back to the queue (job_record_with_same_identity_key).
THEOREM KeysAreUnique == ASSUME RecordConstants PROVE Spec => []ActiveJobsAreUnique
<1>1. IInv => ActiveJobsAreUnique
  BY DEF IInv
<1> QED
  BY <1>1, Invariance, PTL

\* autovacuum removes only jobs that have been done or cancelled for the whole interval,
\* but for those that failed after set_done, that the runner enqueued after they had been
\* settled, or that failed under a worker that had been taken for dead.
THEOREM RemovedHasEnded == ASSUME RecordConstants PROVE Spec => []RemovableHasEnded
<1>1. IInv => RemovableHasEnded
  BY EndedBeforeRemoval DEF RemovableHasEnded
<1> QED
  BY <1>1, Invariance, PTL
=============================================================================
