------------------------- MODULE MCJobGraphs_proofs -------------------------
(***************************************************************************)
(* Proofs about the two components of MCJobGraphs.  JobDependencies keeps  *)
(* its names: its theorems are for any graph of jobs and any number of     *)
(* sessions of workers and users.  Those about Delayables, under the name  *)
(* of its instance, are for any number of delayables and containers, and   *)
(* any bounds.                                                             *)
(***************************************************************************)
EXTENDS MCJobGraphs, FiniteSetTheorems, SequenceTheorems, WellFoundedInduction, TLAPS

Reading == {"updating", "committing", "pressed", "stored"}
Writing == {"committing", "stored"}

\* What holds of each session: it works on one job, which is started while it performs
\* it and nobody has taken it, and it writes nothing before it updates the rows.
Works(s) ==
  /\ \A i, j \in jobOf[s] : i = j
  /\ pc[s] = "performing" => \A j \in jobOf[s] \ changed[s] : row[j] = "started"
  /\ pc[s] \notin Writing => writes[s] = Nothing

\* Its snapshot is that of the rows which nobody has committed since.
SnapshotIsFresh(s) ==
  pc[s] \in Reading => \A c \in Job \ changed[s] : snapshot[s][c] = row[c]

\* It updates rows that nobody has committed since its snapshot, those of jobs that
\* wait and, by a button, that of its job in a state from which the button acts.
WritesFresh(s) ==
  /\ pc[s] \in {"pressed", "stored"} =>
       \A j \in jobOf[s] : snapshot[s][j] \in StatesFrom(button[s])
  /\ \A c \in Job : writes[s][c] # Unwritten =>
       /\ c \notin changed[s]
       /\ \/ snapshot[s][c] = "wait_dependencies"
          \/ pc[s] = "stored" /\ c \in jobOf[s]
       /\ writes[s][c] = "wait_dependencies" => Parents[c] # {}
       /\ writes[s][c] \notin {"enqueued", "started"}

\* No row is written by two sessions; of two that perform a job, one has lost it.
Apart(s, t) ==
  /\ \A c \in Job : writes[s][c] = Unwritten \/ writes[t][c] = Unwritten
  /\ pc[s] = "performing" /\ pc[t] = "performing" =>
       jobOf[s] \cap jobOf[t] \subseteq changed[s] \cup changed[t]

SessionOK(s) == Works(s) /\ SnapshotIsFresh(s) /\ WritesFresh(s)

\* The inductive invariant about transactions.
Isolation == /\ TypeOK
             /\ \A s \in Session : SessionOK(s)
             /\ \A s, t \in Session : s # t => Apart(s, t)

-----------------------------------------------------------------------------
(* The runner, and what follows a failure, update one row *)

\* One row is updated and committed.
One(j, state) == [Nothing EXCEPT ![j] = state]

LEMMA Setting ==
  ASSUME NEW me, NEW j \in Job, NEW state \in States, Sets(me, j, state)
  PROVE  /\ Commit(me, One(j, state)) /\ One(j, state) \in [Job -> States \cup {Unwritten}]
         /\ \A c \in Job : One(j, state)[c] = IF c = j THEN state ELSE Unwritten
         /\ state # Unwritten
         /\ \A t \in Session \ me : writes[t][j] = Unwritten
BY DEF Sets, One, Nothing, Unwritten, States, Waits

-----------------------------------------------------------------------------
(* What a step of some sessions leaves to the others *)

Stays(t) == /\ pc'[t] = pc[t] /\ jobOf'[t] = jobOf[t] /\ snapshot'[t] = snapshot[t]
            /\ writes'[t] = writes[t] /\ button'[t] = button[t]

\* Nobody else has written the rows that are committed.
Free(me, new) == \A t \in Session \ me, c \in Job :
                    new[c] # Unwritten => writes[t][c] = Unwritten

LEMMA OthersStay ==
  ASSUME Isolation, NEW t \in Session, Stays(t), row' = row, changed'[t] = changed[t]
  PROVE  SessionOK(t)'
BY DEF Isolation, Stays, SessionOK, Works, SnapshotIsFresh, WritesFresh

LEMMA OthersSeeCommit ==
  ASSUME Isolation, NEW me, NEW new, NEW t \in Session \ me, Stays(t),
         Commit(me, new), Free(me, new)
  PROVE  SessionOK(t)' /\ changed[t] \subseteq changed'[t]
<1>1. \A c \in Job : row'[c] = IF new[c] # Unwritten THEN new[c] ELSE row[c]
  BY DEF Commit
<1>2. pc[t] \notin {"idle", "dependents"} =>
        changed'[t] = changed[t] \cup {c \in Job : new[c] # Unwritten}
  BY DEF Commit
<1>3. pc[t] \in {"idle", "dependents"} => changed'[t] = changed[t]
  BY DEF Commit
<1>4. Works(t)'
  BY <1>1, <1>2 DEF Isolation, TypeOK, Stays, SessionOK, Works
<1>5. SnapshotIsFresh(t)'
  BY <1>1, <1>2 DEF Isolation, Stays, SessionOK, SnapshotIsFresh, Reading
<1>6. WritesFresh(t)'
  BY <1>2, <1>3 DEF Isolation, Stays, SessionOK, WritesFresh, Free
<1>7. QED
  BY <1>2, <1>3, <1>4, <1>5, <1>6 DEF SessionOK

\* The sessions stay apart when those that act write what is free.
LEMMA StayApart ==
  ASSUME Isolation, NEW me, \A t \in Session \ me : Stays(t) /\ changed[t] \subseteq changed'[t],
         \A s \in Session, t \in Session : s \in me /\ s # t => Apart(s, t)'
  PROVE  \A u, t \in Session : u # t => Apart(u, t)'
<1> SUFFICES ASSUME NEW u \in Session, NEW t \in Session, u # t PROVE Apart(u, t)'
  OBVIOUS
<1>1. CASE u \in me
  BY <1>1
<1>2. CASE t \in me
  <2>1. Apart(t, u)'
    BY <1>2
  <2>2. QED
    BY <2>1 DEF Apart
<1>3. CASE u \notin me /\ t \notin me
  <2>1. /\ Apart(u, t) /\ Stays(u) /\ Stays(t)
        /\ changed[u] \subseteq changed'[u] /\ changed[t] \subseteq changed'[t]
    BY <1>3 DEF Isolation
  <2>2. QED
    BY <2>1 DEF Apart, Stays
<1>4. QED
  BY <1>1, <1>2, <1>3

-----------------------------------------------------------------------------
(* The types *)

LEMMA CommitType ==
  ASSUME TypeOK, NEW me, NEW new \in [Job -> States \cup {Unwritten}], Commit(me, new),
         \A c \in Job : new[c] = "wait_dependencies" => Parents[c] # {}
  PROVE  /\ row' \in [Job -> States] /\ finished' \subseteq Job
         /\ changed' \in [Session -> SUBSET Job]
         /\ \A j \in Job : row'[j] = "wait_dependencies" => Parents[j] # {}
<1>1. row' \in [Job -> States]
  BY DEF TypeOK, Commit
<1>2. finished' \subseteq Job /\ changed' \in [Session -> SUBSET Job]
  BY DEF TypeOK, Commit
<1>3. \A j \in Job : row'[j] = "wait_dependencies" => Parents[j] # {}
  BY DEF TypeOK, Commit
<1>4. QED
  BY <1>1, <1>2, <1>3

LEMMA SetsType ==
  ASSUME TypeOK, NEW me, NEW j \in Job, NEW state \in States, Sets(me, j, state),
         state = "wait_dependencies" => Parents[j] # {}
  PROVE  /\ row' \in [Job -> States] /\ finished' \subseteq Job
         /\ changed' \in [Session -> SUBSET Job]
         /\ \A c \in Job : row'[c] = "wait_dependencies" => Parents[c] # {}
<1>1. \A c \in Job : One(j, state)[c] = "wait_dependencies" => Parents[c] # {}
  BY Setting DEF Unwritten
<1>2. QED
  BY <1>1, Setting, CommitType

LEMMA CreatedType == ASSUME DependenciesAssumption PROVE Created \in [Job -> States]
BY DEF Created, States

LEMMA NothingType == Nothing \in [Job -> States \cup {Unwritten}]
BY DEF Nothing

LEMMA EndsType ==
  ASSUME DependenciesAssumption, TypeOK, NEW s \in Session, Ends(s)
  PROVE  /\ pc' \in [Session -> {"idle", "performing", "dependents", "updating",
                                 "committing", "pressed", "stored"}]
         /\ jobOf' \in [Session -> SUBSET Job]
         /\ snapshot' \in [Session -> [Job -> States]]
         /\ writes' \in [Session -> [Job -> States \cup {Unwritten}]]
         /\ button' \in [Session -> {"done", "cancelled", "pending"}]
BY CreatedType, NothingType DEF TypeOK, Ends

LEMMA BeginsType ==
  ASSUME TypeOK, NEW s \in Session, NEW where \in {"updating", "pressed"},
         NEW J \in SUBSET Job, NEW b \in {"done", "cancelled", "pending"},
         Begins(s, where, J, b), {edits', failures', crashes'} \subseteq Nat
  PROVE  TypeOK'
BY DEF TypeOK, Begins, rowVars

LEMMA RollbackType ==
  ASSUME DependenciesAssumption, TypeOK, NEW s \in Session, Rollback(s),
         {edits', failures', crashes'} \subseteq Nat
  PROVE  TypeOK'
<1>1. changed' \in [Session -> SUBSET Job]
  BY DEF TypeOK, Rollback
<1>2. QED
  BY <1>1, EndsType DEF Rollback, TypeOK, rowVars

\* The runner reads the rows, and remembers some that are pending.
Reads == initialize_databases \/ \E j \in Job : notify(j)

LEMMA RunnerReads ==
  ASSUME TypeOK, Reads
  PROVE  /\ UNCHANGED <<row, finished, sessionVars, budgetVars>>
         /\ known' \subseteq Job /\ \A c \in known' : c \in known \/ row[c] = "pending"
BY DEF TypeOK, Reads, initialize_databases, notify

\* The row that a worker stores after a failure.
LEMMA StoresState ==
  ASSUME TypeOK, NEW w \in Session, retry_postpone(w) \/ perform_failed(w)
  PROVE  \E j \in jobOf[w], state \in {"wait_dependencies", "pending", "failed"} :
           /\ j \in Job /\ Stores(w, j, state)
           /\ state = "wait_dependencies" => retry_postpone(w) /\ Parents[j] # {}
           /\ state = "wait_dependencies" => \E p \in Parents[j] : snapshot[w][p] # "done"
           /\ state = "pending" => \A p \in Parents[j] : snapshot[w][p] = "done"
<1>1. jobOf[w] \subseteq Job
  BY DEF TypeOK
<1>2. CASE perform_failed(w)
  <2>1. PICK j \in jobOf[w] : Stores(w, j, "failed")
    BY <1>2 DEF perform_failed
  <2>2. QED
    BY <1>1, <2>1
<1>3. CASE retry_postpone(w)
  <2>1. PICK j \in jobOf[w] : Stores(w, j, IF \E p \in Parents[j] : snapshot[w][p] # "done"
                                         THEN "wait_dependencies" ELSE "pending")
    BY <1>3 DEF retry_postpone
  <2>2. CASE \E p \in Parents[j] : snapshot[w][p] # "done"
    <3>1. Stores(w, j, "wait_dependencies")
      BY <2>1, <2>2
    <3>2. QED
      BY <1>1, <1>3, <2>2, <3>1
  <2>3. CASE ~ \E p \in Parents[j] : snapshot[w][p] # "done"
    <3>1. Stores(w, j, "pending")
      BY <2>1, <2>3
    <3>2. QED
      BY <1>1, <2>3, <3>1
  <2>4. QED
    BY <2>2, <2>3
<1>4. QED
  BY <1>2, <1>3

LEMMA TypeStep ==
  ASSUME DependenciesAssumption, TypeOK, \A s \in Session : WritesFresh(s), [Next]_vars
  PROVE  TypeOK'
<1>1. CASE Reads
  BY <1>1, RunnerReads DEF TypeOK, sessionVars, budgetVars
<1>2. ASSUME NEW j \in Job, set_job_enqueued(j) PROVE TypeOK'
  <2>1. /\ Sets({}, j, "enqueued") /\ "enqueued" \in States /\ known' \subseteq known
        /\ UNCHANGED <<pc, jobOf, snapshot, writes, button, edits, failures, crashes>>
    BY <1>2 DEF set_job_enqueued, States, budgetVars
  <2>2. QED
    BY <2>1, SetsType DEF TypeOK
<1>3. ASSUME NEW j \in Job, requeue_dead_jobs(j) PROVE TypeOK'
  <2>1. PICK state \in {"pending", "failed"} : Sets({}, j, state)
    BY <1>3 DEF requeue_dead_jobs
  <2>2. /\ state \in States /\ crashes' \in Nat
        /\ UNCHANGED <<known, pc, jobOf, snapshot, writes, button, edits, failures>>
    BY <1>3 DEF requeue_dead_jobs, States, TypeOK
  <2>3. QED
    BY <2>1, <2>2, SetsType DEF TypeOK
<1>4. ASSUME NEW w \in Session, NEW j \in Job, _acquire_job(w, j) PROVE TypeOK'
  <2>1. /\ Sets({w}, j, "started") /\ "started" \in States
        /\ UNCHANGED <<known, writes, button, edits, failures, crashes>>
    BY <1>4 DEF _acquire_job, States, budgetVars
  <2>2. /\ pc' \in [Session -> {"idle", "performing", "dependents", "updating",
                                "committing", "pressed", "stored"}]
        /\ jobOf' \in [Session -> SUBSET Job]
        /\ snapshot' \in [Session -> [Job -> States]]
    <3> DEFINE read == [c \in Job |-> IF c \in Parents[j] THEN row[c] ELSE Created[c]]
    <3>1. read \in [Job -> States]
      BY CreatedType DEF TypeOK
    <3>2. \/ /\ pc' = [pc EXCEPT ![w] = "performing"] /\ jobOf' = [jobOf EXCEPT ![w] = {j}]
             /\ snapshot' = [snapshot EXCEPT ![w] = read]
          \/ UNCHANGED <<pc, jobOf, snapshot>>
      BY <1>4 DEF _acquire_job
    <3> HIDE DEF read
    <3>3. CASE UNCHANGED <<pc, jobOf, snapshot>>
      BY <3>3 DEF TypeOK
    <3>4. CASE /\ pc' = [pc EXCEPT ![w] = "performing"] /\ jobOf' = [jobOf EXCEPT ![w] = {j}]
               /\ snapshot' = [snapshot EXCEPT ![w] = read]
      <4>1. {j} \in SUBSET Job
        OBVIOUS
      <4>2. QED
        BY <3>1, <3>4, <4>1 DEF TypeOK
    <3>5. QED
      BY <3>2, <3>3, <3>4
  <2>3. QED
    BY <2>1, <2>2, SetsType DEF TypeOK
<1>5. ASSUME NEW w \in Session, perform_done(w) PROVE TypeOK'
  <2>1. PICK j \in Job : Sets({w}, j, "done")
    BY <1>5 DEF TypeOK, perform_done
  <2>2. /\ pc' = [pc EXCEPT ![w] = "dependents"] /\ "done" \in States
        /\ UNCHANGED <<known, jobOf, snapshot, writes, button, edits, failures, crashes>>
    BY <1>5 DEF perform_done, budgetVars, States
  <2>3. QED
    BY <2>1, <2>2, SetsType DEF TypeOK
<1>6. ASSUME NEW w \in Session, retry_postpone(w) \/ perform_failed(w) PROVE TypeOK'
  <2>1. PICK j \in jobOf[w], state \in {"wait_dependencies", "pending", "failed"} :
          /\ j \in Job /\ Stores(w, j, state)
          /\ state = "wait_dependencies" => Parents[j] # {}
    BY <1>6, StoresState
  <2>2. /\ Sets({w}, j, state) /\ Ends(w) /\ UNCHANGED <<known, edits, crashes>>
        /\ failures' \in Nat /\ state \in States
    BY <2>1 DEF Stores, TypeOK, States
  <2>3. QED
    BY <2>1, <2>2, SetsType, EndsType DEF TypeOK
<1>7. ASSUME NEW w \in Session, enqueue_dependent_jobs(w) PROVE TypeOK'
  <2>1. jobOf[w] \in SUBSET Job /\ button[w] \in {"done", "cancelled", "pending"}
        /\ {edits', failures', crashes'} \subseteq Nat
    BY <1>7 DEF TypeOK, enqueue_dependent_jobs, budgetVars
  <2>2. QED
    BY <1>7, <2>1, BeginsType DEF enqueue_dependent_jobs
<1>8. ASSUME NEW w \in Session, enqueue_waiting(w) PROVE TypeOK'
  <2>1. writes' \in [Session -> [Job -> States \cup {Unwritten}]]
    BY <1>8 DEF TypeOK, enqueue_waiting, States
  <2>2. pc' = [pc EXCEPT ![w] = "committing"]
        /\ UNCHANGED <<row, finished, known, jobOf, snapshot, changed, button, edits,
                       failures, crashes>>
    BY <1>8 DEF enqueue_waiting, rowVars, budgetVars
  <2>3. pc' \in [Session -> {"idle", "performing", "dependents", "updating", "committing",
                            "pressed", "stored"}]
    BY <2>2 DEF TypeOK
  <2>4. QED
    BY <2>1, <2>2, <2>3 DEF TypeOK
<1>9. ASSUME NEW s \in Session, commit_dependents(s) \/ commit_user(s) PROVE TypeOK'
  <2>1. /\ writes[s] \in [Job -> States \cup {Unwritten}] /\ Commit({s}, writes[s]) /\ Ends(s)
        /\ UNCHANGED <<known, budgetVars>>
    BY <1>9 DEF TypeOK, commit_dependents, commit_user
  <2>2. \A c \in Job : writes[s][c] = "wait_dependencies" => Parents[c] # {}
    BY DEF WritesFresh, Unwritten
  <2>3. QED
    BY <2>1, <2>2, CommitType, EndsType DEF TypeOK, budgetVars
<1>10. ASSUME NEW w \in Session, enqueue_waiting_failed(w) \/ crash(w) PROVE TypeOK'
  <2>1. Rollback(w)
    BY <1>10 DEF enqueue_waiting_failed, crash
  <2>2. {edits', failures', crashes'} \subseteq Nat
    BY <1>10 DEF enqueue_waiting_failed, crash, budgetVars, TypeOK
  <2>3. QED
    BY <2>1, <2>2, RollbackType
<1>11. ASSUME NEW u \in Session, NEW j \in Job, NEW b \in Buttons, press(u, j, b) PROVE TypeOK'
  <2>1. {j} \in SUBSET Job /\ b \in {"done", "cancelled", "pending"}
        /\ {edits', failures', crashes'} \subseteq Nat
    BY <1>11 DEF TypeOK, press, DependenciesAssumption
  <2>2. QED
    BY <1>11, <2>1, BeginsType DEF press
<1>12. ASSUME NEW u \in Session, change_job_state(u) PROVE TypeOK'
  <2>1. \A j \in Job : Target(u, j) \in States
    BY DEF TypeOK, Target, States
  <2>2. writes' \in [Session -> [Job -> States \cup {Unwritten}]]
    BY <1>12, <2>1 DEF TypeOK, change_job_state, States
  <2>3. pc' = [pc EXCEPT ![u] = "stored"]
        /\ UNCHANGED <<row, finished, known, jobOf, snapshot, changed, button, edits,
                       failures, crashes>>
    BY <1>12 DEF change_job_state, rowVars, budgetVars
  <2>4. pc' \in [Session -> {"idle", "performing", "dependents", "updating", "committing",
                            "pressed", "stored"}]
    BY <2>3 DEF TypeOK
  <2>5. QED
    BY <2>2, <2>3, <2>4 DEF TypeOK
<1>13. ASSUME NEW u \in Session, change_job_state_failed(u) PROVE TypeOK'
  <2>1. PICK j \in Job : Begins(u, "pressed", {j}, button[u]) \/ Rollback(u)
    BY <1>13 DEF TypeOK, change_job_state_failed
  <2>2. {j} \in SUBSET Job /\ button[u] \in {"done", "cancelled", "pending"}
        /\ {edits', failures', crashes'} \subseteq Nat
    BY <1>13 DEF TypeOK, change_job_state_failed, budgetVars
  <2>3. QED
    BY <2>1, <2>2, BeginsType, RollbackType
<1>14. CASE UNCHANGED vars
  BY <1>14 DEF TypeOK, vars, rowVars, sessionVars, budgetVars
<1>15. QED
  BY <1>1, <1>2, <1>3, <1>4, <1>5, <1>6, <1>7, <1>8, <1>9, <1>10, <1>11, <1>12, <1>13, <1>14
     DEF Next, RunnerStep, WorkerStep, UserStep, Reads

-----------------------------------------------------------------------------
(* Transactions *)

\* A session that has ended its transaction is isolated, whatever it was.
LEMMA EndedOK ==
  ASSUME TypeOK, NEW s \in Session, Ends(s)
  PROVE  SessionOK(s)' /\ \A t \in Session \ {s} : Stays(t) /\ Apart(s, t)'
<1>1. pc'[s] = "idle" /\ jobOf'[s] = {} /\ writes'[s] = Nothing
  BY DEF TypeOK, Ends
<1>2. SessionOK(s)'
  BY <1>1 DEF SessionOK, Works, SnapshotIsFresh, WritesFresh, Reading, Nothing
<1>3. ASSUME NEW t \in Session \ {s} PROVE Stays(t) /\ Apart(s, t)'
  BY <1>1 DEF TypeOK, Ends, Stays, Apart, Nothing
<1>4. QED
  BY <1>2, <1>3

\* One session acts and commits nothing.
LEMMA OneActs ==
  ASSUME Isolation, TypeOK', row' = row, NEW s \in Session, SessionOK(s)',
         \A t \in Session \ {s} : Stays(t) /\ changed'[t] = changed[t] /\ Apart(s, t)'
  PROVE  Isolation'
<1>1. \A t \in Session \ {s} : SessionOK(t)'
  BY OthersStay
<1>2. /\ \A t \in Session \ {s} : Stays(t) /\ changed[t] \subseteq changed'[t]
      /\ \A u \in Session, t \in Session : u \in {s} /\ u # t => Apart(u, t)'
  OBVIOUS
<1>3. \A u, t \in Session : u # t => Apart(u, t)'
  BY <1>2, StayApart
<1>4. QED
  BY <1>1, <1>3 DEF Isolation

\* A transaction that is rolled back leaves the others as they are.
LEMMA RollbackIsolated ==
  ASSUME Isolation, NEW s \in Session, Rollback(s), TypeOK'
  PROVE  Isolation'
<1>1. SessionOK(s)' /\ \A t \in Session \ {s} : Stays(t) /\ Apart(s, t)'
  BY EndedOK DEF Isolation, Rollback
<1>2. row' = row /\ \A t \in Session \ {s} : changed'[t] = changed[t]
  BY DEF Isolation, TypeOK, Rollback, rowVars
<1>3. QED
  BY <1>1, <1>2, OneActs

\* A transaction that begins takes its snapshot of the committed rows.
LEMMA BeginIsolated ==
  ASSUME Isolation, NEW s \in Session, NEW where \in {"updating", "pressed"},
         NEW J \in SUBSET Job, NEW b, Begins(s, where, J, b), TypeOK',
         pc[s] \notin Writing, \A i, j \in J : i = j,
         where = "pressed" => \A j \in J : row[j] \in StatesFrom(b)
  PROVE  Isolation'
<1>1. /\ pc'[s] = where /\ jobOf'[s] = J /\ snapshot'[s] = row /\ changed'[s] = {}
      /\ button'[s] = b /\ writes' = writes /\ row' = row
      /\ \A t \in Session \ {s} : Stays(t) /\ changed'[t] = changed[t]
  BY DEF Isolation, TypeOK, Begins, Stays, rowVars
<1>2. writes[s] = Nothing
  BY DEF Isolation, SessionOK, Works
<1>3. Works(s)'
  BY <1>1, <1>2 DEF Works, Nothing
<1>4. SnapshotIsFresh(s)'
  BY <1>1 DEF SnapshotIsFresh
<1>5. WritesFresh(s)'
  BY <1>1, <1>2 DEF WritesFresh, Nothing
<1>6. \A t \in Session \ {s} : Apart(s, t)'
  BY <1>1, <1>2 DEF Apart, Nothing
<1>7. QED
  BY <1>1, <1>3, <1>4, <1>5, <1>6, OneActs DEF SessionOK

\* A session has its rows updated: they are free and unchanged.
Updates(s, S, to) ==
  /\ S \subseteq Job /\ pc[s] \in {"updating", "pressed"}
  /\ to \in Writing /\ (to = "stored" => pc[s] = "pressed")
  /\ pc' = [pc EXCEPT ![s] = to]
  /\ ~Waits({s}, S) /\ S \cap changed[s] = {}
  /\ \A c \in Job \ S : writes'[s][c] = Unwritten
  /\ \A c \in S : /\ \/ snapshot[s][c] = "wait_dependencies"
                     \/ to = "stored" /\ c \in jobOf[s]
                  /\ writes'[s][c] = "wait_dependencies" => Parents[c] # {}
                  /\ writes'[s][c] \notin {"enqueued", "started"}
  /\ \A t \in Session \ {s} : writes'[t] = writes[t]
  /\ UNCHANGED <<rowVars, jobOf, snapshot, changed, button>>

LEMMA UpdateIsolated ==
  ASSUME Isolation, NEW s \in Session, NEW S, NEW to, Updates(s, S, to), TypeOK'
  PROVE  Isolation'
<1> USE DEF Updates
<1>1. /\ row' = row /\ pc'[s] = to
      /\ \A t \in Session \ {s} : Stays(t) /\ changed'[t] = changed[t]
  BY DEF Isolation, TypeOK, Stays, rowVars
<1>2. Works(s)'
  BY <1>1 DEF Isolation, SessionOK, Works, Writing
<1>3. SnapshotIsFresh(s)'
  BY <1>1 DEF Isolation, SessionOK, SnapshotIsFresh, Writing, Reading
<1>4. WritesFresh(s)'
  BY <1>1 DEF Isolation, SessionOK, WritesFresh, Writing
<1>5. \A t \in Session \ {s} : Apart(s, t)'
  BY <1>1 DEF Waits, Apart, Writing
<1>6. QED
  BY <1>1, <1>2, <1>3, <1>4, <1>5, OneActs DEF SessionOK

\* A commit of rows that nobody else has written.
LEMMA CommitIsolated ==
  ASSUME Isolation, NEW me, NEW new, Commit(me, new), Free(me, new),
         \A s \in Session : s \in me => SessionOK(s)',
         \A t \in Session \ me : Stays(t),
         \A s \in Session, t \in Session : s \in me /\ s # t => Apart(s, t)', TypeOK'
  PROVE  Isolation'
<1>1. \A t \in Session \ me : SessionOK(t)' /\ changed[t] \subseteq changed'[t]
  BY OthersSeeCommit
<1>2. \A u, t \in Session : u # t => Apart(u, t)'
  BY <1>1, StayApart
<1>3. QED
  BY <1>1, <1>2 DEF Isolation

\* One row is updated by nobody's session, or by that of w.
LEMMA SetIsolated ==
  ASSUME Isolation, NEW j \in Job, NEW state \in States, Sets({}, j, state),
         \A t \in Session : Stays(t), TypeOK'
  PROVE  Isolation'
<1>1. /\ Commit({}, One(j, state))
      /\ \A c \in Job : One(j, state)[c] = IF c = j THEN state ELSE Unwritten
      /\ \A t \in Session \ {} : writes[t][j] = Unwritten
  BY Setting
<1>2. Free({}, One(j, state))
  BY <1>1 DEF Free
<1>3. QED
  BY <1>1, <1>2, CommitIsolated

LEMMA SetsIsolated ==
  ASSUME Isolation, NEW w \in Session, NEW j \in Job, NEW state \in States,
         Sets({w}, j, state), SessionOK(w)',
         \A t \in Session \ {w} : Stays(t) /\ Apart(w, t)', TypeOK'
  PROVE  Isolation'
<1>1. /\ Commit({w}, One(j, state))
      /\ \A c \in Job : One(j, state)[c] = IF c = j THEN state ELSE Unwritten
      /\ \A t \in Session \ {w} : writes[t][j] = Unwritten
  <2> DEFINE me == {w}
  <2>1. Sets(me, j, state)
    OBVIOUS
  <2> HIDE DEF me
  <2>2. /\ Commit(me, One(j, state))
        /\ \A c \in Job : One(j, state)[c] = IF c = j THEN state ELSE Unwritten
        /\ \A t \in Session \ me : writes[t][j] = Unwritten
    BY <2>1, Setting
  <2>3. QED
    BY <2>2 DEF me
<1>2. Free({w}, One(j, state))
  BY <1>1 DEF Free
<1>3. QED
  BY <1>1, <1>2, CommitIsolated

-----------------------------------------------------------------------------
(* The steps *)

\* The dependents that a session finds wait in its snapshot.
LEMMA DependentsWait ==
  ASSUME Isolation, NEW s \in Session, pc[s] \notin Writing, NEW j, NEW state
  PROVE  /\ Dependents(s, j, state) \subseteq Job
         /\ \A c \in Dependents(s, j, state) :
               /\ snapshot[s][c] = "wait_dependencies"
               /\ \A p \in Parents[c] : p # j /\ p \in Job => snapshot[s][p] = state
<1>1. writes[s] = Nothing
  BY DEF Isolation, SessionOK, Works
<1>2. QED
  BY <1>1 DEF Dependents, Seen, Nothing

LEMMA IsolationStep ==
  ASSUME DependenciesAssumption, Isolation, [Next]_vars
  PROVE  Isolation'
<1>0. TypeOK'
  BY TypeStep DEF Isolation, SessionOK
<1>1. CASE Reads \/ UNCHANGED vars
  <2>1. UNCHANGED <<row, pc, jobOf, snapshot, changed, writes, button>>
    BY <1>1, RunnerReads DEF Isolation, vars, rowVars, sessionVars
  <2>2. \A s \in Session : SessionOK(s)'
    BY <2>1 DEF Isolation, SessionOK, Works, SnapshotIsFresh, WritesFresh
  <2>3. \A s, t \in Session : s # t => Apart(s, t)'
    BY <2>1 DEF Isolation, Apart
  <2>4. QED
    BY <1>0, <2>2, <2>3 DEF Isolation
<1>2. ASSUME NEW j \in Job, set_job_enqueued(j) \/ requeue_dead_jobs(j) PROVE Isolation'
  <2>1. PICK state \in {"enqueued", "pending", "failed"} : Sets({}, j, state)
    BY <1>2 DEF set_job_enqueued, requeue_dead_jobs
  <2>2. state \in States /\ \A t \in Session : Stays(t)
    BY <1>2 DEF States, Stays, set_job_enqueued, requeue_dead_jobs
  <2>3. QED
    BY <1>0, <2>1, <2>2, SetIsolated
<1>3. ASSUME NEW w \in Session, NEW j \in Job, _acquire_job(w, j) PROVE Isolation'
  <2>1. /\ Sets({w}, j, "started") /\ pc[w] = "idle" /\ row[j] = "enqueued"
        /\ "started" \in States /\ UNCHANGED <<writes, button>>
        /\ \/ /\ pc' = [pc EXCEPT ![w] = "performing"] /\ jobOf' = [jobOf EXCEPT ![w] = {j}]
              /\ snapshot' = [snapshot EXCEPT ![w] =
                   [c \in Job |-> IF c \in Parents[j] THEN row[c] ELSE Created[c]]]
           \/ UNCHANGED <<pc, jobOf, snapshot>>
    BY <1>3 DEF _acquire_job, States
  <2>2. /\ \A t \in Session \ {w} : Stays(t)
        /\ \/ pc'[w] = "performing" /\ jobOf'[w] = {j}
           \/ pc'[w] = "idle" /\ jobOf'[w] = jobOf[w]
    BY <2>1 DEF Isolation, TypeOK, Stays
  <2>3. /\ row'[j] = "started" /\ changed'[w] = {}
        /\ \A t \in Session \ {w} : pc[t] = "performing" => j \in changed'[t]
    <3>1. Commit({w}, One(j, "started")) /\ One(j, "started")[j] # Unwritten
          /\ One(j, "started")[j] = "started"
      BY <2>1, Setting
    <3>2. QED
      BY <3>1 DEF Commit
  <2>4. writes'[w] = Nothing
    BY <2>1 DEF Isolation, SessionOK, Works, Writing
  <2>5. SessionOK(w)'
    BY <2>2, <2>3, <2>4
       DEF Isolation, SessionOK, Works, SnapshotIsFresh, WritesFresh, Reading, Writing, Nothing
  <2>6. ASSUME NEW t \in Session \ {w} PROVE Apart(w, t)'
    <3>1. CASE pc'[w] = "performing" /\ jobOf'[w] = {j} /\ pc[t] = "performing"
      BY <2>3, <2>4, <3>1 DEF Apart, Nothing
    <3>2. CASE ~(pc'[w] = "performing" /\ pc[t] = "performing")
      BY <2>2, <2>4, <3>2 DEF Apart, Nothing, Stays
    <3>3. QED
      BY <2>2, <3>1, <3>2
  <2>7. QED
    BY <1>0, <2>1, <2>2, <2>5, <2>6, SetsIsolated
<1>4. ASSUME NEW w \in Session, perform_done(w) PROVE Isolation'
  <2>1. PICK j \in jobOf[w] : Sets({w}, j, "done")
    BY <1>4 DEF perform_done
  <2>2. /\ pc[w] = "performing" /\ pc'[w] = "dependents" /\ jobOf' = jobOf /\ writes' = writes
        /\ j \in Job /\ "done" \in States /\ \A t \in Session \ {w} : Stays(t)
    BY <1>4 DEF perform_done, Isolation, TypeOK, Stays, States
  <2>3. SessionOK(w)'
    BY <2>2 DEF Isolation, SessionOK, Works, SnapshotIsFresh, WritesFresh, Reading, Writing, Nothing
  <2>4. \A t \in Session \ {w} : Apart(w, t)'
    BY <2>2 DEF Isolation, SessionOK, Works, Apart, Writing, Nothing
  <2>5. QED
    BY <1>0, <2>1, <2>2, <2>3, <2>4, SetsIsolated
<1>5. ASSUME NEW w \in Session, retry_postpone(w) \/ perform_failed(w) PROVE Isolation'
  <2>1. PICK j \in jobOf[w], state \in {"wait_dependencies", "pending", "failed"} :
          j \in Job /\ Stores(w, j, state)
    BY <1>5, StoresState DEF Isolation
  <2>2. Sets({w}, j, state) /\ Ends(w) /\ state \in States
    BY <2>1 DEF Stores, States
  <2>3. SessionOK(w)' /\ \A t \in Session \ {w} : Stays(t) /\ Apart(w, t)'
    BY <2>2, EndedOK DEF Isolation
  <2>4. QED
    BY <1>0, <2>1, <2>2, <2>3, SetsIsolated
<1>6. ASSUME NEW w \in Session, enqueue_dependent_jobs(w) PROVE Isolation'
  <2>1. pc[w] \notin Writing /\ jobOf[w] \in SUBSET Job /\ \A i, j \in jobOf[w] : i = j
    BY <1>6 DEF enqueue_dependent_jobs, Writing, Isolation, TypeOK, SessionOK, Works
  <2>2. QED
    BY <1>0, <1>6, <2>1, BeginIsolated DEF enqueue_dependent_jobs
<1>7. ASSUME NEW w \in Session, enqueue_waiting(w) PROVE Isolation'
  <2>1. PICK j \in jobOf[w] :
          /\ pc[w] = "updating" /\ ~Waits({w}, Dependents(w, j, "done"))
          /\ Dependents(w, j, "done") \cap changed[w] = {}
          /\ writes' = [writes EXCEPT ![w] =
               [c \in Job |-> IF c \in Dependents(w, j, "done") THEN "pending" ELSE @[c]]]
          /\ pc' = [pc EXCEPT ![w] = "committing"]
          /\ UNCHANGED <<rowVars, jobOf, snapshot, changed, button>>
    BY <1>7 DEF enqueue_waiting
  <2> DEFINE S == Dependents(w, j, "done")
  <2>2. S \subseteq Job /\ \A c \in S : snapshot[w][c] = "wait_dependencies"
    BY <2>1, DependentsWait DEF Writing
  <2> HIDE DEF S
  <2>3. writes[w] = Nothing
    BY <2>1 DEF Isolation, SessionOK, Works, Writing
  <2>4. /\ \A c \in Job \ S : writes'[w][c] = Unwritten
        /\ \A c \in S : writes'[w][c] = "pending"
        /\ \A t \in Session \ {w} : writes'[t] = writes[t]
    BY <2>1, <2>2, <2>3 DEF S, Nothing, Isolation, TypeOK
  <2>5. ~Waits({w}, S) /\ S \cap changed[w] = {}
    BY <2>1 DEF S
  <2>6. /\ S \in SUBSET Job /\ "committing" \in Writing
        /\ pc[w] \in {"updating", "pressed"}
        /\ pc' = [pc EXCEPT ![w] = "committing"]
        /\ UNCHANGED <<rowVars, jobOf, snapshot, changed, button>>
    BY <2>1, <2>2 DEF Writing
  <2>7. \A c \in S :
          /\ \/ snapshot[w][c] = "wait_dependencies"
             \/ "committing" = "stored" /\ c \in jobOf[w]
          /\ writes'[w][c] = "wait_dependencies" => Parents[c] # {}
          /\ writes'[w][c] \notin {"enqueued", "started"}
    BY <2>2, <2>4
  <2>8. QED
    <3>1. Updates(w, S, "committing")
      BY <2>4, <2>5, <2>6, <2>7 DEF Updates
    <3>2. QED
      BY <1>0, <3>1, UpdateIsolated
<1>8. ASSUME NEW s \in Session, commit_dependents(s) \/ commit_user(s) PROVE Isolation'
  <2>1. Commit({s}, writes[s]) /\ Ends(s)
    BY <1>8 DEF commit_dependents, commit_user
  <2>2. Free({s}, writes[s])
    BY DEF Isolation, Apart, Free
  <2>3. SessionOK(s)' /\ \A t \in Session \ {s} : Stays(t) /\ Apart(s, t)'
    BY <2>1, EndedOK DEF Isolation
  <2>4. QED
    BY <1>0, <2>1, <2>2, <2>3, CommitIsolated
<1>9. ASSUME NEW w \in Session, enqueue_waiting_failed(w) \/ crash(w) PROVE Isolation'
  <2>1. Rollback(w)
    BY <1>9 DEF enqueue_waiting_failed, crash
  <2>2. QED
    BY <1>0, <2>1, RollbackIsolated
<1>10. ASSUME NEW u \in Session, NEW j \in Job, NEW b \in Buttons, press(u, j, b)
      PROVE  Isolation'
  <2>1. /\ pc[u] \notin Writing /\ {j} \in SUBSET Job /\ \A i, k \in {j} : i = k
        /\ \A k \in {j} : row[k] \in StatesFrom(b)
    BY <1>10 DEF press, Writing
  <2>2. QED
    BY <1>0, <1>10, <2>1, BeginIsolated DEF press
<1>11. ASSUME NEW u \in Session, change_job_state(u) PROVE Isolation'
  <2>1. PICK j \in jobOf[u] :
          /\ pc[u] = "pressed" /\ ~Waits({u}, Updated(u, j))
          /\ Updated(u, j) \cap changed[u] = {}
          /\ writes' = [writes EXCEPT ![u] = [c \in Job |->
               CASE c = j -> Target(u, j)
                 [] c \in Updated(u, j) \ {j} -> IF button[u] = "done" THEN "pending"
                                                 ELSE "cancelled"
                 [] OTHER -> @[c]]]
          /\ pc' = [pc EXCEPT ![u] = "stored"]
          /\ UNCHANGED <<rowVars, jobOf, snapshot, changed, button>>
    BY <1>11 DEF change_job_state
  <2> DEFINE S == Updated(u, j)
  <2>2. j \in Job /\ writes[u] = Nothing
    <3>1. j \in Job /\ pc[u] = "pressed"
      BY <2>1 DEF Isolation, TypeOK
    <3>2. QED
      BY <3>1 DEF Isolation, SessionOK, Works, Writing
  <2>3. /\ S \subseteq Job /\ j \in S
        /\ \A c \in S \ {j} : snapshot[u][c] = "wait_dependencies"
    BY <2>1, <2>2, DependentsWait DEF Updated, Writing
  <2> HIDE DEF S
  <2>4. /\ writes'[u][j] = Target(u, j)
        /\ \A c \in S \ {j} : writes'[u][c] \in {"pending", "cancelled"}
        /\ \A c \in Job \ S : writes'[u][c] = Unwritten
        /\ \A t \in Session \ {u} : writes'[t] = writes[t]
    BY <2>1, <2>2, <2>3 DEF S, Nothing, Isolation, TypeOK
  <2>5. /\ Target(u, j) \notin {"enqueued", "started"}
        /\ Target(u, j) = "wait_dependencies" => Parents[j] # {}
    BY DEF Target, Isolation, TypeOK
  <2>6. ~Waits({u}, S) /\ S \cap changed[u] = {}
    BY <2>1 DEF S
  <2>7. /\ S \in SUBSET Job /\ "stored" \in Writing
        /\ pc[u] \in {"updating", "pressed"} /\ ("stored" = "stored" => pc[u] = "pressed")
        /\ pc' = [pc EXCEPT ![u] = "stored"]
        /\ UNCHANGED <<rowVars, jobOf, snapshot, changed, button>>
    BY <2>1, <2>3 DEF Writing
  <2>8. \A c \in S :
          /\ \/ snapshot[u][c] = "wait_dependencies"
             \/ "stored" = "stored" /\ c \in jobOf[u]
          /\ writes'[u][c] = "wait_dependencies" => Parents[c] # {}
          /\ writes'[u][c] \notin {"enqueued", "started"}
    BY <2>3, <2>4, <2>5
  <2>9. QED
    <3>1. Updates(u, S, "stored")
      BY <2>4, <2>6, <2>7, <2>8 DEF Updates
    <3>2. QED
      BY <1>0, <3>1, UpdateIsolated
<1>12. ASSUME NEW u \in Session, change_job_state_failed(u) PROVE Isolation'
  <2>1. PICK j \in jobOf[u] :
          /\ pc[u] = "pressed"
          /\ \/ row[j] \in StatesFrom(button[u]) /\ Begins(u, "pressed", {j}, button[u])
             \/ Rollback(u)
    BY <1>12 DEF change_job_state_failed
  <2>2. pc[u] \notin Writing /\ {j} \in SUBSET Job /\ \A i, k \in {j} : i = k
    BY <2>1 DEF Writing, Isolation, TypeOK
  <2>3. CASE row[j] \in StatesFrom(button[u]) /\ Begins(u, "pressed", {j}, button[u])
    <3>1. \A k \in {j} : row[k] \in StatesFrom(button[u])
      BY <2>3
    <3>2. QED
      BY <1>0, <2>2, <2>3, <3>1, BeginIsolated
  <2>4. CASE Rollback(u)
    BY <1>0, <2>4, RollbackIsolated
  <2>5. QED
    BY <2>1, <2>3, <2>4
<1>13. QED
  BY <1>1, <1>2, <1>3, <1>4, <1>5, <1>6, <1>7, <1>8, <1>9, <1>10, <1>11, <1>12
     DEF Next, RunnerStep, WorkerStep, UserStep, Reads

-----------------------------------------------------------------------------
(* Parents *)

\* The rows tell of jobs that have been done, and only jobs whose parents have been
\* done are released, or known by the runner.
RowsReleased ==
  \A j \in Job : /\ row[j] = "done" => j \in finished
                 /\ row[j] \in {"pending", "enqueued", "started"} => Parents[j] \subseteq finished
                 /\ j \in known => Parents[j] \subseteq finished

\* So do the snapshots, and what a session is about to commit.
Releases(s) ==
  /\ \A j \in Job : snapshot[s][j] = "done" => j \in finished
  /\ pc[s] \in {"dependents", "updating"} => jobOf[s] \subseteq finished
  /\ \A c \in Job : writes[s][c] = "pending" =>
       \A p \in Parents[c] : p \in finished \/ writes[s][p] = "done"

Released == /\ RowsReleased
            /\ \A s \in Session : Releases(s)

\* A session that does not act: finished jobs stay finished.
LEMMA OthersRelease ==
  ASSUME Isolation, Released, NEW t \in Session, Stays(t), finished \subseteq finished'
  PROVE  Releases(t)'
BY DEF Released, Releases, Stays

LEMMA CommitReleases ==
  ASSUME DependenciesAssumption, Isolation, Released, NEW me,
         NEW new \in [Job -> States \cup {Unwritten}], Commit(me, new), known' \subseteq known,
         \A c \in Job : new[c] \in {"pending", "enqueued", "started"} =>
            \A p \in Parents[c] : p \in finished \/ new[p] = "done"
  PROVE  RowsReleased' /\ finished \subseteq finished'
<1>1. /\ \A c \in Job : row'[c] = IF new[c] # Unwritten THEN new[c] ELSE row[c]
      /\ finished' = finished \cup {j \in Job : new[j] = "done"}
  BY DEF Commit
<1>2. ASSUME NEW j \in Job, row'[j] = "done" PROVE j \in finished'
  BY <1>1, <1>2 DEF Released, RowsReleased
<1>3. ASSUME NEW j \in Job, row'[j] \in {"pending", "enqueued", "started"}
      PROVE  Parents[j] \subseteq finished'
  <2>1. Parents[j] \subseteq Job
    BY DEF DependenciesAssumption
  <2>2. QED
    BY <1>1, <1>3, <2>1 DEF Released, RowsReleased
<1>4. ASSUME NEW j \in Job, j \in known' PROVE Parents[j] \subseteq finished'
  BY <1>1, <1>4 DEF Released, RowsReleased
<1>5. QED
  BY <1>1, <1>2, <1>3, <1>4 DEF RowsReleased

\* One row is updated, by no session or by that of w.
LEMMA SetsReleases ==
  ASSUME DependenciesAssumption, Isolation, Released, NEW me, NEW j \in Job,
         NEW state \in States, Sets(me, j, state), known' \subseteq known,
         state \in {"pending", "enqueued", "started"} => Parents[j] \subseteq finished
  PROVE  /\ RowsReleased' /\ finished \subseteq finished'
         /\ state = "done" => j \in finished'
<1>1. /\ Commit(me, One(j, state)) /\ One(j, state) \in [Job -> States \cup {Unwritten}]
      /\ \A c \in Job : One(j, state)[c] = IF c = j THEN state ELSE Unwritten
  BY Setting
<1>2. \A c \in Job : One(j, state)[c] \in {"pending", "enqueued", "started"} =>
        \A p \in Parents[c] : p \in finished \/ One(j, state)[p] = "done"
  BY <1>1 DEF Unwritten
<1>3. RowsReleased' /\ finished \subseteq finished'
  BY <1>1, <1>2, CommitReleases
<1>4. state = "done" => j \in finished'
  BY <1>1 DEF Commit
<1>5. QED
  BY <1>3, <1>4

LEMMA CreatedReleases ==
  ASSUME DependenciesAssumption, NEW j \in Job
  PROVE  Created[j] \in {"pending", "wait_dependencies"}
         /\ (Created[j] = "pending" => Parents[j] = {})
BY DEF Created

LEMMA EndsReleases ==
  ASSUME DependenciesAssumption, Isolation, NEW s \in Session, Ends(s)
  PROVE  Releases(s)'
<1>1. pc'[s] = "idle" /\ snapshot'[s] = Created /\ writes'[s] = Nothing
  BY DEF Isolation, TypeOK, Ends
<1>2. QED
  BY <1>1, CreatedReleases DEF Releases, Nothing, Unwritten

LEMMA RollbackReleases ==
  ASSUME DependenciesAssumption, Isolation, Released, NEW s \in Session, Rollback(s)
  PROVE  Released'
<1>1. Releases(s)' /\ \A t \in Session \ {s} : Stays(t)
  BY EndsReleases, EndedOK DEF Isolation, Rollback
<1>2. row' = row /\ finished' = finished /\ known' = known
  BY DEF Rollback, rowVars
<1>3. QED
  BY <1>1, <1>2, OthersRelease DEF Released, RowsReleased

LEMMA BeginReleases ==
  ASSUME Isolation, Released, NEW s \in Session, NEW where \in {"updating", "pressed"},
         NEW J, NEW b, Begins(s, where, J, b), pc[s] \notin Writing,
         where = "updating" => J \subseteq finished
  PROVE  Released'
<1>1. /\ pc'[s] = where /\ jobOf'[s] = J /\ snapshot'[s] = row /\ writes' = writes
      /\ row' = row /\ finished' = finished /\ known' = known
      /\ \A t \in Session \ {s} : Stays(t)
  BY DEF Isolation, TypeOK, Begins, Stays, rowVars
<1>2. writes[s] = Nothing
  BY DEF Isolation, SessionOK, Works
<1>3. Releases(s)'
  BY <1>1, <1>2 DEF Released, RowsReleased, Releases, Nothing, Unwritten
<1>4. QED
  BY <1>1, <1>3, OthersRelease DEF Released, RowsReleased

LEMMA ReleasedStep ==
  ASSUME DependenciesAssumption, Isolation, Released, [Next]_vars
  PROVE  Released'
<1>1. CASE Reads
  <2>1. /\ UNCHANGED <<row, finished, sessionVars>>
        /\ known' \subseteq Job /\ \A c \in known' : c \in known \/ row[c] = "pending"
    BY <1>1, RunnerReads DEF Isolation
  <2>2. \A s \in Session : Releases(s)'
    BY <2>1 DEF Released, Releases, sessionVars
  <2>3. RowsReleased'
    BY <2>1 DEF Released, RowsReleased
  <2>4. QED
    BY <2>2, <2>3 DEF Released
<1>2. ASSUME NEW j \in Job, set_job_enqueued(j) \/ requeue_dead_jobs(j) PROVE Released'
  <2>1. PICK state \in {"enqueued", "pending", "failed"} : Sets({}, j, state)
    BY <1>2 DEF set_job_enqueued, requeue_dead_jobs
  <2>2. /\ state \in States /\ known' \subseteq known /\ \A t \in Session : Stays(t)
    BY <1>2 DEF States, Stays, set_job_enqueued, requeue_dead_jobs
  <2>3. Parents[j] \subseteq finished
    BY <1>2 DEF set_job_enqueued, requeue_dead_jobs, Released, RowsReleased
  <2>4. RowsReleased' /\ finished \subseteq finished'
    BY <2>1, <2>2, <2>3, SetsReleases
  <2>5. QED
    BY <2>2, <2>4, OthersRelease DEF Released
<1>3. ASSUME NEW w \in Session, NEW j \in Job, _acquire_job(w, j) PROVE Released'
  <2>1. /\ Sets({w}, j, "started") /\ pc[w] = "idle" /\ row[j] = "enqueued"
        /\ "started" \in States /\ UNCHANGED <<known, writes, button>>
        /\ \/ /\ pc' = [pc EXCEPT ![w] = "performing"] /\ jobOf' = [jobOf EXCEPT ![w] = {j}]
              /\ snapshot' = [snapshot EXCEPT ![w] =
                   [c \in Job |-> IF c \in Parents[j] THEN row[c] ELSE Created[c]]]
           \/ UNCHANGED <<pc, jobOf, snapshot>>
    BY <1>3 DEF _acquire_job, States
  <2>2. RowsReleased' /\ finished \subseteq finished'
    <3>1. Parents[j] \subseteq finished
      BY <2>1 DEF Released, RowsReleased
    <3>2. QED
      BY <2>1, <3>1, SetsReleases
  <2>3. /\ \A t \in Session \ {w} : Stays(t)
        /\ pc'[w] \in {"idle", "performing"}
        /\ \A c \in Job : snapshot'[w][c] \in {snapshot[w][c], row[c], Created[c]}
    BY <2>1 DEF Isolation, TypeOK, Stays
  <2>4. Releases(w)'
    <3>1. writes[w] = Nothing
      BY <2>1 DEF Isolation, SessionOK, Works, Writing
    <3>2. \A c \in Job : snapshot'[w][c] = "done" => c \in finished
      BY <2>3, CreatedReleases DEF Released, RowsReleased, Releases
    <3>3. QED
      BY <2>1, <2>2, <2>3, <3>1, <3>2 DEF Releases, Nothing, Unwritten
  <2>5. QED
    BY <2>2, <2>3, <2>4, OthersRelease DEF Released
<1>4. ASSUME NEW w \in Session, perform_done(w) PROVE Released'
  <2>1. PICK j \in jobOf[w] : Sets({w}, j, "done")
    BY <1>4 DEF perform_done
  <2>2. /\ pc'[w] = "dependents" /\ UNCHANGED <<known, jobOf, writes, snapshot>>
        /\ "done" \in States /\ \A t \in Session \ {w} : Stays(t)
    BY <1>4 DEF perform_done, Isolation, TypeOK, Stays, States
  <2>3. j \in Job /\ \A i \in jobOf[w] : i = j
    BY DEF Isolation, TypeOK, SessionOK, Works
  <2>4. RowsReleased' /\ finished \subseteq finished' /\ j \in finished'
    BY <2>1, <2>2, <2>3, SetsReleases
  <2>5. Releases(w)'
    BY <2>2, <2>3, <2>4 DEF Released, Releases
  <2>6. QED
    BY <2>2, <2>4, <2>5, OthersRelease DEF Released
<1>5. ASSUME NEW w \in Session, retry_postpone(w) \/ perform_failed(w) PROVE Released'
  <2>1. PICK j \in jobOf[w], state \in {"wait_dependencies", "pending", "failed"} :
          /\ j \in Job /\ Stores(w, j, state)
          /\ state = "pending" => \A p \in Parents[j] : snapshot[w][p] = "done"
    BY <1>5, StoresState DEF Isolation
  <2>2. Sets({w}, j, state) /\ Ends(w) /\ state \in States /\ known' = known
    BY <2>1 DEF Stores, States
  <2>3. state = "pending" => Parents[j] \subseteq finished
    BY <2>1 DEF Released, Releases, DependenciesAssumption
  <2>4. RowsReleased' /\ finished \subseteq finished'
    BY <2>1, <2>2, <2>3, SetsReleases
  <2>5. Releases(w)' /\ \A t \in Session \ {w} : Stays(t)
    BY <2>2, EndsReleases, EndedOK DEF Isolation
  <2>6. QED
    BY <2>4, <2>5, OthersRelease DEF Released
<1>6. ASSUME NEW w \in Session, enqueue_dependent_jobs(w) PROVE Released'
  <2>1. pc[w] \notin Writing /\ jobOf[w] \subseteq finished
    BY <1>6 DEF enqueue_dependent_jobs, Writing, Released, Releases
  <2>2. QED
    BY <1>6, <2>1, BeginReleases DEF enqueue_dependent_jobs
<1>7. ASSUME NEW w \in Session, enqueue_waiting(w) PROVE Released'
  <2>1. PICK j \in jobOf[w] :
          /\ pc[w] = "updating"
          /\ writes' = [writes EXCEPT ![w] =
               [c \in Job |-> IF c \in Dependents(w, j, "done") THEN "pending" ELSE @[c]]]
          /\ pc' = [pc EXCEPT ![w] = "committing"]
          /\ UNCHANGED <<rowVars, jobOf, snapshot, changed, button>>
    BY <1>7 DEF enqueue_waiting
  <2> DEFINE S == Dependents(w, j, "done")
  <2>2. j \in finished /\ writes[w] = Nothing
    BY <2>1 DEF Isolation, SessionOK, Works, Writing, Released, Releases
  <2>3. \A c \in S : \A p \in Parents[c] : p # j /\ p \in Job => snapshot[w][p] = "done"
    BY <2>1, DependentsWait DEF Writing
  <2> HIDE DEF S
  <2>4. /\ \A c \in Job : writes'[w][c] = IF c \in S THEN "pending" ELSE Unwritten
        /\ UNCHANGED <<row, finished, known, snapshot>>
        /\ pc'[w] = "committing" /\ \A t \in Session \ {w} : Stays(t)
    BY <2>1, <2>2 DEF S, Nothing, Isolation, TypeOK, Stays, rowVars
  <2>5. Releases(w)'
    <3>1. \A c \in S \cap Job : Parents[c] \subseteq finished
      BY <2>2, <2>3 DEF Released, Releases, DependenciesAssumption
    <3>2. QED
      BY <2>4, <3>1 DEF Released, Releases, Unwritten
  <2>6. QED
    BY <2>4, <2>5, OthersRelease DEF Released, RowsReleased
<1>8. ASSUME NEW s \in Session, commit_dependents(s) \/ commit_user(s) PROVE Released'
  <2>1. /\ Commit({s}, writes[s]) /\ Ends(s) /\ known' = known
        /\ writes[s] \in [Job -> States \cup {Unwritten}]
    BY <1>8 DEF commit_dependents, commit_user, Isolation, TypeOK
  <2>2. \A c \in Job : writes[s][c] \notin {"enqueued", "started"}
    BY DEF Isolation, SessionOK, WritesFresh, Unwritten
  <2>3. \A c \in Job : writes[s][c] \in {"pending", "enqueued", "started"} =>
          \A p \in Parents[c] : p \in finished \/ writes[s][p] = "done"
    BY <2>2 DEF Released, Releases
  <2>4. RowsReleased' /\ finished \subseteq finished'
    BY <2>1, <2>3, CommitReleases
  <2>5. Releases(s)' /\ \A t \in Session \ {s} : Stays(t)
    BY <2>1, EndsReleases, EndedOK DEF Isolation
  <2>6. QED
    BY <2>4, <2>5, OthersRelease DEF Released
<1>9. ASSUME NEW w \in Session, enqueue_waiting_failed(w) \/ crash(w) PROVE Released'
  <2>1. Rollback(w)
    BY <1>9 DEF enqueue_waiting_failed, crash
  <2>2. QED
    BY <2>1, RollbackReleases
<1>10. ASSUME NEW u \in Session, NEW j \in Job, NEW b \in Buttons, press(u, j, b)
      PROVE  Released'
  BY <1>10, BeginReleases DEF press, Writing
<1>11. ASSUME NEW u \in Session, change_job_state(u) PROVE Released'
  <2>1. PICK j \in jobOf[u] :
          /\ pc[u] = "pressed"
          /\ writes' = [writes EXCEPT ![u] = [c \in Job |->
               CASE c = j -> Target(u, j)
                 [] c \in Updated(u, j) \ {j} -> IF button[u] = "done" THEN "pending"
                                                 ELSE "cancelled"
                 [] OTHER -> @[c]]]
          /\ pc' = [pc EXCEPT ![u] = "stored"]
          /\ UNCHANGED <<rowVars, jobOf, snapshot, changed, button>>
    BY <1>11 DEF change_job_state
  <2> DEFINE S == Updated(u, j)
  <2>2. j \in Job /\ writes[u] = Nothing
    <3>1. j \in Job /\ pc[u] = "pressed"
      BY <2>1 DEF Isolation, TypeOK
    <3>2. QED
      BY <3>1 DEF Isolation, SessionOK, Works, Writing
  <2>3. button[u] = "done" => \A c \in S \ {j} : \A p \in Parents[c] :
           p # j /\ p \in Job => snapshot[u][p] = "done"
    BY <2>1, DependentsWait DEF Updated, Writing
  <2> HIDE DEF S
  <2>4. /\ writes'[u][j] = Target(u, j)
        /\ \A c \in Job \ {j} : writes'[u][c] = "pending" => c \in S /\ button[u] = "done"
        /\ UNCHANGED <<row, finished, known, snapshot>>
        /\ pc'[u] = "stored" /\ \A t \in Session \ {u} : Stays(t)
    BY <2>1, <2>2 DEF S, Nothing, Unwritten, Isolation, TypeOK, Stays, rowVars
  <2>5. Target(u, j) = "pending" => Parents[j] \subseteq finished
    <3>1. ASSUME Target(u, j) = "pending", NEW p \in Parents[j] PROVE p \in finished
      <4>1. p \in Job
        BY <2>2 DEF DependenciesAssumption
      <4>2. snapshot[u][p] = "done"
        BY <2>2, <3>1, <4>1 DEF Target, Seen, Nothing
      <4>3. QED
        BY <4>1, <4>2 DEF Released, Releases
    <3>2. QED
      BY <3>1
  <2>6. button[u] = "done" => Target(u, j) = "done"
    BY DEF Target
  <2>7. Releases(u)'
    <3>1. ASSUME NEW c \in Job, writes'[u][c] = "pending", NEW p \in Parents[c]
          PROVE  p \in finished \/ writes'[u][p] = "done"
      <4>1. p \in Job
        BY DEF DependenciesAssumption
      <4>2. CASE c = j
        BY <2>4, <2>5, <3>1, <4>2
      <4>3. CASE c # j /\ p = j
        BY <2>4, <2>6, <3>1, <4>3
      <4>4. CASE c # j /\ p # j
        <5>1. snapshot[u][p] = "done"
          BY <2>3, <2>4, <3>1, <4>1, <4>4
        <5>2. QED
          BY <4>1, <5>1 DEF Released, Releases
      <4>5. QED
        BY <4>2, <4>3, <4>4
    <3>2. QED
      BY <2>4, <3>1 DEF Released, Releases
  <2>8. QED
    BY <2>4, <2>7, OthersRelease DEF Released, RowsReleased
<1>12. ASSUME NEW u \in Session, change_job_state_failed(u) PROVE Released'
  <2>1. PICK j \in jobOf[u] : /\ pc[u] = "pressed"
                              /\ Begins(u, "pressed", {j}, button[u]) \/ Rollback(u)
    BY <1>12 DEF change_job_state_failed
  <2>2. QED
    BY <2>1, BeginReleases, RollbackReleases DEF Writing
<1>13. CASE UNCHANGED vars
  BY <1>13 DEF vars, rowVars, sessionVars, Released, RowsReleased, Releases
<1>14. QED
  BY <1>1, <1>2, <1>3, <1>4, <1>5, <1>6, <1>7, <1>8, <1>9, <1>10, <1>11, <1>12, <1>13
     DEF Next, RunnerStep, WorkerStep, UserStep, Reads

-----------------------------------------------------------------------------
(* Nobody is missed.  While no user acts and no worker is killed, or taken   *)
(* for dead, jobs leave wait_dependencies and never come back, siblings      *)
(* together, and the worker that has done the last parent of a job, or one   *)
(* that has seen them all done, releases it.                                 *)

Waiting(state) == state = "wait_dependencies"

\* Sessions are those of workers, which have not lost their jobs and release others;
\* what they have read as done is done, and what others have committed since does not
\* wait any more.
WorkersOnly(s) ==
  /\ pc[s] \notin {"pressed", "stored"}
  /\ \A c \in Job : writes[s][c] \in {Unwritten, "pending"}
  /\ pc[s] = "performing" => jobOf[s] \cap changed[s] = {}
  /\ pc[s] \in {"updating", "committing"} => \A c \in changed[s] : ~Waiting(row[c])
  /\ \A c \in Job : snapshot[s][c] = "done" => row[c] = "done"
  /\ pc[s] \in {"dependents", "updating"} => \A j \in jobOf[s] : row[j] = "done"
  /\ pc[s] = "performing" =>
       \A j \in jobOf[s] : \A p \in Parents[j] : snapshot[s][p] = "done"

\* A job is released for good when its parents are done for good.
DoneParents(c) == \A p \in Parents[c] : row[p] = "done"
ReleasedForGood ==
  \A c \in Job :
    /\ row[c] \in {"pending", "enqueued", "started"} => DoneParents(c)
    /\ c \in known => row[c] = "pending"
    /\ \A s \in Session : writes[s][c] = "pending" => DoneParents(c)

\* Two jobs with the same parents wait, and are released, together.
Together(c, d) ==
  /\ Waiting(row[c]) <=> Waiting(row[d])
  /\ \A s \in Session :
       /\ pc[s] = "updating" => (Waiting(snapshot[s][c]) <=> Waiting(snapshot[s][d]))
       /\ writes[s][c] = Unwritten <=> writes[s][d] = Unwritten

Releasing(w, c) ==
  /\ jobOf[w] \cap Parents[c] # {}
  /\ \/ pc[w] = "dependents"
     \/ pc[w] = "updating" /\ \A p \in Parents[c] : snapshot[w][p] = "done"
     \/ pc[w] = "committing" /\ writes[w][c] = "pending"

Ready(c) == Waiting(row[c]) /\ DoneParents(c)

OnlyWorkers == \A s \in Session : WorkersOnly(s)
SiblingsTogether == \A c, d \in Job : Parents[c] = Parents[d] => Together(c, d)
ReadyIsReleased == \A c \in Job : Ready(c) => \E w \in Session : Releasing(w, c)

AllReleased ==
  /\ OnlyWorkers /\ ReleasedForGood /\ SiblingsTogether
  /\ SiblingsShareParents => ReadyIsReleased

NobodyIsMissed == edits = 0 /\ crashes = 0 => AllReleased

\* While no user has pressed a button, the steps are those of the runner and of workers.
LEMMA WorkersAct ==
  ASSUME OnlyWorkers, edits = 0, edits' = 0, [Next]_vars
  PROVE  RunnerStep \/ (\E w \in Session : WorkerStep(w)) \/ UNCHANGED vars
<1>1. ASSUME NEW u \in Session, NEW j \in Job, NEW b \in Buttons, press(u, j, b) PROVE FALSE
  BY <1>1 DEF press
<1>2. ASSUME NEW u \in Session,
             change_job_state(u) \/ change_job_state_failed(u) \/ commit_user(u)
      PROVE  FALSE
  BY <1>2 DEF OnlyWorkers, WorkersOnly, change_job_state, change_job_state_failed,
              commit_user
<1>3. QED
  BY <1>1, <1>2 DEF Next, UserStep

\* A commit that makes no job wait: c waits if it has waited, and is not written.
LEMMA CommitWaits ==
  ASSUME TypeOK, NEW me, NEW new, Commit(me, new),
         \A c \in Job : new[c] # "wait_dependencies", NEW c \in Job
  PROVE  Waiting(row'[c]) <=> Waiting(row[c]) /\ new[c] = Unwritten
BY DEF TypeOK, Commit, Waiting

\* What the sessions of me, or the runner, may commit: jobs that are not done, that
\* the runner does not take for pending and that nobody else performs; no job waits
\* again, and one is released when its parents are done.
Commits(me, new) ==
  /\ Commit(me, new)
  /\ \A c \in Job : new[c] # Unwritten =>
       /\ new[c] # "wait_dependencies" /\ row[c] # "done" /\ c \notin known'
       /\ new[c] \in {"pending", "enqueued", "started"} => DoneParents(c)
       /\ \A t \in Session \ me : pc[t] = "performing" => c \notin jobOf[t]
  /\ known' \subseteq known
  /\ \A t \in Session \ me : Stays(t)

\* What becomes of the sessions that commit.
Committed(w) ==
  /\ writes'[w] = Nothing /\ changed'[w] = {}
  /\ pc'[w] \in {"idle", "performing", "dependents"}
  /\ \A c \in Job : snapshot'[w][c] = "done" => row'[c] = "done"
  /\ pc'[w] = "dependents" => \A j \in jobOf'[w] : row'[j] = "done"
  /\ pc'[w] = "performing" =>
       \A j \in jobOf'[w] : \A p \in Parents[j] : snapshot'[w][p] = "done"

\* What is done stays done.
LEMMA CommitsKeep ==
  ASSUME DependenciesAssumption, NEW me, NEW new, Commits(me, new)
  PROVE  \A c \in Job : /\ row[c] = "done" => row'[c] = "done"
                        /\ DoneParents(c) => DoneParents(c)'
<1>1. \A c \in Job : row[c] = "done" => row'[c] = "done"
  BY DEF Commits, Commit
<1>2. \A c \in Job : Parents[c] \subseteq Job
  BY DEF DependenciesAssumption
<1>3. QED
  BY <1>1, <1>2 DEF DoneParents

LEMMA CommitsOnlyWorkers ==
  ASSUME DependenciesAssumption, TypeOK, OnlyWorkers, NEW me, NEW new, Commits(me, new),
         \A w \in Session : w \in me => Committed(w)
  PROVE  OnlyWorkers'
<1>1. ASSUME NEW w \in Session, w \in me PROVE WorkersOnly(w)'
  <2>1. Committed(w)
    BY <1>1
  <2>2. QED
    BY <2>1 DEF Committed, WorkersOnly, Nothing
<1>2. ASSUME NEW t \in Session \ me PROVE WorkersOnly(t)'
  <2>1. /\ pc[t] \in {"idle", "dependents"} => changed'[t] = changed[t]
        /\ pc[t] \notin {"idle", "dependents"} =>
              changed'[t] = changed[t] \cup {c \in Job : new[c] # Unwritten}
    BY DEF Commits, Commit
  <2>2. WorkersOnly(t) /\ Stays(t) /\ changed[t] \subseteq Job /\ jobOf[t] \subseteq Job
    BY DEF OnlyWorkers, Commits, TypeOK
  <2>3. \A c \in Job : /\ Waiting(row'[c]) => Waiting(row[c]) /\ new[c] = Unwritten
                       /\ row[c] = "done" => row'[c] = "done"
    BY DEF Commits, Commit, Waiting
  <2>4. pc[t] = "performing" => jobOf[t] \cap changed'[t] = {}
    BY <2>1, <2>2 DEF WorkersOnly, Commits
  <2>5. pc[t] \in {"updating", "committing"} => \A c \in changed'[t] : ~Waiting(row'[c])
    BY <2>1, <2>2, <2>3 DEF WorkersOnly
  <2>6. QED
    BY <2>2, <2>3, <2>4, <2>5 DEF WorkersOnly, Stays
<1>3. QED
  BY <1>1, <1>2 DEF OnlyWorkers

LEMMA CommitsReleased ==
  ASSUME DependenciesAssumption, ReleasedForGood, NEW me, NEW new, Commits(me, new),
         \A w \in Session : w \in me => Committed(w)
  PROVE  ReleasedForGood'
<1> SUFFICES ASSUME NEW c \in Job
             PROVE  /\ row'[c] \in {"pending", "enqueued", "started"} => DoneParents(c)'
                    /\ c \in known' => row'[c] = "pending"
                    /\ \A s \in Session : writes'[s][c] = "pending" => DoneParents(c)'
  BY DEF ReleasedForGood
<1>1. row'[c] = IF new[c] # Unwritten THEN new[c] ELSE row[c]
  BY DEF Commits, Commit
<1>2. DoneParents(c) => DoneParents(c)'
  BY CommitsKeep
<1>3. row'[c] \in {"pending", "enqueued", "started"} => DoneParents(c)
  BY <1>1 DEF Commits, ReleasedForGood
<1>4. c \in known' => row'[c] = "pending"
  BY <1>1 DEF Commits, ReleasedForGood
<1>5. ASSUME NEW s \in Session, writes'[s][c] = "pending" PROVE DoneParents(c)
  <2>1. s \notin me
    BY <1>5 DEF Committed, Nothing, Unwritten
  <2>2. QED
    BY <1>5, <2>1 DEF Commits, Stays, ReleasedForGood
<1>6. QED
  BY <1>2, <1>3, <1>4, <1>5

\* Siblings leave together when what waits is committed together.
LEMMA CommitsTogether ==
  ASSUME TypeOK, SiblingsTogether, NEW me, NEW new, Commits(me, new),
         \A w \in Session : w \in me => Committed(w),
         \A c, d \in Job : /\ Parents[c] = Parents[d] /\ Waiting(row[c])
                           /\ Waiting(row[d]) /\ new[c] # Unwritten
                           => new[d] # Unwritten
  PROVE  SiblingsTogether'
<1> SUFFICES ASSUME NEW c \in Job, NEW d \in Job, Parents[c] = Parents[d]
             PROVE  Together(c, d)'
  BY DEF SiblingsTogether
<1>1. Together(c, d)
  BY DEF SiblingsTogether
<1>2. Waiting(row'[c]) <=> Waiting(row'[d])
  <2>1. Commit(me, new) /\ \A i \in Job : new[i] # "wait_dependencies"
    BY DEF Commits, Unwritten
  <2>2. /\ Waiting(row'[c]) <=> Waiting(row[c]) /\ new[c] = Unwritten
        /\ Waiting(row'[d]) <=> Waiting(row[d]) /\ new[d] = Unwritten
    BY <2>1, CommitWaits
  <2>3. QED
    BY <1>1, <2>2 DEF Together
<1>3. ASSUME NEW t \in Session
      PROVE  /\ pc'[t] = "updating" =>
                  (Waiting(snapshot'[t][c]) <=> Waiting(snapshot'[t][d]))
             /\ writes'[t][c] = Unwritten <=> writes'[t][d] = Unwritten
  <2>1. CASE t \in me
    BY <2>1 DEF Committed, Nothing
  <2>2. CASE t \notin me
    BY <1>1, <2>2 DEF Commits, Stays, Together
  <2>3. QED
    BY <2>1, <2>2
<1>4. QED
  BY <1>2, <1>3 DEF Together

\* Nobody is missed by a commit if its worker releases the jobs that it makes ready.
LEMMA CommitsReady ==
  ASSUME TypeOK, ReadyIsReleased, NEW me, NEW new, Commits(me, new),
         \A c \in Job : Ready(c)' /\ ~Ready(c) => \E w \in Session : Releasing(w, c)',
         \A w \in Session, c \in Job :
            w \in me /\ Ready(c) /\ new[c] = Unwritten => ~Releasing(w, c)
  PROVE  ReadyIsReleased'
<1> SUFFICES ASSUME NEW c \in Job, Ready(c)' PROVE \E t \in Session : Releasing(t, c)'
  BY DEF ReadyIsReleased
<1>1. CASE ~Ready(c)
  BY <1>1
<1>2. CASE Ready(c)
  <2>1. PICK t \in Session : Releasing(t, c)
    BY <1>2 DEF ReadyIsReleased
  <2>2. new[c] = Unwritten
    <3>1. Commit(me, new) /\ \A i \in Job : new[i] # "wait_dependencies"
      BY DEF Commits, Unwritten
    <3>2. QED
      BY <3>1, CommitWaits DEF Ready
  <2>3. t \notin me
    BY <1>2, <2>1, <2>2
  <2>4. Stays(t)
    BY <2>3 DEF Commits
  <2>5. Releasing(t, c)'
    BY <2>1, <2>4 DEF Releasing, Stays
  <2>6. QED
    BY <2>5
<1>3. QED
  BY <1>1, <1>2

\* One row is updated, of a job that neither waits nor is done: it makes no job ready.
LEMMA TakenStep ==
  ASSUME DependenciesAssumption, TypeOK, AllReleased, NEW me, NEW j \in Job,
         NEW state \in {"pending", "enqueued", "started", "failed"}, Sets(me, j, state),
         row[j] \in {"pending", "enqueued", "started"}, j \notin known', known' \subseteq known,
         \A t \in Session \ me : Stays(t) /\ (pc[t] = "performing" => j \notin jobOf[t]),
         \A w \in Session : w \in me => Committed(w) /\ pc[w] \in {"idle", "performing"}
  PROVE  AllReleased'
<1> DEFINE new == One(j, state)
<1>1. /\ Commit(me, new) /\ \A c \in Job : new[c] = IF c = j THEN state ELSE Unwritten
  BY Setting DEF States
<1> HIDE DEF new
<1>2. OnlyWorkers /\ ReleasedForGood /\ SiblingsTogether
  BY DEF AllReleased
<1>3. DoneParents(j)
  BY <1>2 DEF ReleasedForGood
<1>4. Commits(me, new)
  BY <1>1, <1>3 DEF Commits
<1>5. OnlyWorkers' /\ ReleasedForGood'
  BY <1>2, <1>4, CommitsOnlyWorkers, CommitsReleased
<1>6. \A c \in Job : Waiting(row[c]) => new[c] = Unwritten
  BY <1>1 DEF Waiting
<1>7. SiblingsTogether'
  BY <1>2, <1>4, <1>6, CommitsTogether
<1>8. ASSUME ReadyIsReleased PROVE ReadyIsReleased'
  <2>1. ASSUME NEW c \in Job, Ready(c)' PROVE Ready(c)
    <3>1. Waiting(row[c]) /\ \A p \in Job : row'[p] = "done" => row[p] = "done"
      BY <1>1, <2>1 DEF Commit, Ready, Waiting
    <3>2. QED
      BY <2>1, <3>1 DEF Ready, DoneParents, DependenciesAssumption
  <2>2. \A w \in Session, c \in Job : w \in me => ~Releasing(w, c)
    BY DEF Releasing
  <2>3. QED
    BY <1>4, <1>8, <2>1, <2>2, CommitsReady
<1>9. QED
  BY <1>5, <1>7, <1>8 DEF AllReleased

LEMMA RollbackNobody ==
  ASSUME TypeOK, OnlyWorkers, ReleasedForGood, SiblingsTogether, NEW w \in Session, Rollback(w)
  PROVE  OnlyWorkers' /\ ReleasedForGood' /\ SiblingsTogether'
<1>1. /\ pc'[w] = "idle" /\ writes'[w] = Nothing /\ snapshot'[w] = Created
      /\ row' = row /\ known' = known
      /\ \A t \in Session \ {w} : Stays(t) /\ changed'[t] = changed[t]
      /\ \A c \in Job : Nothing[c] = Unwritten /\ Created[c] # "done"
  BY DEF Rollback, Ends, rowVars, TypeOK, Stays, Nothing, Created
<1>2. OnlyWorkers'
  <2>1. WorkersOnly(w)'
    BY <1>1 DEF WorkersOnly
  <2>2. \A t \in Session \ {w} : WorkersOnly(t)'
    BY <1>1 DEF OnlyWorkers, WorkersOnly, Stays
  <2>3. QED
    BY <2>1, <2>2 DEF OnlyWorkers
<1>3. ReleasedForGood'
  BY <1>1 DEF ReleasedForGood, DoneParents, Stays, Unwritten
<1>4. SiblingsTogether'
  <2> SUFFICES ASSUME NEW c \in Job, NEW d \in Job, Parents[c] = Parents[d]
               PROVE  Together(c, d)'
    BY DEF SiblingsTogether
  <2>1. Together(c, d)
    BY DEF SiblingsTogether
  <2>2. QED
    BY <1>1, <2>1 DEF Together, Stays
<1>5. QED
  BY <1>2, <1>3, <1>4

\* While nobody is taken for dead, a worker that performs has its job for itself.
LEMMA PerformedAlone ==
  ASSUME Isolation, OnlyWorkers, NEW w \in Session, pc[w] = "performing", NEW j \in jobOf[w]
  PROVE  /\ j \in Job /\ row[j] = "started" /\ j \notin changed[w]
         /\ \A t \in Session \ {w} : pc[t] = "performing" => j \notin jobOf[t]
<1>1. j \in Job /\ j \notin changed[w]
  BY DEF OnlyWorkers, WorkersOnly, Isolation, TypeOK
<1>2. row[j] = "started"
  BY <1>1 DEF Isolation, SessionOK, Works
<1>3. ASSUME NEW t \in Session \ {w}, pc[t] = "performing", j \in jobOf[t] PROVE FALSE
  <2>1. j \notin changed[t] /\ Apart(w, t)
    BY <1>3 DEF OnlyWorkers, WorkersOnly, Isolation
  <2>2. QED
    BY <1>1, <1>3, <2>1 DEF Apart
<1>4. QED
  BY <1>1, <1>2, <1>3

LEMMA BudgetStep ==
  ASSUME TypeOK, [Next]_vars, edits' = 0, crashes' = 0
  PROVE  edits = 0 /\ crashes = 0
<1>1. {edits, crashes} \subseteq Nat
  BY DEF TypeOK
<1>2. edits' = edits \/ edits' = edits + 1
  BY DEF Next, RunnerStep, WorkerStep, UserStep, notify, initialize_databases,
     set_job_enqueued, requeue_dead_jobs, _acquire_job, perform_done, retry_postpone,
     perform_failed, Stores, enqueue_dependent_jobs, enqueue_waiting,
     enqueue_waiting_failed, commit_dependents, crash, press, change_job_state,
     change_job_state_failed, commit_user, budgetVars, vars
<1>3. crashes' = crashes \/ crashes' = crashes + 1
  BY DEF Next, RunnerStep, WorkerStep, UserStep, notify, initialize_databases,
     set_job_enqueued, requeue_dead_jobs, _acquire_job, perform_done, retry_postpone,
     perform_failed, Stores, enqueue_dependent_jobs, enqueue_waiting,
     enqueue_waiting_failed, commit_dependents, crash, press, change_job_state,
     change_job_state_failed, commit_user, budgetVars, vars
<1>4. QED
  BY <1>1, <1>2, <1>3

LEMMA NobodyStep ==
  ASSUME DependenciesAssumption, Isolation, NobodyIsMissed, [Next]_vars
  PROVE  NobodyIsMissed'
<1> SUFFICES ASSUME edits' = 0, crashes' = 0 PROVE AllReleased'
  BY DEF NobodyIsMissed
<1>1. edits = 0 /\ crashes = 0
  BY BudgetStep DEF Isolation
<1>2. /\ AllReleased /\ OnlyWorkers /\ ReleasedForGood /\ SiblingsTogether
      /\ SiblingsShareParents => ReadyIsReleased
  BY <1>1 DEF NobodyIsMissed, AllReleased
<1>3. TypeOK
  BY DEF Isolation
<1>4. CASE Reads \/ UNCHANGED vars
  <2>1. /\ UNCHANGED <<row, pc, jobOf, snapshot, changed, writes>>
        /\ \A c \in known' : c \in known \/ row[c] = "pending"
    BY <1>3, <1>4, RunnerReads DEF vars, rowVars, sessionVars
  <2>2. OnlyWorkers'
    BY <1>2, <2>1 DEF OnlyWorkers, WorkersOnly
  <2>3. ReleasedForGood'
    BY <1>2, <2>1 DEF ReleasedForGood, DoneParents
  <2>4. SiblingsTogether'
    BY <1>2, <2>1 DEF SiblingsTogether, Together
  <2>5. ReadyIsReleased => ReadyIsReleased'
    BY <2>1 DEF ReadyIsReleased, Ready, DoneParents, Releasing
  <2>6. QED
    BY <1>2, <2>2, <2>3, <2>4, <2>5 DEF AllReleased
<1>5. ASSUME NEW j \in Job, set_job_enqueued(j) \/ requeue_dead_jobs(j) PROVE AllReleased'
  <2>1. PICK state \in {"enqueued", "pending", "failed"} : Sets({}, j, state)
    BY <1>5 DEF set_job_enqueued, requeue_dead_jobs
  <2>2. /\ row[j] \in {"pending", "enqueued", "started"} /\ j \notin known'
        /\ known' \subseteq known /\ \A t \in Session : Stays(t)
    BY <1>2, <1>5 DEF Stays, set_job_enqueued, requeue_dead_jobs, ReleasedForGood
  <2>3. ASSUME NEW t \in Session, pc[t] = "performing", j \in jobOf[t] PROVE FALSE
    <3>1. row[j] = "started"
      BY <1>2, <2>3, PerformedAlone
    <3>2. ~set_job_enqueued(j)
      BY <1>2, <3>1 DEF set_job_enqueued, ReleasedForGood
    <3>3. crashes' = crashes + 1
      BY <1>5, <2>3, <3>2 DEF requeue_dead_jobs, Performing
    <3>4. QED
      BY <1>1, <3>3
  <2>4. QED
    BY <1>2, <1>3, <2>1, <2>2, <2>3, TakenStep
<1>6. ASSUME NEW w \in Session, NEW j \in Job, _acquire_job(w, j) PROVE AllReleased'
  <2>1. /\ Sets({w}, j, "started") /\ pc[w] = "idle" /\ row[j] = "enqueued"
        /\ "started" \in States /\ UNCHANGED <<known, writes, button>>
    BY <1>6 DEF _acquire_job, States
  <2>2. \A t \in Session : pc[t] = "performing" => j \notin jobOf[t]
    BY <1>2, <2>1, PerformedAlone
  <2>3. /\ pc' = [pc EXCEPT ![w] = "performing"] /\ jobOf' = [jobOf EXCEPT ![w] = {j}]
        /\ snapshot' = [snapshot EXCEPT ![w] =
             [c \in Job |-> IF c \in Parents[j] THEN row[c] ELSE Created[c]]]
    BY <1>6, <2>2 DEF _acquire_job, Performing
  <2>4. /\ \A t \in Session \ {w} : Stays(t)
        /\ pc'[w] = "performing" /\ jobOf'[w] = {j}
        /\ \A c \in Job : snapshot'[w][c] = IF c \in Parents[j] THEN row[c] ELSE Created[c]
    BY <1>3, <2>1, <2>3 DEF TypeOK, Stays
  <2>5. writes'[w] = Nothing
    BY <2>1 DEF Isolation, SessionOK, Works, Writing
  <2>6. /\ changed'[w] = {} /\ \A c \in Job : row[c] = "done" => row'[c] = "done"
        /\ j \notin known /\ DoneParents(j)
    <3>1. /\ Commit({w}, One(j, "started"))
          /\ \A c \in Job : One(j, "started")[c] = IF c = j THEN "started" ELSE Unwritten
      BY <2>1, Setting
    <3>2. changed'[w] = {} /\ \A c \in Job : row[c] = "done" => row'[c] = "done"
      BY <2>1, <3>1 DEF Commit
    <3>3. QED
      BY <1>2, <2>1, <3>2 DEF ReleasedForGood
  <2>7. Committed(w)
    <3>1. \A c \in Job : snapshot'[w][c] = "done" => row'[c] = "done"
      BY <2>4, <2>6, CreatedReleases
    <3>2. \A p \in Parents[j] : snapshot'[w][p] = "done"
      BY <2>4, <2>6 DEF DoneParents, DependenciesAssumption
    <3>3. QED
      BY <2>4, <2>5, <2>6, <3>1, <3>2 DEF Committed
  <2>8. QED
    BY <1>2, <1>3, <2>1, <2>2, <2>4, <2>6, <2>7, TakenStep
<1>7. ASSUME NEW w \in Session, perform_done(w) PROVE AllReleased'
  <2>1. PICK j \in jobOf[w] : Sets({w}, j, "done")
    BY <1>7 DEF perform_done
  <2>2. /\ pc[w] = "performing" /\ pc'[w] = "dependents"
        /\ UNCHANGED <<known, writes, jobOf, snapshot>>
        /\ \A t \in Session \ {w} : Stays(t)
    BY <1>3, <1>7 DEF perform_done, TypeOK, Stays
  <2>3. /\ j \in Job /\ row[j] = "started" /\ \A i \in jobOf[w] : i = j
        /\ \A t \in Session \ {w} : pc[t] = "performing" => j \notin jobOf[t]
    BY <1>2, <2>2, PerformedAlone DEF Isolation, SessionOK, Works
  <2> DEFINE new == One(j, "done")
  <2>4. /\ Commit({w}, new) /\ \A c \in Job : new[c] = IF c = j THEN "done" ELSE Unwritten
    BY <2>1, <2>3, Setting DEF States
  <2> HIDE DEF new
  <2>5. Commits({w}, new)
    <3>1. j \notin known
      BY <1>2, <2>3 DEF ReleasedForGood
    <3>2. QED
      BY <2>2, <2>3, <2>4, <3>1 DEF Commits
  <2>6. Committed(w)
    <3>1. writes'[w] = Nothing
      BY <2>2 DEF Isolation, SessionOK, Works, Writing
    <3>2. /\ changed'[w] = {} /\ row'[j] = "done"
          /\ \A c \in Job : row[c] = "done" => row'[c] = "done"
      BY <2>3, <2>4 DEF Commit, Unwritten
    <3>3. QED
      BY <1>2, <2>2, <2>3, <3>1, <3>2 DEF Committed, OnlyWorkers, WorkersOnly
  <2>7. OnlyWorkers' /\ ReleasedForGood'
    BY <1>2, <1>3, <2>5, <2>6, CommitsOnlyWorkers, CommitsReleased
  <2>8. SiblingsTogether'
    <3>1. \A c \in Job : Waiting(row[c]) => new[c] = Unwritten
      BY <2>3, <2>4 DEF Waiting
    <3>2. QED
      BY <1>2, <1>3, <2>5, <2>6, <3>1, CommitsTogether
  <2>9. ASSUME NEW c \in Job, Ready(c)', ~Ready(c) PROVE \E t \in Session : Releasing(t, c)'
    <3>1. Waiting(row[c])
      BY <2>4, <2>9 DEF Ready, Waiting, Commit
    <3>2. PICK p \in Parents[c] : row[p] # "done"
      BY <2>9, <3>1 DEF Ready, DoneParents
    <3>3. p \in Job /\ row'[p] = "done"
      BY <2>9, <3>2 DEF Ready, DoneParents, DependenciesAssumption
    <3>4. p = j
      BY <2>4, <3>2, <3>3 DEF Commit
    <3>5. QED
      BY <2>2, <3>4 DEF Releasing
  <2>10. \A c \in Job : ~Releasing(w, c)
    BY <2>2 DEF Releasing
  <2>11. ReadyIsReleased => ReadyIsReleased'
    BY <1>3, <2>5, <2>9, <2>10, CommitsReady
  <2>12. QED
    BY <1>2, <2>7, <2>8, <2>11 DEF AllReleased
<1>8. ASSUME NEW w \in Session, retry_postpone(w) \/ perform_failed(w) PROVE AllReleased'
  <2>1. PICK j \in jobOf[w], state \in {"wait_dependencies", "pending", "failed"} :
          /\ j \in Job /\ Stores(w, j, state)
          /\ state = "wait_dependencies" => \E p \in Parents[j] : snapshot[w][p] # "done"
    BY <1>3, <1>8, StoresState
  <2>2. pc[w] = "performing" /\ Sets({w}, j, state) /\ Ends(w) /\ known' = known
    BY <2>1 DEF Stores
  <2>3. state \in {"pending", "failed"}
    BY <1>2, <2>1, <2>2 DEF OnlyWorkers, WorkersOnly
  <2>4. /\ row[j] = "started"
        /\ \A t \in Session \ {w} : pc[t] = "performing" => j \notin jobOf[t]
    BY <1>2, <2>2, PerformedAlone
  <2>5. j \notin known'
    BY <1>2, <2>1, <2>2, <2>4 DEF ReleasedForGood
  <2>6. \A t \in Session \ {w} : Stays(t)
    BY <1>3, <2>2, EndedOK
  <2>7. Committed(w)
    <3>1. pc'[w] = "idle" /\ writes'[w] = Nothing /\ snapshot'[w] = Created
      BY <1>3, <2>2 DEF Ends, TypeOK
    <3>2. changed'[w] = {}
      BY <2>2 DEF Sets, Commit
    <3>3. QED
      BY <3>1, <3>2, CreatedReleases DEF Committed
  <2>8. QED
    BY <1>2, <1>3, <2>1, <2>2, <2>3, <2>4, <2>5, <2>6, <2>7, TakenStep
<1>9. ASSUME NEW w \in Session, commit_dependents(w) PROVE AllReleased'
  <2>1. /\ Commit({w}, writes[w]) /\ pc[w] = "committing" /\ Ends(w) /\ known' = known
        /\ pc'[w] = "idle" /\ writes'[w] = Nothing /\ snapshot'[w] = Created
        /\ \A t \in Session \ {w} : Stays(t)
    BY <1>3, <1>9 DEF commit_dependents, Ends, TypeOK, Stays
  <2>2. \A c \in Job : writes[w][c] \in {Unwritten, "pending"}
    BY <1>2 DEF OnlyWorkers, WorkersOnly
  <2>3. \A c \in Job : writes[w][c] # Unwritten => row[c] = "wait_dependencies"
    BY <1>2, <2>1 DEF Isolation, SessionOK, SnapshotIsFresh, WritesFresh, Reading
  <2>4. Commits({w}, writes[w])
    <3> SUFFICES ASSUME NEW c \in Job, writes[w][c] # Unwritten
                 PROVE  /\ row[c] = "wait_dependencies" /\ c \notin known /\ DoneParents(c)
                        /\ \A t \in Session \ {w} : pc[t] = "performing" => c \notin jobOf[t]
      BY <2>1, <2>2 DEF Commits, Unwritten
    <3>1. row[c] = "wait_dependencies" /\ writes[w][c] = "pending"
      BY <2>2, <2>3
    <3>2. c \notin known /\ DoneParents(c)
      BY <1>2, <3>1 DEF ReleasedForGood
    <3>3. \A t \in Session : pc[t] = "performing" => c \notin jobOf[t]
      BY <1>2, <3>1, PerformedAlone
    <3>4. QED
      BY <3>1, <3>2, <3>3
  <2>5. Committed(w)
    <3>1. changed'[w] = {}
      BY <2>1 DEF Commit
    <3>2. QED
      BY <2>1, <3>1, CreatedReleases DEF Committed
  <2>6. OnlyWorkers' /\ ReleasedForGood'
    BY <1>2, <1>3, <2>4, <2>5, CommitsOnlyWorkers, CommitsReleased
  <2>7. SiblingsTogether'
    <3>1. \A c, d \in Job : Parents[c] = Parents[d] /\ writes[w][c] # Unwritten
                              => writes[w][d] # Unwritten
      BY <1>2 DEF SiblingsTogether, Together
    <3>2. QED
      BY <1>2, <1>3, <2>4, <2>5, <3>1, CommitsTogether
  <2>8. \A c \in Job : Ready(c)' => Ready(c)
    <3>1. \A c \in Job : /\ row'[c] = "done" => row[c] = "done"
                         /\ Waiting(row'[c]) => Waiting(row[c])
      BY <2>1, <2>2 DEF Commit, Waiting
    <3>2. QED
      BY <3>1 DEF Ready, DoneParents, DependenciesAssumption
  <2>9. \A c \in Job : writes[w][c] = Unwritten => ~Releasing(w, c)
    BY <2>1 DEF Releasing, Unwritten
  <2>10. ReadyIsReleased => ReadyIsReleased'
    BY <1>3, <2>4, <2>8, <2>9, CommitsReady
  <2>11. QED
    BY <1>2, <2>6, <2>7, <2>10 DEF AllReleased
<1>10. ASSUME NEW w \in Session, enqueue_dependent_jobs(w) PROVE AllReleased'
  <2>1. /\ pc[w] = "dependents" /\ pc'[w] = "updating" /\ jobOf'[w] = jobOf[w]
        /\ snapshot'[w] = row /\ changed'[w] = {} /\ UNCHANGED <<row, known, writes>>
        /\ \A t \in Session \ {w} : Stays(t) /\ changed'[t] = changed[t]
    BY <1>3, <1>10 DEF enqueue_dependent_jobs, Begins, rowVars, TypeOK, Stays
  <2>2. OnlyWorkers'
    <3>1. WorkersOnly(w)'
      BY <1>2, <2>1 DEF OnlyWorkers, WorkersOnly
    <3>2. \A t \in Session \ {w} : WorkersOnly(t)'
      BY <1>2, <2>1 DEF OnlyWorkers, WorkersOnly, Stays
    <3>3. QED
      BY <3>1, <3>2 DEF OnlyWorkers
  <2>3. ReleasedForGood'
    BY <1>2, <2>1 DEF ReleasedForGood, DoneParents
  <2>4. SiblingsTogether'
    BY <1>2, <2>1 DEF SiblingsTogether, Together, Stays
  <2>5. ASSUME ReadyIsReleased, NEW c \in Job, Ready(c)'
        PROVE  \E t \in Session : Releasing(t, c)'
    <3>1. Ready(c)
      BY <2>1, <2>5 DEF Ready, DoneParents
    <3>2. PICK t \in Session : Releasing(t, c)
      BY <2>5, <3>1 DEF ReadyIsReleased
    <3>3. CASE t = w
      BY <2>1, <3>1, <3>2, <3>3 DEF Releasing, Ready, DoneParents
    <3>4. CASE t # w
      BY <2>1, <3>2, <3>4 DEF Releasing, Stays
    <3>5. QED
      BY <3>3, <3>4
  <2>6. QED
    BY <1>2, <2>2, <2>3, <2>4, <2>5 DEF AllReleased, ReadyIsReleased
<1>11. ASSUME NEW w \in Session, enqueue_waiting(w) PROVE AllReleased'
  <2>1. PICK j \in jobOf[w] :
          /\ pc[w] = "updating"
          /\ writes' = [writes EXCEPT ![w] =
               [c \in Job |-> IF c \in Dependents(w, j, "done") THEN "pending" ELSE @[c]]]
          /\ pc' = [pc EXCEPT ![w] = "committing"]
          /\ UNCHANGED <<rowVars, jobOf, snapshot, changed>>
    BY <1>11 DEF enqueue_waiting
  <2> DEFINE S == Dependents(w, j, "done")
  <2>2. writes[w] = Nothing
    BY <2>1 DEF Isolation, SessionOK, Works, Writing
  <2>3. S = {c \in Job : /\ j \in Parents[c] /\ Waiting(snapshot[w][c])
                         /\ \A p \in Parents[c] :
                              (IF p = j THEN "done" ELSE snapshot[w][p]) = "done"}
    <3>1. \A c \in Job : Seen(w, c) = snapshot[w][c]
      BY <2>2 DEF Seen, Nothing
    <3>2. \A c \in Job : Parents[c] \subseteq Job
      BY DEF DependenciesAssumption
    <3>3. QED
      BY <3>1, <3>2 DEF Dependents, Waiting
  <2> HIDE DEF S
  <2>4. /\ \A c \in Job : writes'[w][c] = IF c \in S THEN "pending" ELSE Unwritten
        /\ \A t \in Session \ {w} : writes'[t] = writes[t] /\ pc'[t] = pc[t]
        /\ pc'[w] = "committing"
        /\ UNCHANGED <<row, known, jobOf, snapshot, changed>>
    BY <1>3, <2>1, <2>2 DEF S, Nothing, TypeOK, rowVars
  <2>5. OnlyWorkers'
    <3>1. WorkersOnly(w)'
      BY <1>2, <2>1, <2>4 DEF OnlyWorkers, WorkersOnly
    <3>2. \A t \in Session \ {w} : WorkersOnly(t)'
      BY <1>2, <2>4 DEF OnlyWorkers, WorkersOnly
    <3>3. QED
      BY <3>1, <3>2 DEF OnlyWorkers
  <2>6. ReleasedForGood'
    <3>1. ASSUME NEW c \in Job, c \in S PROVE DoneParents(c)
      <4>1. row[j] = "done" /\ \A p \in Job : snapshot[w][p] = "done" => row[p] = "done"
        BY <1>2, <2>1 DEF OnlyWorkers, WorkersOnly
      <4>2. \A p \in Parents[c] : p \in Job /\ (p = j \/ snapshot[w][p] = "done")
        BY <2>3, <3>1 DEF DependenciesAssumption
      <4>3. QED
        BY <4>1, <4>2 DEF DoneParents
    <3>2. QED
      BY <1>2, <2>4, <3>1 DEF ReleasedForGood, DoneParents, Unwritten
  <2>7. SiblingsTogether'
    <3> SUFFICES ASSUME NEW c \in Job, NEW d \in Job, Parents[c] = Parents[d]
                 PROVE  Together(c, d)'
      BY DEF SiblingsTogether
    <3>1. Together(c, d)
      BY <1>2 DEF SiblingsTogether
    <3>2. c \in S <=> d \in S
      BY <2>1, <2>3, <3>1 DEF Together
    <3>3. QED
      BY <2>4, <3>1, <3>2 DEF Together, Unwritten
  <2>8. ASSUME ReadyIsReleased, NEW c \in Job, Ready(c)'
        PROVE  \E t \in Session : Releasing(t, c)'
    <3>1. Ready(c)
      BY <2>4, <2>8 DEF Ready, DoneParents
    <3>2. PICK t \in Session : Releasing(t, c)
      BY <2>8, <3>1 DEF ReadyIsReleased
    <3>3. CASE t = w
      <4>1. j \in Parents[c] /\ \A p \in Parents[c] : snapshot[w][p] = "done"
        BY <2>1, <3>2, <3>3 DEF Releasing, Isolation, SessionOK, Works
      <4>2. Waiting(snapshot[w][c])
        <5>1. c \notin changed[w]
          BY <1>2, <2>1, <3>1 DEF OnlyWorkers, WorkersOnly, Ready
        <5>2. QED
          BY <2>1, <3>1, <5>1 DEF Isolation, SessionOK, SnapshotIsFresh, Reading, Ready
      <4>3. c \in S
        BY <2>3, <4>1, <4>2
      <4>4. Releasing(w, c)'
        BY <2>1, <2>4, <4>1, <4>3 DEF Releasing
      <4>5. QED
        BY <4>4
    <3>4. CASE t # w
      BY <2>4, <3>2, <3>4 DEF Releasing
    <3>5. QED
      BY <3>3, <3>4
  <2>9. QED
    BY <1>2, <2>5, <2>6, <2>7, <2>8 DEF AllReleased, ReadyIsReleased
<1>12. ASSUME NEW w \in Session, enqueue_waiting_failed(w) PROVE AllReleased'
  <2>1. PICK j \in jobOf[w] : /\ pc[w] = "updating" /\ Rollback(w)
                              /\ Dependents(w, j, "done") \cap changed[w] # {}
    BY <1>12 DEF enqueue_waiting_failed, Fails
  <2>2. PICK d \in Dependents(w, j, "done") : d \in changed[w]
    BY <2>1
  <2>3. /\ d \in Job /\ j \in Parents[d] /\ ~Waiting(row[d])
    BY <1>2, <2>1, <2>2 DEF Dependents, OnlyWorkers, WorkersOnly
  <2>4. ASSUME SiblingsShareParents, NEW c \in Job, Ready(c)'
        PROVE  \E t \in Session : Releasing(t, c)'
    <3>1. Ready(c)
      BY <2>1, <2>4 DEF Ready, DoneParents, Rollback, rowVars
    <3>2. PICK t \in Session : Releasing(t, c)
      BY <1>2, <2>4, <3>1 DEF ReadyIsReleased
    <3>3. t # w
      <4> SUFFICES ASSUME t = w PROVE FALSE
        OBVIOUS
      <4>1. j \in Parents[c]
        BY <2>1, <3>2 DEF Releasing, Isolation, SessionOK, Works
      <4>2. j \in Job
        BY <2>1 DEF Isolation, TypeOK
      <4>3. Parents[c] = Parents[d]
        BY <2>3, <2>4, <4>1, <4>2 DEF SiblingsShareParents
      <4>4. Waiting(row[c]) <=> Waiting(row[d])
        BY <1>2, <2>3, <4>3 DEF SiblingsTogether, Together
      <4>5. QED
        BY <2>3, <3>1, <4>4 DEF Ready
    <3>4. Stays(t)
      BY <1>3, <2>1, <3>3 DEF Rollback, Ends, TypeOK, Stays
    <3>5. QED
      BY <3>2, <3>4 DEF Releasing, Stays
  <2>5. OnlyWorkers' /\ ReleasedForGood' /\ SiblingsTogether'
    BY <1>2, <1>3, <2>1, RollbackNobody
  <2>6. QED
    BY <2>4, <2>5 DEF AllReleased, ReadyIsReleased
<1>13. ASSUME NEW w \in Session, crash(w) PROVE FALSE
  BY <1>1, <1>13 DEF crash
<1>14. QED
  BY <1>1, <1>2, <1>4, <1>5, <1>6, <1>7, <1>8, <1>9, <1>10, <1>11, <1>12, <1>13, WorkersAct
     DEF RunnerStep, WorkerStep, Reads

-----------------------------------------------------------------------------
(* Theorems *)

LEMMA Initially == DependenciesAssumption /\ Init => Isolation /\ Released
<1> SUFFICES ASSUME DependenciesAssumption, Init PROVE Isolation /\ Released
  OBVIOUS
<1>1. /\ Created \in [Job -> States] /\ Nothing \in [Job -> States \cup {Unwritten}]
      /\ \A j \in Job : /\ Nothing[j] = Unwritten
                        /\ Created[j] \in {"pending", "wait_dependencies"}
                        /\ Created[j] = "pending" => Parents[j] = {}
                        /\ Created[j] = "wait_dependencies" => Parents[j] # {}
  BY CreatedType, NothingType DEF Created, Nothing
<1>2. TypeOK
  BY <1>1 DEF Init, TypeOK
<1>3. \A s \in Session : SessionOK(s)
  BY <1>1 DEF Init, SessionOK, Works, SnapshotIsFresh, WritesFresh, Reading, Writing
<1>4. \A s, t \in Session : s # t => Apart(s, t)
  BY <1>1 DEF Init, Apart
<1>5. Released
  BY <1>1 DEF Init, Released, RowsReleased, Releases, Unwritten
<1>6. QED
  BY <1>2, <1>3, <1>4, <1>5 DEF Isolation

\* Transactions are isolated: a session updates only rows that nobody has committed
\* since its snapshot and no other session has written, so that what
\* enqueue_waiting and the buttons have read of these rows is still true when they
\* commit; and nobody releases a job before its parents have been done.
THEOREM Invariance ==
  ASSUME DependenciesAssumption PROVE Spec => [](Isolation /\ Released)
<1>1. Init => Isolation /\ Released
  BY Initially
<1>2. Isolation /\ Released /\ [Next]_vars => Isolation' /\ Released'
  BY IsolationStep, ReleasedStep
<1>3. QED
  BY <1>1, <1>2, PTL DEF Spec

\* A job is started only after all its parents have been done.
THEOREM StartedAfterParents ==
  ASSUME DependenciesAssumption PROVE Spec => []StartsAfterParents
<1>1. Isolation /\ Released => StartsAfterParents
  BY DEF Released, RowsReleased, StartsAfterParents
<1>2. QED
  BY <1>1, Invariance, PTL

\* How a job that is done or cancelled may get another state.
Undone(j) ==
  \/ j \in known /\ set_job_enqueued(j)
  \/ \E s \in Session : j \in jobOf[s] /\
       \/ commit_user(s) /\ button[s] = "pending"
       \/ j \in changed[s] /\ (retry_postpone(s) \/ perform_failed(s))

\* A session that has not lost its job performs a job that is started, and what it
\* writes waits, unless it is a user who requeues the job.
LEMMA SettledStep ==
  ASSUME Isolation, [Next]_vars, NEW j \in Job, row[j] \in {"done", "cancelled"},
         row'[j] # row[j]
  PROVE  Undone(j)
<1>1. ASSUME NEW me, NEW i \in Job, NEW state \in States, Sets(me, i, state) PROVE i = j
  <2>1. /\ Commit(me, One(i, state))
        /\ \A c \in Job : One(i, state)[c] = IF c = i THEN state ELSE Unwritten
    BY <1>1, Setting
  <2>2. QED
    BY <2>1 DEF Commit
<1>2. ASSUME NEW i \in Job, set_job_enqueued(i) PROVE Undone(j)
  <2>1. i = j
    BY <1>1, <1>2 DEF set_job_enqueued, States
  <2>2. QED
    BY <1>2, <2>1 DEF Undone, set_job_enqueued
<1>3. ASSUME NEW i \in Job, requeue_dead_jobs(i) PROVE FALSE
  <2>1. PICK state \in {"pending", "failed"} : Sets({}, i, state)
    BY <1>3 DEF requeue_dead_jobs
  <2>2. i = j
    BY <1>1, <2>1 DEF States
  <2>3. QED
    BY <1>3, <2>2 DEF requeue_dead_jobs
<1>4. ASSUME NEW w \in Session, NEW i \in Job, _acquire_job(w, i) PROVE FALSE
  <2>1. i = j
    BY <1>1, <1>4 DEF _acquire_job, States
  <2>2. QED
    BY <1>4, <2>1 DEF _acquire_job
<1>5. ASSUME NEW w \in Session, perform_done(w) PROVE FALSE
  <2>1. PICK i \in jobOf[w] \ changed[w] : pc[w] = "performing" /\ Sets({w}, i, "done")
    BY <1>5 DEF perform_done
  <2>2. i \in Job /\ row[i] = "started"
    BY <2>1 DEF Isolation, TypeOK, SessionOK, Works
  <2>3. i = j
    BY <1>1, <2>1, <2>2 DEF States
  <2>4. QED
    BY <2>2, <2>3
<1>6. ASSUME NEW w \in Session, retry_postpone(w) \/ perform_failed(w) PROVE Undone(j)
  <2>1. PICK i \in jobOf[w], state \in {"wait_dependencies", "pending", "failed"} :
          i \in Job /\ Stores(w, i, state)
    BY <1>6, StoresState DEF Isolation
  <2>2. pc[w] = "performing" /\ i = j
    BY <1>1, <2>1 DEF Stores, States
  <2>3. j \in changed[w]
    BY <2>1, <2>2 DEF Isolation, SessionOK, Works
  <2>4. QED
    BY <1>6, <2>1, <2>2, <2>3 DEF Undone
<1>7. ASSUME NEW s \in Session, commit_dependents(s) \/ commit_user(s) PROVE Undone(j)
  <2>1. /\ Commit({s}, writes[s]) /\ pc[s] \in Writing
        /\ commit_dependents(s) => pc[s] = "committing"
    BY <1>7 DEF commit_dependents, commit_user, Writing
  <2>2. writes[s][j] # Unwritten
    BY <2>1 DEF Commit
  <2>3. snapshot[s][j] = row[j]
    BY <2>1, <2>2 DEF Isolation, SessionOK, SnapshotIsFresh, WritesFresh, Writing, Reading
  <2>4. pc[s] = "stored" /\ j \in jobOf[s] /\ row[j] \in StatesFrom(button[s])
    BY <2>2, <2>3 DEF Isolation, SessionOK, WritesFresh
  <2>5. button[s] = "pending" /\ commit_user(s)
    BY <1>7, <2>1, <2>4 DEF StatesFrom
  <2>6. QED
    BY <2>4, <2>5 DEF Undone
<1>8. ASSUME row' = row PROVE FALSE
  BY <1>8
<1>9. ASSUME NEW w \in Session, \/ enqueue_dependent_jobs(w) \/ enqueue_waiting(w)
                               \/ enqueue_waiting_failed(w) \/ crash(w)
      PROVE  FALSE
  BY <1>8, <1>9 DEF enqueue_dependent_jobs, enqueue_waiting, enqueue_waiting_failed, crash,
                    Begins, Rollback, rowVars
<1>10. ASSUME NEW u \in Session,
             \/ \E i \in Job, b \in Buttons : press(u, i, b)
             \/ change_job_state(u) \/ change_job_state_failed(u)
      PROVE  FALSE
  BY <1>8, <1>10 DEF press, change_job_state, change_job_state_failed, Begins, Rollback,
                     rowVars
<1>11. CASE Reads \/ UNCHANGED vars
  BY <1>8, <1>11, RunnerReads DEF Isolation, vars, rowVars
<1>12. QED
  BY <1>2, <1>3, <1>4, <1>5, <1>6, <1>7, <1>9, <1>10, <1>11
     DEF Next, RunnerStep, WorkerStep, UserStep, Reads

\* Nobody's stale read of a dependent undoes what another session has committed as
\* done or cancelled, and no worker commits its job as done over it: only a user
\* does, the runner that remembers the job as pending, and a worker that has lost it.
THEOREM SettledIsFinal == ASSUME DependenciesAssumption PROVE Spec => SettledIsKept
<1>1. Isolation /\ [Next]_vars =>
        [\A j \in Job : row[j] \in {"done", "cancelled"} /\ row'[j] # row[j] => Undone(j)]_vars
  BY SettledStep
<1>2. QED
  BY <1>1, Invariance, PTL DEF Spec, SettledIsKept, Undone

LEMMA NobodyInitially == DependenciesAssumption /\ Init => NobodyIsMissed
<1> SUFFICES ASSUME DependenciesAssumption, Init PROVE AllReleased
  BY DEF NobodyIsMissed
<1>1. /\ row = Created /\ known = {}
      /\ \A s \in Session : /\ pc[s] = "idle" /\ writes[s] = Nothing
                            /\ snapshot[s] = Created /\ changed[s] = {}
      /\ \A c \in Job : Nothing[c] = Unwritten /\ Parents[c] \subseteq Job
  BY DEF Init, Nothing, DependenciesAssumption
<1>2. OnlyWorkers
  BY <1>1 DEF OnlyWorkers, WorkersOnly
<1>3. ReleasedForGood
  BY <1>1, CreatedReleases DEF ReleasedForGood, DoneParents, Unwritten
<1>4. SiblingsTogether
  BY <1>1 DEF SiblingsTogether, Together, Created
<1>5. ReadyIsReleased
  BY <1>1 DEF ReadyIsReleased, Ready, DoneParents, Created, Waiting
<1>6. QED
  BY <1>2, <1>3, <1>4, <1>5 DEF AllReleased

\* Workers that do the parents of a job at once do not both miss it, whatever the
\* number of workers and jobs, if siblings share their parents.
THEOREM NobodyLeftWaiting == ASSUME DependenciesAssumption PROVE Spec => []WorkersMissNobody
<1>1. Isolation /\ NobodyIsMissed => WorkersMissNobody
  <2> SUFFICES ASSUME Isolation, NobodyIsMissed, SiblingsShareParents, edits = 0,
                      crashes = 0, \A s \in Session : pc[s] = "idle",
                      NEW c \in Job, row[c] = "wait_dependencies",
                      \A p \in Parents[c] : row[p] = "done"
               PROVE  FALSE
    BY DEF WorkersMissNobody, WaitsForAParent
  <2>1. PICK w \in Session : Releasing(w, c)
    BY DEF NobodyIsMissed, AllReleased, ReadyIsReleased, Ready, DoneParents, Waiting
  <2>2. QED
    BY <2>1 DEF Releasing
<1>2. Isolation /\ NobodyIsMissed /\ [Next]_vars => NobodyIsMissed'
  BY NobodyStep
<1>3. Spec => []Isolation
  BY Invariance, PTL
<1>4. Init => NobodyIsMissed
  BY NobodyInitially
<1>5. QED
  BY <1>1, <1>2, <1>3, <1>4, PTL DEF Spec

-----------------------------------------------------------------------------
(* Graphs of delayables *)

\* An instance has the operators of the library under names of its own.
LEMMA GraphOperators ==
  ASSUME NEW S
  PROVE  /\ Graph!IsFiniteSet(S) <=> IsFiniteSet(S)
         /\ Graph!Cardinality(S) = Cardinality(S)
<1>1. Graph!IsFiniteSet(S) <=> IsFiniteSet(S)
  BY DEF Graph!IsFiniteSet, IsFiniteSet
<1>2. Graph!Cardinality(S) = Cardinality(S)
  BY DEF Graph!Cardinality, Cardinality
<1> QED
  BY <1>1, <1>2

LEMMA LeastNumber ==
  ASSUME NEW S \in SUBSET Nat, S # {}
  PROVE  \E n \in S : \A m \in S : n <= m
<1> DEFINE R == OpToRel(<, Nat)
<1>1. PICK n \in S : \A m \in S : ~(<<m, n>> \in R)
  <2>1. IsWellFoundedOn(R, Nat)
    BY NatLessThanWellFounded
  <2> HIDE DEF R
  <2> QED
    BY <2>1, WFMin
<1>2. \A m \in S : ~(m < n)
  BY <1>1 DEF OpToRel
<1> QED
  BY <1>2

\* Nodes are ranked: a container comes after its members.
Ranked(r, K) == /\ r \in [Graph!Node -> 0 .. K]
                /\ \A n \in Container : \A m \in Graph!Elements(members[n]) : r[m] < r[n]
Below(r, k) == {n \in Graph!Node : r[n] < k}

\* What an edge of the _graph of a node comes from.
From(e, p) == /\ e[2] = p[2]
              /\ e[1] = p[1] \/ (p[1] \in Container /\ e[1] \in Graph!Elements(members[p[1]]))

ContainerOK(n) ==
    /\ Graph!Elements(members[n]) \subseteq Graph!Created
    /\ kind[n] = "none" <=> members[n] = <<>>
    /\ kind[n] = "chain" => \A i \in 1 .. Len(members[n]) - 1 :
                               <<members[n][i], members[n][i + 1]>> \in edges[n]
EdgesOK(n) ==
    /\ edges[n] \cup declared[n] \subseteq Graph!Created \X Graph!Created
    /\ n \notin Graph!Created => edges[n] = {} /\ declared[n] = {}
    /\ \A e \in edges[n] : e[1] \in Graph!Vertices(n) /\ \E p \in declared[n] : From(e, p)
    /\ \A p \in declared[n] :
         p \in edges[n] \/ (p[1] = n /\ Graph!OnDoneEdges(n, p[2]) \subseteq edges[n])

Structure ==
    /\ kind \in [Container -> Graph!Kinds] /\ members \in [Container -> Seq(Graph!Node)]
    /\ edges \in [Graph!Node -> SUBSET (Graph!Node \X Graph!Node)]
    /\ declared \in [Graph!Node -> SUBSET (Graph!Node \X Graph!Node)]
    /\ \A n \in Container : ContainerOK(n)
    /\ \A n \in Graph!Node : EdgesOK(n)
    /\ \E K \in Nat : \E r : Ranked(r, K)

LEMMA MembersAre ==
  ASSUME Structure, NEW n \in Container
  PROVE  /\ Graph!Elements(members[n]) \subseteq Graph!Node
         /\ members[n] # <<>> => /\ members[n][1] \in Graph!Elements(members[n])
                                 /\ members[n][Len(members[n])] \in Graph!Elements(members[n])
<1>1. members[n] \in Seq(Graph!Node)
  BY DEF Structure
<1>2. Len(members[n]) \in Nat /\ DOMAIN members[n] = 1 .. Len(members[n])
      /\ (members[n] # <<>> => Len(members[n]) # 0)
  BY <1>1, LenProperties, EmptySeq
<1>3. \A i \in DOMAIN members[n] : members[n][i] \in Graph!Node
  BY <1>1, <1>2
<1> QED
  BY <1>2, <1>3 DEF Graph!Elements
-----------------------------------------------------------------------------
\* The recursive functions over nodes

InLeaves(f, n) == IF n \in Leaf THEN {n} ELSE UNION {f[m] : m \in Graph!Elements(members[n])}

LEMMA LeavesBelow ==
  ASSUME Structure, NEW K \in Nat, NEW r, Ranked(r, K), NEW k \in Nat
  PROVE  \E f : f = [n \in Below(r, k) |-> InLeaves(f, n)]
<1> DEFINE S == {j \in Nat : ~ \E f : f = [n \in Below(r, j) |-> InLeaves(f, n)]}
<1> SUFFICES ASSUME S # {} PROVE FALSE
  OBVIOUS
<1>1. PICK j \in S : \A i \in S : j <= i
  BY LeastNumber
<1>2. j # 0
  <2> SUFFICES \E f : f = [n \in Below(r, 0) |-> InLeaves(f, n)]
    BY <1>1
  <2>1. Below(r, 0) = {}
    BY DEF Below, Ranked
  <2> DEFINE f == [n \in Below(r, 0) |-> {}]
  <2>2. f = [n \in Below(r, 0) |-> InLeaves(f, n)]
    BY <2>1
  <2> QED
    BY <2>2
<1>3. j - 1 \in Nat /\ j - 1 \notin S /\ j \in Nat
  BY <1>1, <1>2
<1>4. PICK f : f = [n \in Below(r, j - 1) |-> InLeaves(f, n)]
  BY <1>3
<1> DEFINE h == [n \in Below(r, j) |-> IF r[n] < j - 1 THEN f[n] ELSE InLeaves(f, n)]
<1>5. \A n \in Below(r, j) : h[n] = InLeaves(h, n)
  <2> SUFFICES ASSUME NEW n \in Below(r, j) PROVE h[n] = InLeaves(h, n)
    OBVIOUS
  <2>1. n \in Graph!Node /\ r[n] < j /\ r[n] \in Nat
    BY DEF Below, Ranked
  <2>2. h[n] = InLeaves(f, n)
    <3>1. r[n] < j - 1 => n \in Below(r, j - 1)
      BY <2>1 DEF Below
    <3>2. n \in Below(r, j - 1) => f[n] = InLeaves(f, n)
      BY <1>4
    <3> QED
      BY <3>1, <3>2
  <2>3. n \notin Leaf => \A m \in Graph!Elements(members[n]) : h[m] = f[m]
    <3> SUFFICES ASSUME n \notin Leaf, NEW m \in Graph!Elements(members[n]) PROVE h[m] = f[m]
      OBVIOUS
    <3>1. n \in Container
      BY <2>1 DEF Graph!Node
    <3>2. m \in Graph!Node /\ r[m] < r[n] /\ r[m] \in Nat
      BY <3>1, MembersAre DEF Ranked
    <3>3. m \in Below(r, j) /\ r[m] < j - 1
      BY <2>1, <3>2, <1>3 DEF Below
    <3> QED
      BY <3>3
  <2> HIDE DEF h
  <2> QED
    BY <2>2, <2>3 DEF InLeaves
<1>6. h = [n \in Below(r, j) |-> InLeaves(h, n)]
  <2>1. h = [n \in Below(r, j) |-> h[n]]
    OBVIOUS
  <2> HIDE DEF h
  <2> QED
    BY <1>5, <2>1
<1> QED
  BY <1>1, <1>6

\* Leaves is the function that its definition says.
LEMMA LeavesAre ==
  ASSUME Structure
  PROVE  \A n \in Graph!Node : Graph!Leaves[n] = InLeaves(Graph!Leaves, n)
<1>0. PICK K \in Nat : \E r : Ranked(r, K)
  BY DEF Structure
<1>1. PICK r : Ranked(r, K)
  BY <1>0
<1>2. Below(r, K + 1) = Graph!Node
  BY <1>1 DEF Below, Ranked
<1>3. \E f : f = [n \in Graph!Node |-> InLeaves(f, n)]
  <2>1. K + 1 \in Nat
    OBVIOUS
  <2> QED
    BY <1>1, <1>2, <2>1, LeavesBelow
<1>4. Graph!Leaves = CHOOSE f : f = [n \in Graph!Node |-> InLeaves(f, n)]
  BY DEF Graph!Leaves, InLeaves
<1>5. Graph!Leaves = [n \in Graph!Node |-> InLeaves(Graph!Leaves, n)]
  BY <1>3, <1>4
<1> QED
  BY <1>5

Sides == {"head", "tail"}
EndMember(side, n) == members[n][IF side = "head" THEN 1 ELSE Len(members[n])]
InEnds(f, e) ==
    CASE e[2] \in Leaf -> {e[2]}
      [] e[2] \in Container /\ kind[e[2]] = "chain" ->
           f[<<Graph!Opposite(e[1]), EndMember(e[1], e[2])>>]
      [] OTHER -> UNION {f[<<e[1], m>>] : m \in Graph!Elements(members[e[2]])}
EndsDomain(r, k) == Sides \X Below(r, k)

\* What the ends of a node depend on: its leaf itself, or ends of members.
LEMMA EndsSame ==
  ASSUME Graph!DelayablesAssumption, Structure, NEW e \in Sides \X Graph!Node, NEW f, NEW h,
         e[2] \in Container =>
            \A m \in Graph!Elements(members[e[2]]) : \A side \in Sides :
              f[<<side, m>>] = h[<<side, m>>]
  PROVE  InEnds(f, e) = InEnds(h, e)
<1>1. e[1] \in Sides /\ e[2] \in Graph!Node /\ Graph!Opposite(e[1]) \in Sides
  BY DEF Sides, Graph!Opposite
<1>2. CASE e[2] \in Leaf
  <2>1. e[2] \notin Container
    BY <1>2 DEF Graph!DelayablesAssumption
  <2> QED
    BY <1>2, <2>1 DEF InEnds
<1>3. CASE e[2] \in Container /\ kind[e[2]] = "chain"
  <2>1. e[2] \notin Leaf
    BY <1>3 DEF Graph!DelayablesAssumption
  <2>2. EndMember(e[1], e[2]) \in Graph!Elements(members[e[2]])
    BY <1>3, MembersAre DEF Structure, ContainerOK, EndMember
  <2>3. f[<<Graph!Opposite(e[1]), EndMember(e[1], e[2])>>]
          = h[<<Graph!Opposite(e[1]), EndMember(e[1], e[2])>>]
    BY <1>1, <1>3, <2>2
  <2> QED
    BY <1>3, <2>1, <2>3 DEF InEnds
<1>4. CASE e[2] \in Container /\ kind[e[2]] # "chain"
  <2>1. e[2] \notin Leaf
    BY <1>4 DEF Graph!DelayablesAssumption
  <2>2. \A m \in Graph!Elements(members[e[2]]) : f[<<e[1], m>>] = h[<<e[1], m>>]
    BY <1>1, <1>4
  <2>3. {f[<<e[1], m>>] : m \in Graph!Elements(members[e[2]])}
          = {h[<<e[1], m>>] : m \in Graph!Elements(members[e[2]])}
    BY <2>2
  <2> QED
    BY <1>4, <2>1, <2>3 DEF InEnds
<1> QED
  BY <1>1, <1>2, <1>3, <1>4 DEF Graph!Node

LEMMA EndsBelow ==
  ASSUME Graph!DelayablesAssumption, Structure, NEW K \in Nat, NEW r, Ranked(r, K), NEW k \in Nat
  PROVE  \E f : f = [e \in EndsDomain(r, k) |-> InEnds(f, e)]
<1> DEFINE S == {j \in Nat : ~ \E f : f = [e \in EndsDomain(r, j) |-> InEnds(f, e)]}
<1> SUFFICES ASSUME S # {} PROVE FALSE
  OBVIOUS
<1>1. PICK j \in S : \A i \in S : j <= i
  BY LeastNumber
<1>2. j # 0
  <2> SUFFICES \E f : f = [e \in EndsDomain(r, 0) |-> InEnds(f, e)]
    BY <1>1
  <2>1. EndsDomain(r, 0) = {}
    BY DEF Below, Ranked, EndsDomain
  <2> DEFINE f == [e \in EndsDomain(r, 0) |-> {}]
  <2>2. f = [e \in EndsDomain(r, 0) |-> InEnds(f, e)]
    BY <2>1
  <2> QED
    BY <2>2
<1>3. j - 1 \in Nat /\ j - 1 \notin S /\ j \in Nat
  BY <1>1, <1>2
<1>4. PICK f : f = [e \in EndsDomain(r, j - 1) |-> InEnds(f, e)]
  BY <1>3
<1> DEFINE h == [e \in EndsDomain(r, j) |-> IF r[e[2]] < j - 1 THEN f[e] ELSE InEnds(f, e)]
<1>5. \A e \in EndsDomain(r, j) : h[e] = InEnds(h, e)
  <2> SUFFICES ASSUME NEW e \in EndsDomain(r, j) PROVE h[e] = InEnds(h, e)
    OBVIOUS
  <2>1. /\ e \in Sides \X Graph!Node /\ e[1] \in Sides /\ e[2] \in Graph!Node /\ r[e[2]] < j
        /\ r[e[2]] \in Nat
        /\ e[2] \in Below(r, j)
    BY DEF EndsDomain, Below, Ranked
  <2>2. h[e] = InEnds(f, e)
    <3>1. r[e[2]] < j - 1 => e \in EndsDomain(r, j - 1)
      BY <2>1 DEF EndsDomain, Below
    <3>2. e \in EndsDomain(r, j - 1) => f[e] = InEnds(f, e)
      BY <1>4
    <3> QED
      BY <3>1, <3>2
  <2>3. e[2] \in Container =>
          \A m \in Graph!Elements(members[e[2]]) : \A side \in Sides :
            f[<<side, m>>] = h[<<side, m>>]
    <3> SUFFICES ASSUME e[2] \in Container, NEW m \in Graph!Elements(members[e[2]]),
                        NEW side \in Sides
                 PROVE  f[<<side, m>>] = h[<<side, m>>]
      OBVIOUS
    <3>1. m \in Graph!Node /\ r[m] < r[e[2]] /\ r[m] \in Nat
      BY <2>1, MembersAre DEF Ranked
    <3>2. <<side, m>> \in EndsDomain(r, j) /\ r[m] < j - 1
      BY <2>1, <3>1, <1>3 DEF Below, EndsDomain
    <3> QED
      BY <3>2
  <2>4. InEnds(f, e) = InEnds(h, e)
    <3> HIDE DEF h
    <3> QED
      BY <2>1, <2>3, EndsSame
  <2> QED
    BY <2>2, <2>4
<1>6. h = [e \in EndsDomain(r, j) |-> InEnds(h, e)]
  <2>1. h = [e \in EndsDomain(r, j) |-> h[e]]
    OBVIOUS
  <2> HIDE DEF h
  <2> QED
    BY <1>5, <2>1
<1> QED
  BY <1>1, <1>6

LEMMA EndsAre ==
  ASSUME Graph!DelayablesAssumption, Structure
  PROVE  \A e \in Sides \X Graph!Node : Graph!Ends[e] = InEnds(Graph!Ends, e)
<1>0. PICK K \in Nat : \E r : Ranked(r, K)
  BY DEF Structure
<1>1. PICK r : Ranked(r, K)
  BY <1>0
<1>2. EndsDomain(r, K + 1) = Sides \X Graph!Node
  BY <1>1 DEF Below, Ranked, EndsDomain
<1>3. \E f : f = [e \in Sides \X Graph!Node |-> InEnds(f, e)]
  <2>1. K + 1 \in Nat
    OBVIOUS
  <2>2. \E f : f = [e \in EndsDomain(r, K + 1) |-> InEnds(f, e)]
    BY <1>1, <2>1, EndsBelow
  <2> QED
    BY <1>2, <2>2
<1>4. Graph!Ends = CHOOSE f : f = [e \in Sides \X Graph!Node |-> InEnds(f, e)]
  BY DEF Graph!Ends, InEnds, Sides, EndMember
<1>5. Graph!Ends = [e \in Sides \X Graph!Node |-> InEnds(Graph!Ends, e)]
  BY <1>3, <1>4
<1> QED
  BY <1>5

\* The ends of the three kinds of nodes.
LEMMA EndsOf ==
  ASSUME Graph!DelayablesAssumption, Structure, NEW side \in Sides
  PROVE  /\ \A n \in Leaf : Graph!Ends[<<side, n>>] = {n}
         /\ \A n \in Container : kind[n] = "chain" =>
               Graph!Ends[<<side, n>>] = Graph!Ends[<<Graph!Opposite(side), EndMember(side, n)>>]
         /\ \A n \in Container : kind[n] # "chain" =>
               Graph!Ends[<<side, n>>]
                 = UNION {Graph!Ends[<<side, m>>] : m \in Graph!Elements(members[n])}
<1>1. \A n \in Graph!Node : Graph!Ends[<<side, n>>] = InEnds(Graph!Ends, <<side, n>>)
  BY EndsAre
<1>2. \A n \in Container : n \in Graph!Node /\ n \notin Leaf
  BY DEF Graph!Node, Graph!DelayablesAssumption
<1>3. \A n \in Leaf : n \in Graph!Node /\ n \notin Container
  BY DEF Graph!Node, Graph!DelayablesAssumption
<1>4. \A n : <<side, n>>[1] = side /\ <<side, n>>[2] = n
  OBVIOUS
<1>5. ASSUME NEW n \in Leaf PROVE Graph!Ends[<<side, n>>] = {n}
  <2> DEFINE e == <<side, n>>
  <2>1. e[2] = n /\ Graph!Ends[e] = InEnds(Graph!Ends, e) /\ e[2] \notin Container
    BY <1>1, <1>3, <1>4
  <2> HIDE DEF e
  <2>2. Graph!Ends[e] = {e[2]}
    BY <2>1 DEF InEnds
  <2> QED
    BY <2>1, <2>2 DEF e
<1>6. \A n \in Container : kind[n] = "chain" =>
         Graph!Ends[<<side, n>>] = Graph!Ends[<<Graph!Opposite(side), EndMember(side, n)>>]
  BY <1>1, <1>2, <1>4 DEF InEnds
<1>7. ASSUME NEW n \in Container, kind[n] # "chain"
      PROVE  Graph!Ends[<<side, n>>]
               = UNION {Graph!Ends[<<side, m>>] : m \in Graph!Elements(members[n])}
  <2> DEFINE e == <<side, n>>
  <2>1. e[1] = side /\ e[2] = n /\ Graph!Ends[e] = InEnds(Graph!Ends, e) /\ e[2] \notin Leaf
    BY <1>1, <1>2, <1>4
  <2> HIDE DEF e
  <2>2. Graph!Ends[e] = UNION {Graph!Ends[<<e[1], m>>] : m \in Graph!Elements(members[e[2]])}
    BY <1>7, <2>1 DEF InEnds
  <2> QED
    BY <2>1, <2>2 DEF e
<1> QED
  BY <1>5, <1>6, <1>7

LEMMA LeavesOf ==
  ASSUME Graph!DelayablesAssumption, Structure
  PROVE  /\ \A n \in Leaf : Graph!Leaves[n] = {n}
         /\ \A n \in Container :
              Graph!Leaves[n] = UNION {Graph!Leaves[m] : m \in Graph!Elements(members[n])}
BY LeavesAre DEF Graph!Node, Graph!DelayablesAssumption, InLeaves

-----------------------------------------------------------------------------
Pairs == Leaf \X Leaf

LEMMA FiniteNodes ==
  ASSUME Graph!DelayablesAssumption
  PROVE  IsFiniteSet(Graph!Node) /\ IsFiniteSet(Leaf) /\ IsFiniteSet(Pairs)
<1>1. IsFiniteSet(Graph!Node) /\ Leaf \in SUBSET Graph!Node
  BY GraphOperators DEF Graph!DelayablesAssumption, Graph!Node
<1>2. IsFiniteSet(Leaf)
  BY <1>1, FS_Subset
<1>3. IsFiniteSet(Pairs)
  BY <1>2, FS_Product DEF Pairs
<1> QED
  BY <1>1, <1>2, <1>3

LEMMA NodeInduction ==
  ASSUME Structure, NEW S,
         \A n \in Graph!Node : (n \in Container => Graph!Elements(members[n]) \subseteq S) =>
           n \in S
  PROVE  Graph!Node \subseteq S
<1>0. PICK K \in Nat : \E r : Ranked(r, K)
  BY DEF Structure
<1>1. PICK r : Ranked(r, K)
  BY <1>0
<1> DEFINE T == {k \in Nat : \E n \in Graph!Node \ S : r[n] = k}
<1> SUFFICES ASSUME NEW n \in Graph!Node \ S PROVE FALSE
  OBVIOUS
<1>2. \A m \in Graph!Node : r[m] \in Nat
  BY <1>1 DEF Ranked
<1>3. T \in SUBSET Nat /\ T # {}
  BY <1>2
<1>4. PICK k \in T : \A j \in T : k <= j
  BY <1>3, LeastNumber
<1>5. PICK m \in Graph!Node \ S : r[m] = k
  BY <1>4
<1>6. ASSUME m \in Container PROVE Graph!Elements(members[m]) \subseteq S
  <2> SUFFICES ASSUME NEW e \in Graph!Elements(members[m]), e \notin S PROVE FALSE
    OBVIOUS
  <2>1. e \in Graph!Node /\ r[e] < r[m]
    BY <1>1, <1>6, MembersAre DEF Ranked
  <2>2. r[e] \in T
    BY <1>2, <2>1
  <2>3. k \in Nat /\ r[e] \in Nat
    BY <1>2, <2>1, <1>4
  <2> QED
    BY <1>4, <1>5, <2>1, <2>2, <2>3
<1> QED
  BY <1>5, <1>6

LEMMA LeavesTyped ==
  ASSUME Graph!DelayablesAssumption, Structure
  PROVE  \A n \in Graph!Node : Graph!Leaves[n] \subseteq Leaf
<1> DEFINE S == {n \in Graph!Node : Graph!Leaves[n] \subseteq Leaf}
<1>1. ASSUME NEW n \in Graph!Node, n \in Container => Graph!Elements(members[n]) \subseteq S
      PROVE  n \in S
  <2>1. CASE n \in Leaf
    BY <2>1, LeavesOf
  <2>2. CASE n \in Container
    <3>1. \A m \in Graph!Elements(members[n]) : Graph!Leaves[m] \subseteq Leaf
      BY <1>1, <2>2
    <3>2. Graph!Leaves[n] = UNION {Graph!Leaves[m] : m \in Graph!Elements(members[n])}
      BY <2>2, LeavesOf
    <3> QED
      BY <3>1, <3>2
  <2> QED
    BY <2>1, <2>2 DEF Graph!Node
<1> HIDE DEF S
<1>2. Graph!Node \subseteq S
  BY <1>1, NodeInduction
<1> QED
  BY <1>2 DEF S

\* The ends of a node are delayables in it.
LEMMA EndsInside ==
  ASSUME Graph!DelayablesAssumption, Structure
  PROVE  \A n \in Graph!Node : \A side \in Sides : Graph!Ends[<<side, n>>] \subseteq Graph!Leaves[n]
<1> DEFINE S == {n \in Graph!Node :
                  \A side \in Sides : Graph!Ends[<<side, n>>] \subseteq Graph!Leaves[n]}
<1>1. ASSUME NEW n \in Graph!Node, n \in Container => Graph!Elements(members[n]) \subseteq S
      PROVE  n \in S
  <2> SUFFICES ASSUME NEW side \in Sides PROVE Graph!Ends[<<side, n>>] \subseteq Graph!Leaves[n]
    OBVIOUS
  <2>1. CASE n \in Leaf
    BY <2>1, LeavesOf, EndsOf
  <2>2. CASE n \in Container
    <3>1. \A m \in Graph!Elements(members[n]) : \A s \in Sides :
            Graph!Ends[<<s, m>>] \subseteq Graph!Leaves[m]
      BY <1>1, <2>2
    <3>2. Graph!Leaves[n] = UNION {Graph!Leaves[m] : m \in Graph!Elements(members[n])}
      BY <2>2, LeavesOf
    <3>3. CASE kind[n] = "chain"
      <4>1. Graph!Ends[<<side, n>>] = Graph!Ends[<<Graph!Opposite(side), EndMember(side, n)>>]
        BY <2>2, <3>3, EndsOf
      <4>2. EndMember(side, n) \in Graph!Elements(members[n])
        BY <2>2, <3>3, MembersAre DEF Structure, ContainerOK, EndMember
      <4>3. Graph!Opposite(side) \in Sides
        BY DEF Graph!Opposite, Sides
      <4> QED
        BY <3>1, <3>2, <4>1, <4>2, <4>3
    <3>4. CASE kind[n] # "chain"
      <4>1. Graph!Ends[<<side, n>>]
              = UNION {Graph!Ends[<<side, m>>] : m \in Graph!Elements(members[n])}
        BY <2>2, <3>4, EndsOf
      <4> QED
        BY <3>1, <3>2, <4>1
    <3> QED
      BY <3>3, <3>4
  <2> QED
    BY <2>1, <2>2 DEF Graph!Node
<1> HIDE DEF S
<1>2. Graph!Node \subseteq S
  BY <1>1, NodeInduction
<1> QED
  BY <1>2 DEF S

\* Every node that has been created has ends.
LEMMA EndsExist ==
  ASSUME Graph!DelayablesAssumption, Structure
  PROVE  \A n \in Graph!Created : \A side \in Sides : Graph!Ends[<<side, n>>] # {}
<1> DEFINE S == {n \in Graph!Node :
                  n \in Graph!Created => \A side \in Sides : Graph!Ends[<<side, n>>] # {}}
<1>1. ASSUME NEW n \in Graph!Node, n \in Container => Graph!Elements(members[n]) \subseteq S
      PROVE  n \in S
  <2> SUFFICES ASSUME n \in Graph!Created, NEW side \in Sides PROVE Graph!Ends[<<side, n>>] # {}
    OBVIOUS
  <2>1. CASE n \in Leaf
    BY <2>1, EndsOf
  <2>2. CASE n \in Container
    <3>1. \A m \in Graph!Elements(members[n]) : m \in S /\ m \in Graph!Created
      BY <1>1, <2>2 DEF Structure, ContainerOK
    <3>2. members[n] # <<>>
      <4>1. n \notin Leaf
        BY <2>2 DEF Graph!DelayablesAssumption
      <4> QED
        BY <2>2, <4>1 DEF Structure, ContainerOK, Graph!Created
    <3>3. CASE kind[n] = "chain"
      <4>1. Graph!Ends[<<side, n>>] = Graph!Ends[<<Graph!Opposite(side), EndMember(side, n)>>]
        BY <2>2, <3>3, EndsOf
      <4>2. EndMember(side, n) \in Graph!Elements(members[n])
        BY <2>2, <3>2, MembersAre DEF EndMember
      <4>3. Graph!Opposite(side) \in Sides
        BY DEF Graph!Opposite, Sides
      <4> QED
        BY <3>1, <4>1, <4>2, <4>3
    <3>4. CASE kind[n] # "chain"
      <4>1. Graph!Ends[<<side, n>>]
              = UNION {Graph!Ends[<<side, m>>] : m \in Graph!Elements(members[n])}
        BY <2>2, <3>4, EndsOf
      <4>2. members[n][1] \in Graph!Elements(members[n])
        BY <2>2, <3>2, MembersAre
      <4>3. PICK m \in Graph!Elements(members[n]) : Graph!Ends[<<side, m>>] # {}
        BY <3>1, <4>2
      <4>4. Graph!Ends[<<side, m>>] \subseteq Graph!Ends[<<side, n>>]
        BY <4>1
      <4> QED
        BY <4>3, <4>4
    <3> QED
      BY <3>3, <3>4
  <2> QED
    BY <2>1, <2>2 DEF Graph!Node
<1> HIDE DEF S
<1>2. Graph!Node \subseteq S
  BY <1>1, NodeInduction
<1> QED
  BY <1>2 DEF S, Graph!Created, Graph!Node
-----------------------------------------------------------------------------
\* The nodes that are visited

VisitStep(W) == W \cup UNION {Graph!Vertices(m) : m \in W}
InVisit(f, n, k) == IF k = 0 THEN {n} ELSE VisitStep(f[k - 1])

LEMMA VerticesCreated ==
  ASSUME Graph!DelayablesAssumption, Structure, NEW n \in Graph!Node
  PROVE  Graph!Vertices(n) \subseteq Graph!Created
<1>1. {e[2] : e \in edges[n]} \subseteq Graph!Created
  <2>1. edges[n] \subseteq Graph!Created \X Graph!Created
    BY DEF Structure, EdgesOK
  <2> QED
    BY <2>1
<1>2. n \in Leaf => {n} \subseteq Graph!Created
  BY DEF Graph!Created
<1>3. n \notin Leaf => Graph!Elements(members[n]) \subseteq Graph!Created
  BY DEF Structure, ContainerOK, Graph!Node
<1> QED
  BY <1>1, <1>2, <1>3 DEF Graph!Vertices

LEMMA VisitBelow ==
  ASSUME NEW n, NEW k \in Nat
  PROVE  \E f : f = [j \in 0 .. k |-> InVisit(f, n, j)]
<1> DEFINE S == {i \in Nat : ~ \E f : f = [j \in 0 .. i |-> InVisit(f, n, j)]}
<1> SUFFICES ASSUME S # {} PROVE FALSE
  OBVIOUS
<1>0. S \in SUBSET Nat
  OBVIOUS
<1>1. PICK i \in S : \A j \in S : i <= j
  BY <1>0, LeastNumber
<1>2. i # 0
  <2> SUFFICES \E f : f = [j \in 0 .. 0 |-> InVisit(f, n, j)]
    BY <1>1
  <2> DEFINE f == [j \in 0 .. 0 |-> {n}]
  <2>1. \A j \in 0 .. 0 : InVisit(f, n, j) = {n}
    BY DEF InVisit
  <2>2. f = [j \in 0 .. 0 |-> InVisit(f, n, j)]
    BY <2>1
  <2> QED
    BY <2>2
<1>3. i - 1 \in Nat /\ i - 1 \notin S /\ i \in Nat
  BY <1>1, <1>2
<1>4. PICK f : f = [j \in 0 .. i - 1 |-> InVisit(f, n, j)]
  BY <1>3
<1> DEFINE h == [j \in 0 .. i |-> IF j < i THEN f[j] ELSE InVisit(f, n, j)]
<1>5. \A j \in 0 .. i : h[j] = InVisit(h, n, j)
  <2> SUFFICES ASSUME NEW j \in 0 .. i PROVE h[j] = InVisit(h, n, j)
    OBVIOUS
  <2>1. h[j] = InVisit(f, n, j)
    <3>1. j < i => j \in 0 .. i - 1
      BY <1>3
    <3>2. j \in 0 .. i - 1 => f[j] = InVisit(f, n, j)
      BY <1>4
    <3> QED
      BY <3>1, <3>2
  <2>2. j # 0 => h[j - 1] = f[j - 1]
    <3>1. j # 0 => j - 1 \in 0 .. i /\ j - 1 < i
      BY <1>3
    <3> QED
      BY <3>1
  <2> HIDE DEF h
  <2> QED
    BY <2>1, <2>2 DEF InVisit
<1>6. h = [j \in 0 .. i |-> InVisit(h, n, j)]
  <2>1. h = [j \in 0 .. i |-> h[j]]
    OBVIOUS
  <2> HIDE DEF h
  <2> QED
    BY <1>5, <2>1
<1> QED
  BY <1>1, <1>6

Growing(W, n, k) ==
    /\ n \in W /\ W \subseteq Graph!Node
    /\ n \in Graph!Created => W \subseteq Graph!Created
    /\ VisitStep(W) = W \/ Cardinality(W) >= k + 1

LEMMA GrowingStep ==
  ASSUME Graph!DelayablesAssumption, Structure, NEW n, NEW k \in Nat, k # 0, NEW W, Growing(W, n,
         k - 1)
  PROVE  Growing(VisitStep(W), n, k)
<1>1. W \subseteq Graph!Node /\ n \in W /\ k - 1 \in Nat
  BY DEF Growing
<1>2. \A m \in W : Graph!Vertices(m) \subseteq Graph!Created /\ Graph!Created \subseteq Graph!Node
  BY <1>1, VerticesCreated DEF Graph!Created, Graph!Node
<1>3. /\ n \in VisitStep(W)
      /\ VisitStep(W) \subseteq Graph!Node
      /\ n \in Graph!Created => VisitStep(W) \subseteq Graph!Created
  BY <1>1, <1>2 DEF VisitStep, Growing
<1>4. CASE VisitStep(W) = W
  BY <1>3, <1>4 DEF Growing
<1>5. CASE VisitStep(W) # W
  <2>1. Cardinality(W) >= k
    BY <1>1, <1>5 DEF Growing
  <2>2. PICK m \in VisitStep(W) : m \notin W
    BY <1>5 DEF VisitStep
  <2>3. IsFiniteSet(W) /\ IsFiniteSet(VisitStep(W))
    BY <1>1, <1>3, FiniteNodes, FS_Subset
  <2>4. Cardinality(W \cup {m}) = Cardinality(W) + 1
    BY <2>2, <2>3, FS_AddElement
  <2>5. W \cup {m} \in SUBSET VisitStep(W)
    BY <2>2 DEF VisitStep
  <2>6. Cardinality(W \cup {m}) <= Cardinality(VisitStep(W))
    BY <2>3, <2>5, FS_Subset
  <2>7. Cardinality(W) \in Nat /\ Cardinality(VisitStep(W)) \in Nat
    BY <2>3, FS_CardinalityType
  <2>8. Cardinality(VisitStep(W)) >= k + 1
    BY <2>1, <2>4, <2>6, <2>7
  <2> QED
    BY <1>3, <2>8 DEF Growing
<1> QED
  BY <1>4, <1>5

\* delay visits the node it is called on, and whatever it finds in the graphs of those.
LEMMA VisitedClosed ==
  ASSUME Graph!DelayablesAssumption, Structure, NEW n \in Graph!Node
  PROVE  /\ n \in Graph!Visited(n) /\ Graph!Visited(n) \subseteq Graph!Node
         /\ n \in Graph!Created => Graph!Visited(n) \subseteq Graph!Created
         /\ \A m \in Graph!Visited(n) : Graph!Vertices(m) \subseteq Graph!Visited(n)
<1> DEFINE N == Cardinality(Graph!Node)
           V == CHOOSE f : f = [k \in 0 .. N |-> InVisit(f, n, k)]
<1>1. IsFiniteSet(Graph!Node) /\ N \in Nat
  BY FiniteNodes, FS_CardinalityType
<1>2. Graph!Visited(n) = V[N]
  <2>1. N = Graph!Cardinality(Graph!Node)
    BY GraphOperators
  <2> HIDE DEF N
  <2> QED
    BY <2>1 DEF Graph!Visited, InVisit, VisitStep
<1>3. V = [k \in 0 .. N |-> InVisit(V, n, k)]
  BY <1>1, VisitBelow
<1> HIDE DEF V
<1> DEFINE S == {k \in Nat : k \in 0 .. N /\ ~Growing(V[k], n, k)}
<1>4. S = {}
  <2> SUFFICES ASSUME S # {} PROVE FALSE
    OBVIOUS
  <2>0. S \in SUBSET Nat
    OBVIOUS
  <2>1. PICK k \in S : \A j \in S : k <= j
    BY <2>0, LeastNumber
  <2>2. k \in Nat /\ k \in 0 .. N /\ ~Growing(V[k], n, k)
    BY <2>1
  <2>3. V[k] = InVisit(V, n, k)
    BY <1>3, <2>2
  <2>4. CASE k = 0
    <3>1. V[k] = {n}
      BY <2>3, <2>4 DEF InVisit
    <3>2. Cardinality({n}) = 1
      BY FS_Singleton
    <3> QED
      BY <2>2, <2>4, <3>1, <3>2 DEF Growing
  <2>5. CASE k # 0
    <3>1. k - 1 \in Nat /\ k - 1 \in 0 .. N /\ k - 1 \notin S
      BY <2>1, <2>2, <2>5, <1>1
    <3>2. Growing(V[k - 1], n, k - 1)
      BY <3>1
    <3>3. V[k] = VisitStep(V[k - 1])
      BY <2>3, <2>5 DEF InVisit
    <3> QED
      BY <2>2, <2>5, <3>2, <3>3, GrowingStep
  <2> QED
    BY <2>4, <2>5
<1>5. Growing(V[N], n, N)
  BY <1>1, <1>4
<1>6. VisitStep(V[N]) = V[N]
  <2>1. V[N] \in SUBSET Graph!Node
    BY <1>5 DEF Growing
  <2>2. Cardinality(V[N]) <= N /\ Cardinality(V[N]) \in Nat
    BY <1>1, <2>1, FS_Subset, FS_CardinalityType
  <2>3. ~(Cardinality(V[N]) >= N + 1)
    BY <1>1, <2>2
  <2> QED
    BY <1>5, <2>3 DEF Growing
<1>7. \A m \in V[N] : Graph!Vertices(m) \subseteq V[N]
  BY <1>6 DEF VisitStep
<1> QED
  BY <1>2, <1>5, <1>7 DEF Growing

-----------------------------------------------------------------------------
\* The order that a set of edges gives

Further(E) == E \cup UNION {{<<e[1], f[2]>> : f \in {g \in E : g[1] = e[2]}} : e \in E}
InClosure(f, E) == IF Further(E) = E THEN E ELSE f[Further(E)]
Missing(E) == Cardinality(Pairs) - Cardinality(E)
Nearly(k) == {E \in SUBSET Pairs : Missing(E) < k}
Transitive(E) == \A l, m, n \in Leaf : <<l, m>> \in E /\ <<m, n>> \in E => <<l, n>> \in E

LEMMA FurtherGrows ==
  ASSUME Graph!DelayablesAssumption, NEW E \in SUBSET Pairs
  PROVE  /\ E \subseteq Further(E) /\ Further(E) \subseteq Pairs
         /\ Missing(E) \in Nat
         /\ Further(E) # E => Missing(Further(E)) < Missing(E)
<1>1. IsFiniteSet(Pairs)
  BY FiniteNodes
<1>2. E \subseteq Further(E)
  BY DEF Further
<1>3. \A e \in E, g \in E : <<e[1], g[2]>> \in Pairs
  BY DEF Pairs
<1>4. Further(E) \subseteq Pairs
  BY <1>3 DEF Further
<1>5. IsFiniteSet(Further(E)) /\ IsFiniteSet(E)
  BY <1>1, <1>4, FS_Subset
<1>6. /\ Cardinality(E) <= Cardinality(Further(E)) /\ Cardinality(E) <= Cardinality(Pairs)
      /\ Cardinality(E) = Cardinality(Further(E)) => E = Further(E)
  <2>1. E \in SUBSET Further(E)
    BY <1>2
  <2> QED
    BY <1>1, <1>5, <2>1, FS_Subset
<1>7. Cardinality(E) \in Nat /\ Cardinality(Further(E)) \in Nat /\ Cardinality(Pairs) \in Nat
  BY <1>1, <1>5, FS_CardinalityType
<1> QED
  BY <1>2, <1>4, <1>6, <1>7 DEF Missing

LEMMA ClosureBelow ==
  ASSUME Graph!DelayablesAssumption, NEW k \in Nat
  PROVE  \E f : f = [E \in Nearly(k) |-> InClosure(f, E)]
<1> DEFINE S == {i \in Nat : ~ \E f : f = [E \in Nearly(i) |-> InClosure(f, E)]}
<1> SUFFICES ASSUME S # {} PROVE FALSE
  OBVIOUS
<1>0. S \in SUBSET Nat
  OBVIOUS
<1>1. PICK j \in S : \A i \in S : j <= i
  BY <1>0, LeastNumber
<1>2. j # 0
  <2> SUFFICES \E f : f = [E \in Nearly(0) |-> InClosure(f, E)]
    BY <1>1
  <2>1. Nearly(0) = {}
    BY FurtherGrows DEF Nearly
  <2> DEFINE f == [E \in Nearly(0) |-> {}]
  <2>2. f = [E \in Nearly(0) |-> InClosure(f, E)]
    BY <2>1
  <2> QED
    BY <2>2
<1>3. j - 1 \in Nat /\ j - 1 \notin S /\ j \in Nat
  BY <1>1, <1>2
<1>4. PICK f : f = [E \in Nearly(j - 1) |-> InClosure(f, E)]
  BY <1>3
<1> DEFINE h == [E \in Nearly(j) |-> IF Missing(E) < j - 1 THEN f[E] ELSE InClosure(f, E)]
<1>5. \A E \in Nearly(j) : h[E] = InClosure(h, E)
  <2> SUFFICES ASSUME NEW E \in Nearly(j) PROVE h[E] = InClosure(h, E)
    OBVIOUS
  <2>1. E \in SUBSET Pairs /\ Missing(E) < j
    BY DEF Nearly
  <2>2. h[E] = InClosure(f, E)
    <3>1. Missing(E) < j - 1 => E \in Nearly(j - 1)
      BY <2>1 DEF Nearly
    <3>2. E \in Nearly(j - 1) => f[E] = InClosure(f, E)
      BY <1>4
    <3> QED
      BY <3>1, <3>2
  <2>3. Further(E) # E => h[Further(E)] = f[Further(E)]
    <3>1. ASSUME Further(E) # E PROVE Further(E) \in Nearly(j) /\ Missing(Further(E)) < j - 1
      <4>1. Further(E) \in SUBSET Pairs /\ Missing(Further(E)) < Missing(E) /\ Missing(E) \in Nat
        BY <2>1, <3>1, FurtherGrows
      <4>2. Missing(Further(E)) \in Nat
        BY <4>1, FurtherGrows
      <4> QED
        BY <1>3, <2>1, <4>1, <4>2 DEF Nearly
    <3> QED
      BY <3>1
  <2> HIDE DEF h
  <2> QED
    BY <2>2, <2>3 DEF InClosure
<1>6. h = [E \in Nearly(j) |-> InClosure(h, E)]
  <2>1. h = [E \in Nearly(j) |-> h[E]]
    OBVIOUS
  <2> HIDE DEF h
  <2> QED
    BY <1>5, <2>1
<1> QED
  BY <1>1, <1>6

LEMMA ClosureIs ==
  ASSUME Graph!DelayablesAssumption, NEW E \in SUBSET Pairs
  PROVE  Graph!Closure[E] = InClosure(Graph!Closure, E)
<1> DEFINE k == Cardinality(Pairs) + 1
<1>1. k \in Nat /\ Nearly(k) = SUBSET Pairs
  <2>1. IsFiniteSet(Pairs)
    BY FiniteNodes
  <2>2. Cardinality(Pairs) \in Nat
    BY <2>1, FS_CardinalityType
  <2>3. ASSUME NEW D \in SUBSET Pairs PROVE Missing(D) < k
    <3>1. Cardinality(D) \in Nat
      BY <2>1, FS_Subset, FS_CardinalityType
    <3> QED
      BY <2>2, <3>1 DEF Missing
  <2> QED
    BY <2>2, <2>3 DEF Nearly
<1> HIDE DEF k
<1>2. \E f : f = [D \in SUBSET Pairs |-> InClosure(f, D)]
  BY <1>1, ClosureBelow
<1>3. Graph!Closure = CHOOSE f : f = [D \in SUBSET Pairs |-> InClosure(f, D)]
  BY DEF Graph!Closure, InClosure, Further, Pairs
<1>4. Graph!Closure = [D \in SUBSET Pairs |-> InClosure(Graph!Closure, D)]
  BY <1>2, <1>3
<1> QED
  BY <1>4

LEMMA ClosureInduction ==
  ASSUME Graph!DelayablesAssumption, NEW S,
         \A E \in SUBSET Pairs : Further(E) = E \/ Further(E) \in S => E \in S
  PROVE  SUBSET Pairs \subseteq S
<1> DEFINE T == {k \in Nat : \E E \in (SUBSET Pairs) \ S : Missing(E) = k}
<1> SUFFICES ASSUME NEW D \in (SUBSET Pairs) \ S PROVE FALSE
  OBVIOUS
<1>1. \A E \in SUBSET Pairs : Missing(E) \in Nat
  BY FurtherGrows
<1>2. T \in SUBSET Nat /\ T # {}
  BY <1>1
<1>3. PICK k \in T : \A j \in T : k <= j
  BY <1>2, LeastNumber
<1>4. PICK E \in (SUBSET Pairs) \ S : Missing(E) = k
  BY <1>3
<1>5. Further(E) # E /\ Further(E) \notin S
  BY <1>4
<1>6. Further(E) \in (SUBSET Pairs) \ S /\ Missing(Further(E)) < k
  BY <1>4, <1>5, FurtherGrows
<1>7. Missing(Further(E)) \in T /\ Missing(Further(E)) \in Nat /\ k \in Nat
  BY <1>1, <1>6, <1>3
<1> QED
  BY <1>3, <1>6, <1>7

\* Closure gives the least order that contains the edges.
LEMMA ClosureLeast ==
  ASSUME Graph!DelayablesAssumption, NEW E \in SUBSET Pairs
  PROVE  /\ E \subseteq Graph!Closure[E] /\ Graph!Closure[E] \subseteq Pairs
         /\ Transitive(Graph!Closure[E])
         /\ \A D \in SUBSET Pairs : E \subseteq D /\ Transitive(D) => Graph!Closure[E] \subseteq D
<1> DEFINE S == {B \in SUBSET Pairs :
                  /\ B \subseteq Graph!Closure[B] /\ Graph!Closure[B] \subseteq Pairs
                  /\ Transitive(Graph!Closure[B])
                  /\ \A D \in SUBSET Pairs : B \subseteq D /\ Transitive(D) =>
                       Graph!Closure[B] \subseteq D}
<1>1. ASSUME NEW B \in SUBSET Pairs, Further(B) = B \/ Further(B) \in S
      PROVE  B \in S
  <2>1. CASE Further(B) = B
    <3>1. Graph!Closure[B] = B
      BY <2>1, ClosureIs DEF InClosure
    <3>2. Transitive(B)
      <4> SUFFICES ASSUME NEW l \in Leaf, NEW m \in Leaf, NEW n \in Leaf,
                          <<l, m>> \in B, <<m, n>> \in B
                   PROVE  <<l, n>> \in B
        BY DEF Transitive
      <4>1. <<m, n>> \in {g \in B : g[1] = <<l, m>>[2]}
        OBVIOUS
      <4>2. <<<<l, m>>[1], <<m, n>>[2]>> \in {<<<<l, m>>[1], f[2]>> : f \in {g \in B :
                g[1] = <<l, m>>[2]}}
        BY <4>1
      <4>3. <<<<l, m>>[1], <<m, n>>[2]>> \in Further(B)
        BY <4>2 DEF Further
      <4> QED
        BY <2>1, <4>3
    <3> QED
      BY <3>1, <3>2
  <2>2. CASE Further(B) # B
    <3>1. Graph!Closure[B] = Graph!Closure[Further(B)]
      BY <2>2, ClosureIs DEF InClosure
    <3>2. /\ Further(B) \subseteq Graph!Closure[Further(B)]
          /\ Graph!Closure[Further(B)] \subseteq Pairs /\ Transitive(Graph!Closure[Further(B)])
          /\ \A D \in SUBSET Pairs :
                Further(B) \subseteq D /\ Transitive(D) => Graph!Closure[Further(B)] \subseteq D
      BY <1>1, <2>2
    <3>3. ASSUME NEW D \in SUBSET Pairs, B \subseteq D, Transitive(D) PROVE Further(B) \subseteq D
      <4> SUFFICES ASSUME NEW e \in B, NEW g \in B, g[1] = e[2] PROVE <<e[1], g[2]>> \in D
        BY <3>3 DEF Further
      <4>1. e = <<e[1], e[2]>> /\ g = <<g[1], g[2]>> /\ {e[1], e[2], g[1], g[2]} \subseteq Leaf
        BY DEF Pairs
      <4>2. <<e[1], e[2]>> \in D /\ <<e[2], g[2]>> \in D
        BY <3>3, <4>1
      <4> QED
        BY <3>3, <4>1, <4>2 DEF Transitive
    <3>4. B \subseteq Further(B)
      BY FurtherGrows
    <3> HIDE DEF S
    <3>5. /\ B \subseteq Graph!Closure[B] /\ Graph!Closure[B] \subseteq Pairs
          /\ Transitive(Graph!Closure[B])
      BY <3>1, <3>2, <3>4
    <3>6. \A D \in SUBSET Pairs : B \subseteq D /\ Transitive(D) => Graph!Closure[B] \subseteq D
      BY <3>1, <3>2, <3>3
    <3> QED
      BY <3>5, <3>6 DEF S
  <2> QED
    BY <2>1, <2>2
<1> HIDE DEF S
<1>2. SUBSET Pairs \subseteq S
  BY <1>1, ClosureInduction
<1>3. E \in S
  BY <1>2
<1> QED
  BY <1>3 DEF S

LEMMA ClosureMonotone ==
  ASSUME Graph!DelayablesAssumption, NEW E \in SUBSET Pairs, NEW D \in SUBSET Pairs,
         E \subseteq Graph!Closure[D]
  PROVE  Graph!Closure[E] \subseteq Graph!Closure[D]
BY ClosureLeast

-----------------------------------------------------------------------------
\* The connected graph

Edges(n) == UNION {edges[m] : m \in Graph!Visited(n)}
Between(pairs) == UNION {Graph!Leaves[p[1]] \X Graph!Leaves[p[2]] : p \in pairs}
AskedAt(n) == UNION {declared[m] : m \in Graph!Visited(n)}

LEMMA BetweenTyped ==
  ASSUME Graph!DelayablesAssumption, Structure, NEW pairs \in SUBSET (Graph!Node \X Graph!Node)
  PROVE  Between(pairs) \in SUBSET Pairs
<1>1. \A p \in pairs : p[1] \in Graph!Node /\ p[2] \in Graph!Node
  OBVIOUS
<1>2. \A p \in pairs : Graph!Leaves[p[1]] \subseteq Leaf /\ Graph!Leaves[p[2]] \subseteq Leaf
  BY <1>1, LeavesTyped
<1>3. \A p \in pairs : Graph!Leaves[p[1]] \X Graph!Leaves[p[2]] \subseteq Leaf \X Leaf
  BY <1>2
<1> QED
  BY <1>3 DEF Between, Pairs

LEMMA EdgesVisited ==
  ASSUME Graph!DelayablesAssumption, Structure, NEW n \in Graph!Node, NEW m \in Graph!Visited(n),
         NEW e \in edges[m]
  PROVE  /\ m \in Graph!Node /\ e = <<e[1], e[2]>>
         /\ e[1] \in Graph!Visited(n) /\ e[2] \in Graph!Visited(n)
         /\ e[1] \in Graph!Node /\ e[2] \in Graph!Node
         /\ Graph!Ends[<<"tail", e[1]>>] \subseteq Graph!Leaves[e[1]]
         /\ Graph!Ends[<<"head", e[2]>>] \subseteq Graph!Leaves[e[2]]
         /\ Graph!Connected(e) \subseteq Graph!connect_graphs(n).edges
<1>1. /\ m \in Graph!Node /\ Graph!Visited(n) \subseteq Graph!Node
      /\ Graph!Vertices(m) \subseteq Graph!Visited(n)
  BY VisitedClosed
<1>2. e \in Graph!Node \X Graph!Node
  BY <1>1 DEF Structure
<1>3. e[1] \in Graph!Vertices(m) /\ e[2] \in Graph!Vertices(m)
  <2>1. e[1] \in Graph!Vertices(m)
    BY <1>1 DEF Structure, EdgesOK
  <2> QED
    BY <2>1 DEF Graph!Vertices
<1>4. /\ e[1] \in Graph!Visited(n) /\ e[2] \in Graph!Visited(n) /\ e[1] \in Graph!Node
      /\ e[2] \in Graph!Node
  BY <1>1, <1>3
<1>5. "tail" \in Sides /\ "head" \in Sides
  BY DEF Sides
<1>6. /\ Graph!Ends[<<"tail", e[1]>>] \subseteq Graph!Leaves[e[1]]
      /\ Graph!Ends[<<"head", e[2]>>] \subseteq Graph!Leaves[e[2]]
  BY <1>4, <1>5, EndsInside
<1>7. Graph!Connected(e) \subseteq Graph!connect_graphs(n).edges
  BY DEF Graph!connect_graphs
<1> QED
  BY <1>1, <1>2, <1>4, <1>6, <1>7

LEMMA LeavesVisited ==
  ASSUME Graph!DelayablesAssumption, Structure, NEW n \in Graph!Node
  PROVE  \A m \in Graph!Visited(n) : Graph!Leaves[m] \subseteq Graph!Visited(n)
<1> DEFINE S == {m \in Graph!Node :
                  m \in Graph!Visited(n) => Graph!Leaves[m] \subseteq Graph!Visited(n)}
<1>1. ASSUME NEW m \in Graph!Node, m \in Container => Graph!Elements(members[m]) \subseteq S
      PROVE  m \in S
  <2> SUFFICES ASSUME m \in Graph!Visited(n) PROVE Graph!Leaves[m] \subseteq Graph!Visited(n)
    OBVIOUS
  <2>1. CASE m \in Leaf
    BY <2>1, LeavesOf
  <2>2. CASE m \in Container
    <3>1. Graph!Elements(members[m]) \subseteq Graph!Vertices(m)
      BY <2>2 DEF Graph!Vertices, Graph!DelayablesAssumption
    <3>2. \A k \in Graph!Elements(members[m]) : k \in S /\ k \in Graph!Visited(n)
      BY <1>1, <2>2, <3>1, VisitedClosed
    <3>3. \A k \in Graph!Elements(members[m]) : Graph!Leaves[k] \subseteq Graph!Visited(n)
      BY <3>2
    <3> QED
      BY <2>2, <3>3, LeavesOf
  <2> QED
    BY <2>1, <2>2 DEF Graph!Node
<1> HIDE DEF S
<1>2. Graph!Node \subseteq S
  BY <1>1, NodeInduction
<1> QED
  BY <1>2, VisitedClosed DEF S

\* The graph has a vertex for each delayable in the visited nodes, and edges between those.
LEMMA GraphVertices ==
  ASSUME Graph!DelayablesAssumption, Structure, NEW n \in Graph!Node
  PROVE  /\ Graph!connect_graphs(n).vertices = UNION {Graph!Leaves[m] : m \in Graph!Visited(n)}
         /\ Graph!connect_graphs(n).vertices \subseteq Leaf
<1> DEFINE V == Graph!connect_graphs(n).vertices
           R == UNION {Graph!Leaves[m] : m \in Graph!Visited(n)}
<1>0. V = UNION {Graph!Ends[<<"tail", v>>] : v \in UNION {Graph!Vertices(m) :
          m \in Graph!Visited(n)}}
  BY DEF Graph!connect_graphs
<1>1. "tail" \in Sides /\ Graph!Visited(n) \subseteq Graph!Node
  BY VisitedClosed DEF Sides
<1>2. ASSUME NEW l \in V PROVE l \in R
  <2>0. PICK m \in Graph!Visited(n) : \E v \in Graph!Vertices(m) : l \in Graph!Ends[<<"tail", v>>]
    BY <1>0
  <2>1. PICK v \in Graph!Vertices(m) : l \in Graph!Ends[<<"tail", v>>]
    BY <2>0
  <2>2. v \in Graph!Visited(n) /\ v \in Graph!Node
    BY <1>1, VisitedClosed
  <2>3. l \in Graph!Leaves[v]
    BY <1>1, <2>1, <2>2, EndsInside
  <2> QED
    BY <2>2, <2>3
<1>3. ASSUME NEW l \in R PROVE l \in V
  <2>1. PICK m \in Graph!Visited(n) : l \in Graph!Leaves[m]
    OBVIOUS
  <2>2. l \in Graph!Visited(n) /\ l \in Leaf
    BY <1>1, <2>1, LeavesVisited, LeavesTyped
  <2>3. l \in Graph!Vertices(l) /\ Graph!Ends[<<"tail", l>>] = {l}
    BY <1>1, <2>2, EndsOf DEF Graph!Vertices
  <2> QED
    BY <1>0, <2>2, <2>3
<1>4. R \subseteq Leaf
  BY <1>1, LeavesTyped
<1> HIDE DEF V, R
<1>5. V = R
  BY <1>2, <1>3
<1> QED
  BY <1>4, <1>5 DEF V, R

LEMMA GraphEdges ==
  ASSUME Graph!DelayablesAssumption, Structure, NEW n \in Graph!Node
  PROVE  LET G == Graph!connect_graphs(n)
         IN  /\ G.edges \subseteq G.vertices \X G.vertices /\ G.edges \in SUBSET Pairs
             /\ G.edges \subseteq Between(AskedAt(n)) /\ Between(AskedAt(n)) \in SUBSET Pairs
<1> DEFINE G == Graph!connect_graphs(n)
<1>1. AskedAt(n) \in SUBSET (Graph!Node \X Graph!Node)
  <2>1. \A m \in Graph!Visited(n) : declared[m] \subseteq Graph!Node \X Graph!Node
    BY VisitedClosed DEF Structure
  <2> QED
    BY <2>1 DEF AskedAt
<1>2. Between(AskedAt(n)) \in SUBSET Pairs
  BY <1>1, BetweenTyped
<1>3. ASSUME NEW g \in G.edges
      PROVE  g \in G.vertices \X G.vertices /\ g \in Between(AskedAt(n))
  <2>0. PICK m \in Graph!Visited(n) : \E e \in edges[m] : g \in Graph!Connected(e)
    BY DEF Graph!connect_graphs
  <2>1. PICK e \in edges[m] : g \in Graph!Connected(e)
    BY <2>0
  <2>2. /\ m \in Graph!Node /\ e[1] \in Graph!Visited(n) /\ e[2] \in Graph!Visited(n)
        /\ Graph!Ends[<<"tail", e[1]>>] \subseteq Graph!Leaves[e[1]]
        /\ Graph!Ends[<<"head", e[2]>>] \subseteq Graph!Leaves[e[2]]
    BY EdgesVisited
  <2>3. g \in Graph!Leaves[e[1]] \X Graph!Leaves[e[2]]
    BY <2>1, <2>2 DEF Graph!Connected
  <2>4. Graph!Leaves[e[1]] \subseteq G.vertices /\ Graph!Leaves[e[2]] \subseteq G.vertices
    BY <2>2, GraphVertices
  <2>5. PICK p \in declared[m] : From(e, p)
    BY <2>2 DEF Structure, EdgesOK
  <2>6. Graph!Leaves[e[1]] \subseteq Graph!Leaves[p[1]]
    <3>1. CASE e[1] = p[1]
      BY <3>1
    <3>2. CASE p[1] \in Container /\ e[1] \in Graph!Elements(members[p[1]])
      BY <3>2, LeavesOf
    <3> QED
      BY <2>5, <3>1, <3>2 DEF From
  <2>7. e[2] = p[2] /\ p \in AskedAt(n)
    BY <2>5 DEF From, AskedAt
  <2>8. g \in Graph!Leaves[p[1]] \X Graph!Leaves[p[2]]
    BY <2>3, <2>6, <2>7
  <2> QED
    BY <2>3, <2>4, <2>7, <2>8 DEF Between
<1>4. G.vertices \subseteq Leaf
  BY GraphVertices
<1> HIDE DEF G
<1>5. G.edges \subseteq G.vertices \X G.vertices /\ G.edges \subseteq Between(AskedAt(n))
  BY <1>3
<1>6. G.edges \in SUBSET Pairs
  BY <1>2, <1>5
<1> QED
  BY <1>2, <1>5, <1>6 DEF G
-----------------------------------------------------------------------------
\* What is asked for is in the order of the graph

NoNested(n) ==
    \A g \in Graph!Visited(n) \cap Container : kind[g] = "chain" =>
      \A i \in {1, Len(members[g])} :
        Graph!Ends[<<"head", members[g][i]>>] = Graph!Ends[<<"tail", members[g][i]>>]

Order(n) == Graph!Closure[Graph!connect_graphs(n).edges]
AtOrAfter(O, h, l) == h = l \/ <<h, l>> \in O
HeadsFirst(O, m) == \A l \in Graph!Leaves[m] : \E h \in Graph!Ends[<<"head", m>>] :
  AtOrAfter(O, h, l)
TailsLast(O, m) == \A l \in Graph!Leaves[m] : \E t \in Graph!Ends[<<"tail", m>>] :
  AtOrAfter(O, l, t)

LEMMA OrderOK ==
  ASSUME Graph!DelayablesAssumption, Structure, NEW n \in Graph!Node
  PROVE  /\ Graph!connect_graphs(n).edges \subseteq Order(n) /\ Order(n) \subseteq Pairs
         /\ Transitive(Order(n))
BY GraphEdges, ClosureLeast DEF Order

LEMMA After ==
  ASSUME NEW O \in SUBSET Pairs, Transitive(O), NEW l \in Leaf, NEW m \in Leaf, NEW h, NEW t,
         AtOrAfter(O, h, l), <<l, m>> \in O, AtOrAfter(O, m, t)
  PROVE  <<h, t>> \in O
<1>1. (h # l => h \in Leaf) /\ (m # t => t \in Leaf)
  BY DEF AtOrAfter, Pairs
<1>2. <<h, m>> \in O /\ h \in Leaf
  BY <1>1 DEF AtOrAfter, Transitive
<1> QED
  BY <1>1, <1>2 DEF AtOrAfter, Transitive

LEMMA ChainLinks ==
  ASSUME Graph!DelayablesAssumption, Structure, NEW n \in Graph!Created, NEW m \in Graph!Visited(n),
         m \in Container, kind[m] = "chain"
  PROVE  /\ members[m] \in Seq(Graph!Node) /\ Len(members[m]) \in Nat \ {0}
         /\ \A i \in 1 .. Len(members[m]) :
              /\ members[m][i] \in Graph!Visited(n) \cap Graph!Created
              /\ members[m][i] \in Graph!Node
              /\ members[m][i] \in Graph!Elements(members[m])
         /\ \A i \in 1 .. Len(members[m]) - 1 :
              Graph!Ends[<<"tail", members[m][i]>>] \X Graph!Ends[<<"head", members[m][i + 1]>>]
                \subseteq Order(n)
<1>0. n \in Graph!Node
  BY DEF Graph!Created, Graph!Node
<1>1. members[m] \in Seq(Graph!Node) /\ members[m] # <<>>
  BY DEF Structure, ContainerOK
<1>2. Len(members[m]) \in Nat \ {0} /\ DOMAIN members[m] = 1 .. Len(members[m])
  BY <1>1, LenProperties, EmptySeq
<1>3. /\ Graph!Elements(members[m]) \subseteq Graph!Created
      /\ Graph!Elements(members[m]) \subseteq Graph!Vertices(m)
  BY DEF Structure, ContainerOK, Graph!Vertices, Graph!DelayablesAssumption
<1>4. Graph!Vertices(m) \subseteq Graph!Visited(n) /\ Graph!Visited(n) \subseteq Graph!Node
  BY <1>0, VisitedClosed
<1>5. \A i \in 1 .. Len(members[m]) : members[m][i] \in Graph!Elements(members[m])
  BY <1>2 DEF Graph!Elements
<1>6. ASSUME NEW i \in 1 .. Len(members[m]) - 1
      PROVE  Graph!Ends[<<"tail", members[m][i]>>] \X Graph!Ends[<<"head", members[m][i + 1]>>]
               \subseteq Order(n)
  <2> DEFINE e == <<members[m][i], members[m][i + 1]>>
  <2>1. e \in edges[m]
    BY DEF Structure, ContainerOK
  <2>2. Graph!Connected(e) \subseteq Graph!connect_graphs(n).edges
    BY <1>0, <2>1, EdgesVisited
  <2>3. Graph!Connected(e) \subseteq Order(n)
    BY <1>0, <2>2, OrderOK
  <2> QED
    BY <2>3 DEF Graph!Connected
<1> QED
  BY <1>1, <1>2, <1>3, <1>4, <1>5, <1>6

\* Along a chain, the heads of its first member come first.
LEMMA ChainHeads ==
  ASSUME Graph!DelayablesAssumption, Structure, NEW n \in Graph!Created, NEW m \in Graph!Visited(n),
         m \in Container, kind[m] = "chain",
         \A k \in Graph!Elements(members[m]) : HeadsFirst(Order(n), k)
  PROVE  \A i \in 1 .. Len(members[m]) : \A l \in Graph!Leaves[members[m][i]] :
            \E h \in Graph!Ends[<<"head", members[m][1]>>] : AtOrAfter(Order(n), h, l)
<1> DEFINE s == members[m]
           O == Order(n)
           Good(i) == \A l \in Graph!Leaves[s[i]] : \E h \in Graph!Ends[<<"head", s[1]>>] :
             AtOrAfter(O, h, l)
           S == {i \in Nat : i \in 1 .. Len(s) /\ ~Good(i)}
<1>0. n \in Graph!Node
  BY DEF Graph!Created, Graph!Node
<1>1. /\ Len(s) \in Nat \ {0} /\ \A i \in 1 .. Len(s) :
           s[i] \in Graph!Visited(n) \cap Graph!Created /\ s[i] \in Graph!Node
      /\ \A i \in 1 .. Len(s) : s[i] \in Graph!Elements(s)
      /\ \A i \in 1 .. Len(s) - 1 :
           Graph!Ends[<<"tail", s[i]>>] \X Graph!Ends[<<"head", s[i + 1]>>] \subseteq O
  BY ChainLinks
<1>2. O \in SUBSET Pairs /\ Transitive(O)
  BY <1>0, OrderOK
<1> SUFFICES ASSUME S # {} PROVE FALSE
  OBVIOUS
<1>3. S \in SUBSET Nat
  OBVIOUS
<1>4. PICK i \in S : \A j \in S : i <= j
  BY <1>3, LeastNumber
<1>5. i \in 1 .. Len(s) /\ ~Good(i)
  BY <1>4
<1>6. HeadsFirst(O, s[i])
  BY <1>1, <1>5
<1>7. i # 1
  BY <1>5, <1>6 DEF HeadsFirst
<1> DEFINE j == i - 1
<1>8. j \in 1 .. Len(s) - 1 /\ j \in Nat /\ j < i /\ j + 1 = i /\ j \in 1 .. Len(s)
  BY <1>1, <1>5, <1>7
<1> HIDE DEF Good, j
<1>9. Good(j)
  BY <1>4, <1>8
<1>10. PICK t \in Graph!Ends[<<"tail", s[j]>>] : TRUE
  <2>1. s[j] \in Graph!Created /\ "tail" \in Sides
    BY <1>1, <1>8 DEF Sides
  <2> QED
    BY <2>1, EndsExist
<1>11. t \in Graph!Leaves[s[j]] /\ t \in Leaf
  <2>1. s[j] \in Graph!Node /\ "tail" \in Sides
    BY <1>1, <1>8 DEF Sides
  <2> QED
    BY <1>10, <2>1, EndsInside, LeavesTyped
<1>12. PICK h \in Graph!Ends[<<"head", s[1]>>] : AtOrAfter(O, h, t)
  BY <1>9, <1>11 DEF Good
<1>13. Good(i)
  <2> SUFFICES ASSUME NEW l \in Graph!Leaves[s[i]] PROVE AtOrAfter(O, h, l)
    BY <1>12 DEF Good
  <2>1. PICK g \in Graph!Ends[<<"head", s[i]>>] : AtOrAfter(O, g, l)
    BY <1>6 DEF HeadsFirst
  <2>2. <<t, g>> \in O
    BY <1>1, <1>8, <1>10, <2>1
  <2>3. g \in Leaf
    BY <1>2, <2>2 DEF Pairs
  <2>4. <<h, l>> \in O
    BY <1>2, <1>11, <1>12, <2>1, <2>2, <2>3, After
  <2> QED
    BY <2>4 DEF AtOrAfter
<1> QED
  BY <1>5, <1>13

\* And the tails of its last member come last.
LEMMA ChainTails ==
  ASSUME Graph!DelayablesAssumption, Structure, NEW n \in Graph!Created, NEW m \in Graph!Visited(n),
         m \in Container, kind[m] = "chain",
         \A k \in Graph!Elements(members[m]) : TailsLast(Order(n), k)
  PROVE  \A i \in 1 .. Len(members[m]) : \A l \in Graph!Leaves[members[m][i]] :
            \E t \in Graph!Ends[<<"tail", members[m][Len(members[m])]>>] : AtOrAfter(Order(n), l, t)
<1> DEFINE s == members[m]
           O == Order(n)
           L == Len(s)
           Good(i) == \A l \in Graph!Leaves[s[i]] : \E t \in Graph!Ends[<<"tail", s[L]>>] :
             AtOrAfter(O, l, t)
           S == {k \in Nat : k < L /\ ~Good(L - k)}
<1>0. n \in Graph!Node
  BY DEF Graph!Created, Graph!Node
<1>1. /\ L \in Nat \ {0} /\ \A i \in 1 .. L :
           s[i] \in Graph!Visited(n) \cap Graph!Created /\ s[i] \in Graph!Node
      /\ \A i \in 1 .. L : s[i] \in Graph!Elements(s)
      /\ \A i \in 1 .. L - 1 :
           Graph!Ends[<<"tail", s[i]>>] \X Graph!Ends[<<"head", s[i + 1]>>] \subseteq O
  BY ChainLinks
<1>2. O \in SUBSET Pairs /\ Transitive(O)
  BY <1>0, OrderOK
<1> SUFFICES ASSUME S # {} PROVE FALSE
  <2> SUFFICES ASSUME NEW i \in 1 .. L, S = {} PROVE Good(i)
    OBVIOUS
  <2>1. L - i \in Nat /\ L - i < L /\ L - (L - i) = i
    BY <1>1
  <2> HIDE DEF Good
  <2> QED
    BY <2>1
<1>3. S \in SUBSET Nat
  OBVIOUS
<1>4. PICK k \in S : \A j \in S : k <= j
  BY <1>3, LeastNumber
<1> DEFINE i == L - k
<1>5. i \in 1 .. L /\ ~Good(i) /\ k \in Nat /\ k < L
  <2> HIDE DEF Good
  <2>1. k \in Nat /\ k < L /\ ~Good(L - k)
    BY <1>4
  <2> QED
    BY <1>1, <2>1
<1>6. TailsLast(O, s[i])
  BY <1>1, <1>5
<1>7. k # 0
  <2> SUFFICES ASSUME k = 0 PROVE Good(i)
    BY <1>5
  <2>1. i = L
    BY <1>1
  <2> QED
    BY <1>6, <2>1 DEF TailsLast
<1> DEFINE j == i + 1
<1>8. j \in 1 .. L /\ i \in 1 .. L - 1 /\ L - (k - 1) = j /\ k - 1 \in Nat /\ k - 1 < L /\ k - 1 < k
  BY <1>1, <1>5, <1>7
<1>9. Good(j)
  <2> HIDE DEF Good, j, i
  <2>1. k - 1 \notin S
    BY <1>4, <1>5, <1>8
  <2> QED
    BY <1>8, <2>1
<1> HIDE DEF Good, i
<1>10. PICK h \in Graph!Ends[<<"head", s[j]>>] : TRUE
  <2>1. s[j] \in Graph!Created /\ "head" \in Sides
    BY <1>1, <1>8 DEF Sides
  <2> QED
    BY <2>1, EndsExist
<1>11. h \in Graph!Leaves[s[j]] /\ h \in Leaf
  <2>1. s[j] \in Graph!Node /\ "head" \in Sides
    BY <1>1, <1>8 DEF Sides
  <2> QED
    BY <1>10, <2>1, EndsInside, LeavesTyped
<1>12. PICK t \in Graph!Ends[<<"tail", s[L]>>] : AtOrAfter(O, h, t)
  BY <1>9, <1>11 DEF Good
<1>13. Good(i)
  <2> SUFFICES ASSUME NEW l \in Graph!Leaves[s[i]] PROVE AtOrAfter(O, l, t)
    BY <1>12 DEF Good
  <2>1. PICK g \in Graph!Ends[<<"tail", s[i]>>] : AtOrAfter(O, l, g)
    BY <1>6 DEF TailsLast
  <2>2. <<g, h>> \in O
    BY <1>1, <1>8, <1>10, <2>1
  <2>3. g \in Leaf
    BY <1>2, <2>2 DEF Pairs
  <2>4. <<l, t>> \in O
    BY <1>2, <1>11, <1>12, <2>1, <2>2, <2>3, After
  <2> QED
    BY <2>4 DEF AtOrAfter
<1> QED
  BY <1>5, <1>13

LEMMA EndsOrder ==
  ASSUME Graph!DelayablesAssumption, Structure, NEW n \in Graph!Created, NoNested(n)
  PROVE  \A m \in Graph!Visited(n) : HeadsFirst(Order(n), m) /\ TailsLast(Order(n), m)
<1> DEFINE O == Order(n)
           S == {m \in Graph!Node : m \in Graph!Visited(n) => HeadsFirst(O, m) /\ TailsLast(O, m)}
<1>0. n \in Graph!Node /\ "head" \in Sides /\ "tail" \in Sides
  BY DEF Graph!Created, Graph!Node, Sides
<1>1. ASSUME NEW m \in Graph!Node, m \in Container => Graph!Elements(members[m]) \subseteq S
      PROVE  m \in S
  <2> SUFFICES ASSUME m \in Graph!Visited(n) PROVE HeadsFirst(O, m) /\ TailsLast(O, m)
    OBVIOUS
  <2>1. CASE m \in Leaf
    <3>1. /\ Graph!Leaves[m] = {m} /\ Graph!Ends[<<"head", m>>] = {m}
          /\ Graph!Ends[<<"tail", m>>] = {m}
      BY <1>0, <2>1, LeavesOf, EndsOf
    <3> QED
      BY <3>1 DEF HeadsFirst, TailsLast, AtOrAfter
  <2>2. CASE m \in Container
    <3>1. Graph!Elements(members[m]) \subseteq Graph!Vertices(m)
      BY <2>2 DEF Graph!Vertices, Graph!DelayablesAssumption
    <3>2. \A k \in Graph!Elements(members[m]) : HeadsFirst(O, k) /\ TailsLast(O, k)
      BY <1>0, <1>1, <2>2, <3>1, VisitedClosed
    <3>3. Graph!Leaves[m] = UNION {Graph!Leaves[k] : k \in Graph!Elements(members[m])}
      BY <2>2, LeavesOf
    <3>4. CASE kind[m] # "chain"
      <4>1. /\ Graph!Ends[<<"head", m>>]
                 = UNION {Graph!Ends[<<"head", k>>] : k \in Graph!Elements(members[m])}
            /\ Graph!Ends[<<"tail", m>>]
                 = UNION {Graph!Ends[<<"tail", k>>] : k \in Graph!Elements(members[m])}
        BY <1>0, <2>2, <3>4, EndsOf
      <4>2. ASSUME NEW l \in Graph!Leaves[m] PROVE \E h \in Graph!Ends[<<"head",
                   m>>] : AtOrAfter(O, h, l)
        <5>1. PICK k \in Graph!Elements(members[m]) : l \in Graph!Leaves[k]
          BY <3>3
        <5>2. PICK h \in Graph!Ends[<<"head", k>>] : AtOrAfter(O, h, l)
          BY <3>2, <5>1 DEF HeadsFirst
        <5> QED
          BY <4>1, <5>2
      <4>3. ASSUME NEW l \in Graph!Leaves[m] PROVE \E t \in Graph!Ends[<<"tail",
                   m>>] : AtOrAfter(O, l, t)
        <5>1. PICK k \in Graph!Elements(members[m]) : l \in Graph!Leaves[k]
          BY <3>3
        <5>2. PICK t \in Graph!Ends[<<"tail", k>>] : AtOrAfter(O, l, t)
          BY <3>2, <5>1 DEF TailsLast
        <5> QED
          BY <4>1, <5>2
      <4> QED
        BY <4>2, <4>3 DEF HeadsFirst, TailsLast
    <3>5. CASE kind[m] = "chain"
      <4> DEFINE s == members[m]
      <4>1. /\ Graph!Ends[<<"head", m>>]
                 = Graph!Ends[<<Graph!Opposite("head"), EndMember("head", m)>>]
            /\ Graph!Ends[<<"tail", m>>]
                 = Graph!Ends[<<Graph!Opposite("tail"), EndMember("tail", m)>>]
        BY <1>0, <2>2, <3>5, EndsOf
      <4>2. /\ Graph!Ends[<<"head", m>>] = Graph!Ends[<<"tail", s[1]>>]
            /\ Graph!Ends[<<"tail", m>>] = Graph!Ends[<<"head", s[Len(s)]>>]
        BY <4>1 DEF Graph!Opposite, EndMember
      <4>3. /\ Graph!Ends[<<"head", s[1]>>] = Graph!Ends[<<"tail", s[1]>>]
            /\ Graph!Ends[<<"head", s[Len(s)]>>] = Graph!Ends[<<"tail", s[Len(s)]>>]
        BY <2>2, <3>5 DEF NoNested
      <4>4. \A i \in 1 .. Len(s) : \A l \in Graph!Leaves[s[i]] :
               /\ \E h \in Graph!Ends[<<"head", m>>] : AtOrAfter(O, h, l)
               /\ \E t \in Graph!Ends[<<"tail", m>>] : AtOrAfter(O, l, t)
        <5>1. \A i \in 1 .. Len(s) : \A l \in Graph!Leaves[s[i]] :
                \E h \in Graph!Ends[<<"head", s[1]>>] : AtOrAfter(O, h, l)
          BY <2>2, <3>2, <3>5, ChainHeads
        <5>2. \A i \in 1 .. Len(s) : \A l \in Graph!Leaves[s[i]] :
                \E t \in Graph!Ends[<<"tail", s[Len(s)]>>] : AtOrAfter(O, l, t)
          BY <2>2, <3>2, <3>5, ChainTails
        <5> QED
          BY <4>2, <4>3, <5>1, <5>2
      <4>5. Graph!Elements(s) = {s[i] : i \in 1 .. Len(s)}
        BY <2>2 DEF Graph!Elements, Structure
      <4>6. \A l \in Graph!Leaves[m] : \E i \in 1 .. Len(s) : l \in Graph!Leaves[s[i]]
        BY <3>3, <4>5
      <4> QED
        BY <4>4, <4>6 DEF HeadsFirst, TailsLast
    <3> QED
      BY <3>4, <3>5
  <2> QED
    BY <2>1, <2>2 DEF Graph!Node
<1> HIDE DEF S
<1>2. Graph!Node \subseteq S
  BY <1>1, NodeInduction
<1> QED
  BY <1>0, <1>2, VisitedClosed DEF S

LEMMA AskedInOrder ==
  ASSUME Graph!DelayablesAssumption, Structure, NEW n \in Graph!Created, NoNested(n)
  PROVE  Between(AskedAt(n)) \subseteq Order(n)
<1> DEFINE O == Order(n)
<1>0. n \in Graph!Node /\ "head" \in Sides /\ "tail" \in Sides
  BY DEF Graph!Created, Graph!Node, Sides
<1>1. O \in SUBSET Pairs /\ Transitive(O) /\ Graph!Visited(n) \subseteq Graph!Node
  BY <1>0, OrderOK, VisitedClosed
<1> SUFFICES ASSUME NEW m \in Graph!Visited(n), NEW p \in declared[m],
                    NEW l \in Graph!Leaves[p[1]], NEW k \in Graph!Leaves[p[2]]
             PROVE  <<l, k>> \in O
  BY DEF Between, AskedAt
<1>2. m \in Graph!Node /\ EdgesOK(m)
  BY <1>1 DEF Structure
<1>3. m \in Graph!Created /\ p \in Graph!Node \X Graph!Node
  BY <1>2 DEF EdgesOK, Structure
<1>4. \E g : <<g, p[2]>> \in edges[m] /\ \E t \in Graph!Ends[<<"tail", g>>] : AtOrAfter(O, l, t)
  <2>1. CASE p \in edges[m]
    <3>1. p = <<p[1], p[2]>> /\ p[1] \in Graph!Visited(n)
      BY <1>0, <2>1, EdgesVisited
    <3>2. TailsLast(O, p[1])
      BY <3>1, EndsOrder
    <3> QED
      BY <2>1, <3>1, <3>2 DEF TailsLast
  <2>2. CASE p[1] = m /\ Graph!OnDoneEdges(m, p[2]) \subseteq edges[m]
    <3>1. CASE m \in Leaf
      <4>1. <<m, p[2]>> \in edges[m]
        BY <2>2, <3>1 DEF Graph!OnDoneEdges, Graph!DelayablesAssumption
      <4> QED
        BY <2>2, <4>1, EndsOrder DEF TailsLast
    <3>2. CASE m \in Container /\ kind[m] = "chain"
      <4> DEFINE g == members[m][Len(members[m])]
      <4>1. <<g, p[2]>> \in edges[m]
        BY <2>2, <3>2 DEF Graph!OnDoneEdges, Graph!DelayablesAssumption
      <4>2. Graph!Ends[<<"tail", m>>] = Graph!Ends[<<Graph!Opposite("tail"), EndMember("tail", m)>>]
        BY <1>0, <3>2, EndsOf
      <4>3. Graph!Ends[<<"tail", m>>] = Graph!Ends[<<"head", g>>]
        BY <4>2 DEF Graph!Opposite, EndMember
      <4>4. Graph!Ends[<<"head", g>>] = Graph!Ends[<<"tail", g>>]
        BY <3>2 DEF NoNested
      <4> QED
        BY <2>2, <4>1, <4>3, <4>4, EndsOrder DEF TailsLast
    <3>3. CASE m \in Container /\ kind[m] # "chain"
      <4>1. Graph!Leaves[m] = UNION {Graph!Leaves[g] : g \in Graph!Elements(members[m])}
        BY <3>3, LeavesOf
      <4>2. PICK g \in Graph!Elements(members[m]) : l \in Graph!Leaves[g]
        BY <2>2, <4>1
      <4>3. Graph!OnDoneEdges(m, p[2]) = Graph!Elements(members[m]) \X {p[2]}
        BY <3>3 DEF Graph!OnDoneEdges, Graph!DelayablesAssumption
      <4>4. <<g, p[2]>> \in edges[m]
        BY <2>2, <4>2, <4>3
      <4>5. g \in Graph!Visited(n)
        BY <1>0, <3>3, <4>2, VisitedClosed DEF Graph!Vertices, Graph!DelayablesAssumption
      <4> QED
        BY <4>2, <4>4, <4>5, EndsOrder DEF TailsLast
    <3> QED
      BY <1>2, <3>1, <3>2, <3>3 DEF Graph!Node
  <2> QED
    BY <1>2, <2>1, <2>2 DEF EdgesOK
<1>5. PICK g : <<g, p[2]>> \in edges[m] /\ \E t \in Graph!Ends[<<"tail", g>>] : AtOrAfter(O, l, t)
  BY <1>4
<1>6. PICK t \in Graph!Ends[<<"tail", g>>] : AtOrAfter(O, l, t)
  BY <1>5
<1> DEFINE e == <<g, p[2]>>
<1>7. e \in edges[m] /\ e[1] = g /\ e[2] = p[2]
  BY <1>5
<1> HIDE DEF e
<1>8. e[2] \in Graph!Visited(n) /\ Graph!Connected(e) \subseteq Graph!connect_graphs(n).edges
  BY <1>0, <1>7, EdgesVisited
<1>9. PICK h \in Graph!Ends[<<"head", p[2]>>] : AtOrAfter(O, h, k)
  BY <1>7, <1>8, EndsOrder DEF HeadsFirst
<1>10. <<t, h>> \in O
  <2>1. <<t, h>> \in Graph!Connected(e)
    BY <1>6, <1>7, <1>9 DEF Graph!Connected
  <2> QED
    BY <1>0, <1>8, <2>1, OrderOK
<1>11. t \in Leaf /\ h \in Leaf
  BY <1>1, <1>10 DEF Pairs
<1> HIDE DEF O
<1> QED
  BY <1>1, <1>6, <1>9, <1>10, <1>11, After

Delayed == phase # "build" => \E n \in Graph!Created : root = {n} /\ built = Graph!connect_graphs(n)

LEMMA DelayedIntended ==
  ASSUME Graph!DelayablesAssumption, Structure, Delayed
  PROVE  Graph!GraphIsIntended
<1> SUFFICES ASSUME phase # "build"
             PROVE  /\ built.vertices = Graph!Reached
                    /\ Graph!Closure[built.edges] \subseteq Graph!Asked
                    /\ Graph!Closure[built.edges] = Graph!Asked \/ Graph!NestedEnds
  BY DEF Graph!GraphIsIntended
<1>1. PICK n \in Graph!Created : root = {n} /\ built = Graph!connect_graphs(n)
  BY DEF Delayed
<1>2. n \in Graph!Node
  BY DEF Graph!Created, Graph!Node
<1>3. UNION {Graph!Visited(m) : m \in root} = Graph!Visited(n)
  BY <1>1
<1>4. UNION {UNION {declared[m] : m \in Graph!Visited(r)} : r \in root} = AskedAt(n)
  BY <1>1 DEF AskedAt
<1>5. Graph!Asked = Graph!Closure[Between(AskedAt(n))]
  BY <1>4 DEF Graph!Asked, Graph!Intended, Between
<1>6. built.vertices = Graph!Reached
  BY <1>1, <1>2, <1>3, GraphVertices DEF Graph!Reached
<1>7. /\ built.edges \in SUBSET Pairs /\ Between(AskedAt(n)) \in SUBSET Pairs
      /\ built.edges \subseteq Between(AskedAt(n)) /\ Graph!Closure[built.edges] = Order(n)
  BY <1>1, <1>2, GraphEdges DEF Order
<1>8. Between(AskedAt(n)) \subseteq Graph!Closure[Between(AskedAt(n))]
  BY <1>7, ClosureLeast
<1>9. Graph!Closure[built.edges] \subseteq Graph!Asked
  BY <1>5, <1>7, <1>8, ClosureMonotone
<1>10. ASSUME ~Graph!NestedEnds PROVE Graph!Asked \subseteq Graph!Closure[built.edges]
  <2>1. NoNested(n)
    BY <1>3, <1>10 DEF Graph!NestedEnds, NoNested
  <2>2. Between(AskedAt(n)) \subseteq Graph!Closure[built.edges]
    BY <1>7, <2>1, AskedInOrder
  <2> QED
    BY <1>5, <1>7, <2>2, ClosureMonotone
<1> QED
  BY <1>6, <1>9, <1>10

-----------------------------------------------------------------------------
\* Nodes are created once

LEMMA ArgumentsAre ==
  ASSUME Graph!DelayablesAssumption, NEW args \in Graph!Arguments
  PROVE  /\ args \in Seq(Graph!Node) /\ Len(args) \in Nat \ {0} /\ DOMAIN args = 1 .. Len(args)
         /\ args # <<>> /\ Graph!Elements(args) \subseteq Graph!Created
         /\ \A i \in 1 .. Len(args) : args[i] \in Graph!Created /\ args[i] \in Graph!Elements(args)
<1>1. PICK k \in 1 .. MaxMembers : args \in [1 .. k -> Graph!Created]
  BY DEF Graph!Arguments
<1>2. MaxMembers \in Nat /\ Graph!Created \subseteq Graph!Node
  BY DEF Graph!DelayablesAssumption, Graph!Created, Graph!Node
<1>3. k \in Nat /\ k # 0
  BY <1>2
<1>4. args \in [1 .. k -> Graph!Node]
  BY <1>1, <1>2
<1>5. args \in Seq(Graph!Node)
  BY <1>3, <1>4, SeqDef
<1>6. DOMAIN args = 1 .. k /\ Len(args) = k
  BY <1>1, <1>3, <1>5, LenProperties
<1>7. args # <<>>
  BY <1>3, <1>6, <1>5, EmptySeq
<1>8. \A i \in 1 .. k : args[i] \in Graph!Created
  BY <1>1
<1> QED
  BY <1>3, <1>5, <1>6, <1>7, <1>8 DEF Graph!Elements

Links(k, args) == IF k = "chain" THEN {<<args[i], args[i + 1]>> : i \in 1 .. Len(args) - 1} ELSE {}

LEMMA LinksAre ==
  ASSUME Graph!DelayablesAssumption, NEW args \in Graph!Arguments, NEW k
  PROVE  /\ Links(k, args) \subseteq Graph!Elements(args) \X Graph!Elements(args)
         /\ Links(k, args) \subseteq Graph!Created \X Graph!Created
<1>1. ASSUME NEW i \in 1 .. Len(args) - 1 PROVE {args[i],
             args[i + 1]} \subseteq Graph!Elements(args)
  <2>1. i \in 1 .. Len(args) /\ i + 1 \in 1 .. Len(args)
    BY ArgumentsAre
  <2> QED
    BY <2>1, ArgumentsAre
<1>2. Graph!Elements(args) \subseteq Graph!Created
  BY ArgumentsAre
<1> QED
  BY <1>1, <1>2 DEF Links

\* A new container, of nodes that exist.
Creates(g, k, args) ==
    /\ kind[g] = "none" /\ kind' = [kind EXCEPT ![g] = k]
    /\ members' = [members EXCEPT ![g] = args]
    /\ edges' = [edges EXCEPT ![g] = Links(k, args)]
    /\ declared' = [declared EXCEPT ![g] = Links(k, args)]

LEMMA NewContainer ==
  ASSUME Graph!DelayablesAssumption, Structure, NEW g \in Container, NEW k \in {"chain", "group"},
         NEW args \in Graph!Arguments, Creates(g, k, args)
  PROVE  /\ g \in Graph!Node /\ g \notin Leaf /\ g \notin Graph!Created
         /\ Graph!Created' = Graph!Created \cup {g}
         /\ kind'[g] = k /\ members'[g] = args /\ edges'[g] = Links(k, args)
         /\ declared'[g] = Links(k, args)
         /\ \A n \in Container \ {g} : kind'[n] = kind[n] /\ members'[n] = members[n]
         /\ \A n \in Graph!Node \ {g} : edges'[n] = edges[n] /\ declared'[n] = declared[n]
<1>1. g \in Graph!Node /\ g \notin Leaf /\ g \notin Graph!Created
  BY DEF Graph!Node, Graph!DelayablesAssumption, Graph!Created, Creates
<1>2. /\ kind'[g] = k /\ members'[g] = args /\ edges'[g] = Links(k, args)
      /\ declared'[g] = Links(k, args)
      /\ \A n \in Container \ {g} : kind'[n] = kind[n] /\ members'[n] = members[n]
      /\ \A n \in Graph!Node \ {g} : edges'[n] = edges[n] /\ declared'[n] = declared[n]
  BY <1>1 DEF Structure, Creates
<1>3. Graph!Created' = Graph!Created \cup {g}
  BY <1>2 DEF Graph!Created
<1> QED
  BY <1>1, <1>2, <1>3

LEMMA CreateRanked ==
  ASSUME Graph!DelayablesAssumption, Structure, NEW g \in Container, NEW k \in {"chain", "group"},
         NEW args \in Graph!Arguments, Creates(g, k, args)
  PROVE  \E K \in Nat : \E r : /\ r \in [Graph!Node -> 0 .. K]
                               /\ \A n \in Container : \A m \in Graph!Elements(members'[n]) :
                                    r[m] < r[n]
<1>0. PICK K \in Nat : \E r : Ranked(r, K)
  BY DEF Structure
<1>1. PICK r : Ranked(r, K)
  BY <1>0
<1> DEFINE h == [n \in Graph!Node |-> IF n = g THEN K + 1 ELSE r[n]]
<1>2. \A n \in Graph!Node : r[n] \in 0 .. K
  BY <1>1 DEF Ranked
<1>3. h \in [Graph!Node -> 0 .. K + 1]
  BY <1>2
<1>4. ASSUME NEW n \in Container, NEW m \in Graph!Elements(members'[n]) PROVE h[m] < h[n]
  <2>0. Graph!Created \subseteq Graph!Node /\ n \in Graph!Node
    BY DEF Graph!Created, Graph!Node
  <2>1. CASE n = g
    <3>1. m \in Graph!Created /\ m # g
      BY <2>1, NewContainer, ArgumentsAre
    <3> QED
      BY <1>2, <2>0, <2>1, <3>1
  <2>2. CASE n # g
    <3>1. m \in Graph!Elements(members[n])
      BY <2>2, NewContainer
    <3>2. m \in Graph!Created
      BY <3>1 DEF Structure, ContainerOK
    <3>3. m # g
      BY <3>2, NewContainer
    <3>4. r[m] < r[n]
      BY <1>1, <3>1 DEF Ranked
    <3> QED
      BY <2>0, <2>2, <3>2, <3>3, <3>4
  <2> QED
    BY <2>1, <2>2
<1>5. K + 1 \in Nat
  OBVIOUS
<1> HIDE DEF h
<1> QED
  BY <1>3, <1>4, <1>5

LEMMA CreateStructure ==
  ASSUME Graph!DelayablesAssumption, Structure, NEW g \in Container, NEW k \in {"chain", "group"},
         NEW args \in Graph!Arguments, Creates(g, k, args)
  PROVE  Structure'
<1> DEFINE links == Links(k, args)
<1>1. /\ g \in Graph!Node /\ g \notin Leaf /\ g \notin Graph!Created
      /\ Graph!Created' = Graph!Created \cup {g}
      /\ kind'[g] = k /\ members'[g] = args /\ edges'[g] = links /\ declared'[g] = links
      /\ \A n \in Container \ {g} : kind'[n] = kind[n] /\ members'[n] = members[n]
      /\ \A n \in Graph!Node \ {g} : edges'[n] = edges[n] /\ declared'[n] = declared[n]
  BY NewContainer
<1>2. /\ args \in Seq(Graph!Node) /\ Len(args) \in Nat \ {0} /\ args # <<>>
      /\ Graph!Elements(args) \subseteq Graph!Created
      /\ links \subseteq Graph!Elements(args) \X Graph!Elements(args)
      /\ links \subseteq Graph!Created \X Graph!Created
      /\ Graph!Created \subseteq Graph!Node
  BY ArgumentsAre, LinksAre DEF Graph!Created, Graph!Node
<1>3. /\ kind' \in [Container -> Graph!Kinds] /\ members' \in [Container -> Seq(Graph!Node)]
      /\ edges' \in [Graph!Node -> SUBSET (Graph!Node \X Graph!Node)]
      /\ declared' \in [Graph!Node -> SUBSET (Graph!Node \X Graph!Node)]
  <2>1. kind' \in [Container -> Graph!Kinds]
    BY DEF Structure, Creates, Graph!Kinds
  <2>2. members' \in [Container -> Seq(Graph!Node)]
    BY <1>2 DEF Structure, Creates
  <2>3. links \in SUBSET (Graph!Node \X Graph!Node)
    BY <1>2
  <2> HIDE DEF links
  <2>4. /\ edges' \in [Graph!Node -> SUBSET (Graph!Node \X Graph!Node)]
        /\ declared' \in [Graph!Node -> SUBSET (Graph!Node \X Graph!Node)]
    BY <2>3 DEF Structure, Creates, links
  <2> QED
    BY <2>1, <2>2, <2>4
<1>4. ASSUME NEW n \in Container PROVE ContainerOK(n)'
  <2>1. CASE n = g
    <3>1. kind'[n] = "chain" => \A i \in 1 .. Len(members'[n]) - 1 :
             <<members'[n][i], members'[n][i + 1]>> \in edges'[n]
      BY <1>1, <2>1 DEF Links
    <3>2. /\ kind'[n] # "none" /\ members'[n] # <<>>
          /\ Graph!Elements(members'[n]) \subseteq Graph!Created'
      BY <1>1, <1>2, <2>1
    <3> QED
      BY <3>1, <3>2 DEF ContainerOK
  <2>2. CASE n # g
    <3>1. n \in Graph!Node /\ kind'[n] = kind[n] /\ members'[n] = members[n] /\ edges'[n] = edges[n]
      BY <1>1, <2>2 DEF Graph!Node
    <3>2. ContainerOK(n) /\ Graph!Created \subseteq Graph!Created'
      BY <1>1 DEF Structure
    <3> QED
      BY <3>1, <3>2 DEF ContainerOK
  <2> QED
    BY <2>1, <2>2
<1>5. ASSUME NEW n \in Graph!Node PROVE EdgesOK(n)'
  <2>1. CASE n = g
    <3>1. /\ edges'[n] \cup declared'[n] \subseteq Graph!Created' \X Graph!Created'
          /\ n \in Graph!Created'
      BY <1>1, <1>2, <2>1
    <3>2. \A e \in edges'[n] : e[1] \in Graph!Vertices(n)' /\ \E p \in declared'[n] : From(e, p)'
      <4> SUFFICES ASSUME NEW e \in edges'[n]
                   PROVE  e[1] \in Graph!Vertices(n)' /\ \E p \in declared'[n] : From(e, p)'
        OBVIOUS
      <4>1. e \in links /\ e[1] \in Graph!Elements(members'[n])
        BY <1>1, <1>2, <2>1
      <4>2. e[1] \in Graph!Vertices(n)'
        BY <1>1, <2>1, <4>1 DEF Graph!Vertices
      <4>3. e \in declared'[n] /\ From(e, e)'
        BY <1>1, <2>1, <4>1 DEF From
      <4> QED
        BY <4>2, <4>3
    <3>3. \A p \in declared'[n] : p \in edges'[n]
      BY <1>1, <2>1
    <3> QED
      BY <3>1, <3>2, <3>3 DEF EdgesOK
  <2>2. CASE n # g
    <3>1. /\ edges'[n] = edges[n]
          /\ declared'[n] = declared[n]
          /\ EdgesOK(n)
          /\ Graph!Created \subseteq Graph!Created'
          /\ (n \notin Leaf => n \in Container /\ kind'[n] = kind[n] /\ members'[n] = members[n])
      BY <1>1, <2>2 DEF Structure, Graph!Node
    <3>2. Graph!Vertices(n)' = Graph!Vertices(n)
      BY <3>1 DEF Graph!Vertices
    <3>3. edges'[n] \cup declared'[n] \subseteq Graph!Created' \X Graph!Created'
      BY <3>1 DEF EdgesOK
    <3>4. n \notin Graph!Created' => edges'[n] = {} /\ declared'[n] = {}
      BY <3>1 DEF EdgesOK
    <3>5. ASSUME NEW e \in edges'[n]
          PROVE  e[1] \in Graph!Vertices(n)' /\ \E p \in declared'[n] : From(e, p)'
      <4>1. PICK p \in declared[n] : From(e, p)
        BY <3>1 DEF EdgesOK
      <4>2. p[1] # g
        BY <1>1, <3>1 DEF EdgesOK
      <4>3. p[1] \in Container => members'[p[1]] = members[p[1]]
        BY <1>1, <4>2
      <4>4. From(e, p)'
        BY <4>1, <4>3 DEF From
      <4> QED
        BY <3>1, <3>2, <4>4 DEF EdgesOK
    <3>6. ASSUME NEW p \in declared'[n]
          PROVE  p \in edges'[n] \/ (p[1] = n /\ (Graph!OnDoneEdges(n, p[2]) \subseteq edges[n])')
      <4>1. Graph!OnDoneEdges(n, p[2])' = Graph!OnDoneEdges(n, p[2])
        <5>1. CASE n \in Leaf
          BY <5>1 DEF Graph!OnDoneEdges, Graph!DelayablesAssumption
        <5>2. CASE n \notin Leaf
          BY <3>1, <5>2 DEF Graph!OnDoneEdges
        <5> QED
          BY <5>1, <5>2
      <4> QED
        BY <3>1, <4>1 DEF EdgesOK
    <3> QED
      BY <3>3, <3>4, <3>5, <3>6 DEF EdgesOK
  <2> QED
    BY <2>1, <2>2
<1>6. (\E K \in Nat : \E r : Ranked(r, K))'
  <2>1. \E K \in Nat : \E r : /\ r \in [Graph!Node -> 0 .. K]
                               /\ \A n \in Container : \A m \in Graph!Elements(members'[n]) :
                                    r[m] < r[n]
    BY CreateRanked
  <2> QED
    BY <2>1 DEF Ranked
<1> QED
  BY <1>3, <1>4, <1>5, <1>6 DEF Structure

LEMMA OnDoneStructure ==
  ASSUME Graph!DelayablesAssumption, Structure, NEW n \in Graph!Created, NEW m \in Graph!Created,
         UNCHANGED <<kind, members>>,
         edges' = [edges EXCEPT ![n] = @ \cup Graph!OnDoneEdges(n, m)],
         declared' = [declared EXCEPT ![n] = @ \cup {<<n, m>>}]
  PROVE  Structure'
<1> DEFINE new == Graph!OnDoneEdges(n, m)
<1>0. /\ n \in Graph!Node
      /\ m \in Graph!Node
      /\ Graph!Created \subseteq Graph!Node
      /\ Graph!Created' = Graph!Created
      /\ Leaf \cap Container = {}
      /\ (n \in Leaf \/ n \in Container)
  BY DEF Graph!Created, Graph!Node, Graph!DelayablesAssumption
<1>1. \A e \in new :
        /\ e[2] = m /\ e[1] \in Graph!Created /\ e[1] \in Graph!Vertices(n) /\ From(e, <<n, m>>)
        /\ e = <<e[1], e[2]>>
  <2>1. CASE n \in Leaf
    <3>1. new = {<<n, m>>}
      BY <1>0, <2>1 DEF Graph!OnDoneEdges
    <3> QED
      BY <2>1, <3>1 DEF Graph!Vertices, From
  <2>2. CASE n \in Container /\ kind[n] = "chain"
    <3> DEFINE g == members[n][Len(members[n])]
    <3>1. new = {<<g, m>>}
      BY <1>0, <2>2 DEF Graph!OnDoneEdges
    <3>2. g \in Graph!Elements(members[n])
      BY <2>2, MembersAre DEF Structure, ContainerOK
    <3>3. g \in Graph!Created
      BY <2>2, <3>2 DEF Structure, ContainerOK
    <3> HIDE DEF g
    <3> QED
      BY <1>0, <2>2, <3>1, <3>2, <3>3 DEF Graph!Vertices, From
  <2>3. CASE n \in Container /\ kind[n] # "chain"
    <3>1. new = Graph!Elements(members[n]) \X {m}
      BY <1>0, <2>3 DEF Graph!OnDoneEdges
    <3>2. Graph!Elements(members[n]) \subseteq Graph!Created
      BY <2>3 DEF Structure, ContainerOK
    <3>3. Graph!Elements(members[n]) \subseteq Graph!Vertices(n)
      BY <1>0, <2>3 DEF Graph!Vertices
    <3> QED
      BY <1>0, <2>3, <3>1, <3>2, <3>3 DEF From
  <2> QED
    BY <1>0, <2>1, <2>2, <2>3
<1>2. new \subseteq Graph!Created \X Graph!Created
  BY <1>1
<1> HIDE DEF new
<1>3. /\ edges'[n] = edges[n] \cup new /\ declared'[n] = declared[n] \cup {<<n, m>>}
      /\ \A k \in Graph!Node \ {n} : edges'[k] = edges[k] /\ declared'[k] = declared[k]
  BY <1>0 DEF Structure, new
<1>4. /\ kind' \in [Container -> Graph!Kinds] /\ members' \in [Container -> Seq(Graph!Node)]
      /\ edges' \in [Graph!Node -> SUBSET (Graph!Node \X Graph!Node)]
      /\ declared' \in [Graph!Node -> SUBSET (Graph!Node \X Graph!Node)]
  <2>1. /\ edges[n] \cup new \in SUBSET (Graph!Node \X Graph!Node)
        /\ declared[n] \cup {<<n, m>>} \in SUBSET (Graph!Node \X Graph!Node)
    BY <1>0, <1>2 DEF Structure
  <2>2. /\ edges' = [edges EXCEPT ![n] = edges[n] \cup new]
        /\ declared' = [declared EXCEPT ![n] = declared[n] \cup {<<n, m>>}]
    BY DEF new
  <2>3. kind' = kind /\ members' = members
    OBVIOUS
  <2> HIDE DEF new
  <2>4. edges' \in [Graph!Node -> SUBSET (Graph!Node \X Graph!Node)]
    BY <2>1, <2>2 DEF Structure
  <2>5. declared' \in [Graph!Node -> SUBSET (Graph!Node \X Graph!Node)]
    BY <2>1, <2>2 DEF Structure
  <2> QED
    BY <2>3, <2>4, <2>5 DEF Structure
<1>5. ASSUME NEW k \in Container PROVE ContainerOK(k)'
  <2>1. k \in Graph!Node /\ ContainerOK(k)
    BY DEF Structure, Graph!Node
  <2>2. edges[k] \subseteq edges'[k]
    BY <1>3, <2>1
  <2> QED
    BY <1>0, <2>1, <2>2 DEF ContainerOK
<1>6. ASSUME NEW k \in Graph!Node PROVE EdgesOK(k)'
  <2>0. EdgesOK(k)
    BY DEF Structure
  <2>1. \A j : Graph!OnDoneEdges(k, j)' = Graph!OnDoneEdges(k, j)
    BY DEF Graph!OnDoneEdges
  <2>2. \A e, p : From(e, p)' <=> From(e, p)
    BY DEF From
  <2>3. Graph!Vertices(k) \subseteq Graph!Vertices(k)'
    BY <1>3 DEF Graph!Vertices
  <2>4. CASE k # n
    <3>1. edges'[k] = edges[k] /\ declared'[k] = declared[k]
      BY <1>3, <2>4
    <3>2. Graph!Vertices(k)' = Graph!Vertices(k)
      BY <3>1 DEF Graph!Vertices
    <3>3. edges'[k] \cup declared'[k]
            \subseteq Graph!Created' \X Graph!Created' /\ (k \notin Graph!Created' =>
                edges'[k] = {} /\ declared'[k] = {})
      BY <1>0, <2>0, <3>1 DEF EdgesOK
    <3>4. \A e \in edges'[k] : e[1] \in Graph!Vertices(k)' /\ \E p \in declared'[k] : From(e, p)'
      BY <2>0, <2>2, <3>1, <3>2 DEF EdgesOK
    <3>5. \A p \in declared'[k] :
            p \in edges'[k] \/ (p[1] = k /\ (Graph!OnDoneEdges(k, p[2]) \subseteq edges[k])')
      BY <2>0, <2>1, <3>1 DEF EdgesOK
    <3> QED
      BY <3>3, <3>4, <3>5 DEF EdgesOK
  <2>5. CASE k = n
    <3>1. edges'[k] \cup declared'[k] \subseteq Graph!Created' \X Graph!Created'
      <4>1. edges[k] \cup declared[k] \subseteq Graph!Created \X Graph!Created
        BY <2>0 DEF EdgesOK
      <4>2. <<n, m>> \in Graph!Created \X Graph!Created
        OBVIOUS
      <4> QED
        BY <1>0, <1>2, <1>3, <2>5, <4>1, <4>2
    <3>2. ASSUME NEW e \in edges'[k]
          PROVE  e[1] \in Graph!Vertices(k)' /\ \E p \in declared'[k] : From(e, p)'
      <4>1. CASE e \in edges[k]
        <5>1. PICK p \in declared[k] : From(e, p)
          BY <2>0, <4>1 DEF EdgesOK
        <5>2. p \in declared'[k] /\ From(e, p)'
          BY <1>3, <2>2, <2>5, <5>1
        <5>3. e[1] \in Graph!Vertices(k)'
          BY <2>0, <2>3, <4>1 DEF EdgesOK
        <5> QED
          BY <5>2, <5>3
      <4>2. CASE e \in new
        <5>1. From(e, <<n, m>>)' /\ <<n, m>> \in declared'[k] /\ e[1] \in Graph!Vertices(k)'
          BY <1>1, <1>3, <2>2, <2>3, <2>5, <4>2
        <5> QED
          BY <5>1
      <4> QED
        BY <1>3, <2>5, <4>1, <4>2
    <3>3. ASSUME NEW p \in declared'[k]
          PROVE  p \in edges'[k] \/ (p[1] = k /\ (Graph!OnDoneEdges(k, p[2]) \subseteq edges[k])')
      <4>1. edges[k] \subseteq edges'[k] /\ new \subseteq edges'[k]
        BY <1>3, <2>5
      <4>2. CASE p \in declared[k]
        <5>1. p \in edges[k] \/ (p[1] = k /\ Graph!OnDoneEdges(k, p[2]) \subseteq edges[k])
          BY <2>0, <4>2 DEF EdgesOK
        <5> QED
          BY <2>1, <4>1, <5>1
      <4>3. CASE p = <<n, m>>
        <5>1. Graph!OnDoneEdges(k, p[2])' = new /\ p[1] = k
          BY <2>1, <2>5, <4>3 DEF new
        <5> QED
          BY <4>1, <5>1
      <4> QED
        BY <1>3, <2>5, <4>2, <4>3
    <3>4. k \in Graph!Created'
      BY <1>0, <2>5
    <3> QED
      BY <3>1, <3>2, <3>3, <3>4 DEF EdgesOK
  <2> QED
    BY <2>4, <2>5
<1>7. (\E K \in Nat : \E r : Ranked(r, K))'
  BY DEF Ranked, Structure
<1> QED
  BY <1>4, <1>5, <1>6, <1>7 DEF Structure

-----------------------------------------------------------------------------
\* A new group brings no delayable into the nodes that exist

LeafFacts == /\ \A n \in Leaf : Graph!Leaves[n] = {n}
             /\ \A n \in Container :
                  Graph!Leaves[n] = UNION {Graph!Leaves[m] : m \in Graph!Elements(members[n])}

LEMMA LeafFactsHold == Graph!DelayablesAssumption /\ Structure => LeafFacts
BY LeavesOf DEF LeafFacts

LEMMA LeavesNext ==
  ASSUME Graph!DelayablesAssumption, Structure'
  PROVE  /\ \A n \in Leaf : Graph!Leaves'[n] = {n}
         /\ \A n \in Container :
              Graph!Leaves'[n] = UNION {Graph!Leaves'[m] : m \in Graph!Elements(members'[n])}
<1>1. (Graph!DelayablesAssumption /\ Structure => LeafFacts)'
  BY LeafFactsHold, PTL
<1>2. Graph!DelayablesAssumption'
  BY DEF Graph!DelayablesAssumption, Graph!Node
<1> QED
  BY <1>1, <1>2 DEF LeafFacts

LEMMA LeavesStay ==
  ASSUME Graph!DelayablesAssumption, Structure, Structure',
         \A n \in Graph!Created \cap Container : members'[n] = members[n]
  PROVE  \A n \in Graph!Created : Graph!Leaves'[n] = Graph!Leaves[n]
<1> DEFINE S == {n \in Graph!Node : n \in Graph!Created => Graph!Leaves'[n] = Graph!Leaves[n]}
<1>1. ASSUME NEW n \in Graph!Node, n \in Container => Graph!Elements(members[n]) \subseteq S
      PROVE  n \in S
  <2> SUFFICES ASSUME n \in Graph!Created PROVE Graph!Leaves'[n] = Graph!Leaves[n]
    OBVIOUS
  <2>1. CASE n \in Leaf
    BY <2>1, LeavesOf, LeavesNext
  <2>2. CASE n \in Container
    <3>1. \A m \in Graph!Elements(members[n]) : Graph!Leaves'[m] = Graph!Leaves[m]
      BY <1>1, <2>2 DEF Structure, ContainerOK
    <3>2. Graph!Leaves'[n] = UNION {Graph!Leaves'[m] : m \in Graph!Elements(members[n])}
      BY <2>2, LeavesNext
    <3>3. Graph!Leaves[n] = UNION {Graph!Leaves[m] : m \in Graph!Elements(members[n])}
      BY <2>2, LeavesOf
    <3>4. {Graph!Leaves'[m] : m \in Graph!Elements(members[n])}
            = {Graph!Leaves[m] : m \in Graph!Elements(members[n])}
      BY <3>1
    <3> HIDE DEF S
    <3> QED
      BY <3>2, <3>3, <3>4
  <2> QED
    BY <2>1, <2>2 DEF Graph!Node
<1> HIDE DEF S
<1>2. Graph!Node \subseteq S
  BY <1>1, NodeInduction
<1> QED
  BY <1>2 DEF S, Graph!Created, Graph!Node

LEMMA GroupConsistent ==
  ASSUME Graph!DelayablesAssumption, Structure, Structure', Graph!Consistent, UNCHANGED declared,
         \A n \in Graph!Created \cap Container : members'[n] = members[n]
  PROVE  Graph!Consistent'
<1> DEFINE D == UNION {declared[m] : m \in Graph!Node}
<1>1. \A p \in D : p[1] \in Graph!Created /\ p[2] \in Graph!Created
  BY DEF Structure, EdgesOK
<1>2. \A p \in D :
        Graph!Leaves'[p[1]] \X Graph!Leaves'[p[2]] = Graph!Leaves[p[1]] \X Graph!Leaves[p[2]]
  BY <1>1, LeavesStay
<1>3. {Graph!Leaves'[p[1]] \X Graph!Leaves'[p[2]] : p \in D}
        = {Graph!Leaves[p[1]] \X Graph!Leaves[p[2]] : p \in D}
  BY <1>2
<1>4. Graph!Intended(D) = Graph!Closure[UNION {Graph!Leaves[p[1]] \X Graph!Leaves[p[2]] : p \in D}]
  BY DEF Graph!Intended
<1>5. Graph!Intended(D)'
        = Graph!Closure[UNION {Graph!Leaves'[p[1]] \X Graph!Leaves'[p[2]] : p \in D}]
  BY DEF Graph!Intended, Graph!Closure
<1>6. Graph!Intended(D)' = Graph!Intended(D)
  BY <1>3, <1>4, <1>5
<1>7. Graph!Consistent' = Graph!Acyclic(Graph!Intended(D))
  BY <1>6 DEF Graph!Consistent, Graph!Acyclic
<1> QED
  BY <1>7 DEF Graph!Consistent

-----------------------------------------------------------------------------
\* The inductive invariant

\* The edges into a delayable from those that have not been performed.
Unresolved(w) == {e \in built.edges : e[2] = w /\ e[1] \notin Graph!Elements(performed)}
Performable == {v \in built.vertices :
                 /\ v \notin Graph!Elements(performed)
                 /\ Graph!DependsOn(v) \subseteq Graph!Elements(performed)}

Sorted ==
    /\ Graph!Elements(performed) \subseteq built.vertices
    /\ \A j \in DOMAIN performed :
         Graph!DependsOn(performed[j]) \subseteq {performed[i] : i \in 1 .. j - 1}
    /\ \A i, j \in DOMAIN performed : i # j => performed[i] # performed[j]
    /\ \A w \in Leaf : depends[w] = Cardinality(Unresolved(w))
    /\ queue = Performable

DelayableInv ==
    /\ Graph!TypeOK /\ Structure /\ Graph!Consistent /\ Delayed
    /\ stored \in {{}, built.vertices}
    /\ phase = "build" => stored = {}
    /\ phase # "direct" => queue = {} /\ performed = <<>>
    /\ phase = "direct" => Sorted

LEMMA StructureSame ==
  ASSUME Structure, UNCHANGED <<kind, members, edges, declared>>
  PROVE  Structure'
<1>1. Graph!Created' = Graph!Created
  BY DEF Graph!Created
<1>2. /\ \A n : Graph!Vertices(n)' = Graph!Vertices(n)
      /\ \A n, m : Graph!OnDoneEdges(n, m)' = Graph!OnDoneEdges(n, m)
      /\ \A e, p : From(e, p)' <=> From(e, p)
      /\ \A r, K : Ranked(r, K)' <=> Ranked(r, K)
  BY DEF Graph!Vertices, Graph!OnDoneEdges, From, Ranked
<1>3. \A n \in Container : ContainerOK(n)'
  BY <1>1 DEF Structure, ContainerOK
<1>4. \A n \in Graph!Node : EdgesOK(n)'
  BY <1>1, <1>2 DEF Structure, EdgesOK
<1> QED
  BY <1>2, <1>3, <1>4 DEF Structure

LEMMA GraphSame ==
  ASSUME UNCHANGED <<kind, members, edges, declared>>
  PROVE  /\ Graph!Created' = Graph!Created
         /\ \A n : Graph!connect_graphs(n)' = Graph!connect_graphs(n)
         /\ Graph!Consistent' = Graph!Consistent
<1>1. Graph!Ends' = Graph!Ends
  BY DEF Graph!Ends, Graph!Elements, Graph!Opposite
<1>2. ASSUME NEW n PROVE Graph!Visited(n)' = Graph!Visited(n)
  BY DEF Graph!Visited, Graph!Vertices, Graph!Elements
<1>3. ASSUME NEW n PROVE Graph!connect_graphs(n)' = Graph!connect_graphs(n)
  <2>1. \A e : Graph!Connected(e)' = Graph!Connected(e)
    BY <1>1 DEF Graph!Connected
  <2>2. \A m : Graph!Vertices(m)' = Graph!Vertices(m) /\ edges'[m] = edges[m]
    BY DEF Graph!Vertices, Graph!Elements
  <2>3. {Graph!Vertices(m)' : m \in Graph!Visited(n)'}
          = {Graph!Vertices(m) : m \in Graph!Visited(n)}
    BY <1>2, <2>2
  <2>4. UNION {Graph!Vertices(m)' : m \in Graph!Visited(n)'}
          = UNION {Graph!Vertices(m) : m \in Graph!Visited(n)}
    BY <2>3
  <2>5. (UNION {edges[m] : m \in Graph!Visited(n)})' = UNION {edges[m] : m \in Graph!Visited(n)}
    BY <1>2
  <2> QED
    BY <1>1, <2>1, <2>4, <2>5 DEF Graph!connect_graphs
<1>4. Graph!Leaves' = Graph!Leaves
  BY DEF Graph!Leaves, Graph!Elements
<1>5. Graph!Consistent' = Graph!Consistent
  BY <1>4 DEF Graph!Consistent, Graph!Intended, Graph!Closure, Graph!Acyclic
<1> QED
  BY <1>3, <1>5 DEF Graph!Created

LEMMA GraphType ==
  ASSUME Graph!DelayablesAssumption, Structure, NEW n \in Graph!Node
  PROVE  Graph!connect_graphs(n) \in [vertices : SUBSET Leaf, edges : SUBSET (Leaf \X Leaf)]
<1>1. Graph!connect_graphs(n)
        = [vertices |-> Graph!connect_graphs(n).vertices, edges |-> Graph!connect_graphs(n).edges]
  BY DEF Graph!connect_graphs
<1>2. Graph!connect_graphs(n).vertices \in SUBSET Leaf
  BY GraphVertices
<1>3. Graph!connect_graphs(n).edges \in SUBSET (Leaf \X Leaf)
  BY GraphEdges DEF Pairs
<1> QED
  BY <1>1, <1>2, <1>3

\* No job follows itself.
LEMMA BuiltAcyclic ==
  ASSUME Graph!DelayablesAssumption, Structure, Graph!Consistent, Delayed, phase # "build"
  PROVE  /\ built.edges \subseteq Graph!Closure[built.edges]
         /\ Graph!Closure[built.edges] \subseteq Pairs
         /\ Transitive(Graph!Closure[built.edges]) /\ Graph!Acyclic(Graph!Closure[built.edges])
         /\ built.edges \subseteq built.vertices \X built.vertices
         /\ built.vertices \subseteq Leaf /\ built.edges \subseteq Pairs
<1>1. PICK n \in Graph!Created : built = Graph!connect_graphs(n)
  BY DEF Delayed
<1>2. n \in Graph!Node
  BY DEF Graph!Created, Graph!Node
<1> DEFINE D == UNION {declared[m] : m \in Graph!Node}
<1>3. D \in SUBSET (Graph!Node \X Graph!Node)
  BY DEF Structure
<1>4. AskedAt(n) \subseteq D
  BY <1>2, VisitedClosed DEF AskedAt
<1>5. Between(D) \in SUBSET Pairs
  BY <1>3, BetweenTyped
<1>6. Between(AskedAt(n)) \subseteq Between(D)
  BY <1>4 DEF Between
<1>7. /\ built.edges \subseteq built.vertices \X built.vertices /\ built.edges \in SUBSET Pairs
      /\ built.edges \subseteq Between(AskedAt(n)) /\ built.vertices \subseteq Leaf
  BY <1>1, <1>2, GraphEdges, GraphVertices
<1>8. built.edges \subseteq Graph!Closure[built.edges] /\ Graph!Closure[built.edges] \subseteq Pairs
      /\ Transitive(Graph!Closure[built.edges])
  BY <1>7, ClosureLeast
<1>9. Between(D) \subseteq Graph!Closure[Between(D)]
  BY <1>5, ClosureLeast
<1>10. built.edges \subseteq Graph!Closure[Between(D)]
  BY <1>6, <1>7, <1>9
<1>11. Graph!Closure[built.edges] \subseteq Graph!Closure[Between(D)]
  BY <1>5, <1>7, <1>10, ClosureMonotone
<1>12. Graph!Intended(D) = Graph!Closure[Between(D)]
  BY DEF Graph!Intended, Between
<1>13. Graph!Acyclic(Graph!Closure[Between(D)])
  BY <1>12 DEF Graph!Consistent
<1>14. Graph!Acyclic(Graph!Closure[built.edges])
  BY <1>11, <1>13 DEF Graph!Acyclic
<1> QED
  BY <1>7, <1>8, <1>14
-----------------------------------------------------------------------------
\* Construction

LEMMA InitInv ==
  ASSUME Graph!DelayablesAssumption, Graph!Init
  PROVE  DelayableInv
<1>0. Leaf \subseteq Graph!Node /\ Leaf \cap Container = {} /\ Container \subseteq Graph!Node
  BY DEF Graph!Node, Graph!DelayablesAssumption
<1>1. \A n \in Container : members[n] = <<>> /\ kind[n] = "none" /\ Graph!Elements(members[n]) = {}
  BY DEF Graph!Init, Graph!Elements
<1>2. \A n \in Graph!Node : edges[n] = {} /\ declared[n] = {}
  BY DEF Graph!Init
<1>3. Structure
  <2>1. /\ kind \in [Container -> Graph!Kinds] /\ members \in [Container -> Seq(Graph!Node)]
        /\ edges \in [Graph!Node -> SUBSET (Graph!Node \X Graph!Node)]
        /\ declared \in [Graph!Node -> SUBSET (Graph!Node \X Graph!Node)]
    BY DEF Graph!Init, Graph!Kinds
  <2>2. \A n \in Container : ContainerOK(n)
    BY <1>1 DEF ContainerOK
  <2>3. \A n \in Graph!Node : EdgesOK(n)
    BY <1>2 DEF EdgesOK
  <2>4. \E K \in Nat : \E r : Ranked(r, K)
    <3> DEFINE r == [n \in Graph!Node |-> 0]
    <3>1. Ranked(r, 0)
      BY <1>1 DEF Ranked
    <3> HIDE DEF r
    <3> QED
      BY <3>1
  <2> QED
    BY <2>1, <2>2, <2>3, <2>4 DEF Structure
<1>4. Graph!Consistent
  <2>1. UNION {declared[m] : m \in Graph!Node} = {}
    BY <1>2
  <2>2. Graph!Intended({}) = Graph!Closure[{}]
    BY DEF Graph!Intended
  <2>3. {} \in SUBSET Pairs /\ Transitive({})
    BY DEF Transitive
  <2>4. Graph!Closure[{}] \subseteq {}
    BY <2>3, ClosureLeast
  <2> QED
    BY <2>1, <2>2, <2>4 DEF Graph!Consistent, Graph!Acyclic
<1>5. Graph!TypeOK
  <2>1. /\ {edges, declared} \subseteq [Graph!Node -> SUBSET (Graph!Node \X Graph!Node)]
        /\ kind \in [Container -> Graph!Kinds]
        /\ \A n \in Container : members[n] \in Seq(Graph!Node)
    BY <1>3 DEF Structure
  <2>2. /\ onDone \in Nat
        /\ existing \subseteq Keyed
        /\ phase \in Graph!Phases
        /\ root \subseteq Graph!Node
        /\ {generated, stored, queue} \subseteq SUBSET Leaf /\ depends \in [Leaf -> Nat]
    BY DEF Graph!Init, Graph!Phases
  <2>3. built \in [vertices : SUBSET Leaf, edges : SUBSET (Leaf \X Leaf)]
    BY DEF Graph!Init, Graph!NoJob
  <2>4. performed \in Seq(Leaf)
    BY DEF Graph!Init
  <2> QED
    BY <2>1, <2>2, <2>3, <2>4 DEF Graph!TypeOK
<1>6. phase = "build" /\ queue = {} /\ performed = <<>> /\ stored = {}
  BY DEF Graph!Init
<1> QED
  BY <1>3, <1>4, <1>5, <1>6 DEF DelayableInv, Delayed

\* While the graph is put together, nothing is delayed.
LEMMA ConstructionStep ==
  ASSUME Graph!DelayablesAssumption, DelayableInv, Structure', Graph!Consistent', phase = "build",
         onDone' \in Nat,
         UNCHANGED <<existing, Graph!jobVars, Graph!directVars>>
  PROVE  DelayableInv'
<1>1. /\ phase' = "build" /\ queue' = queue /\ performed' = performed /\ stored' = stored
      /\ built' = built
      /\ existing' = existing /\ root' = root /\ generated' = generated /\ depends' = depends
  BY DEF Graph!jobVars, Graph!directVars
<1>2. Graph!TypeOK'
  <2>1. /\ {edges, declared}' \subseteq [Graph!Node -> SUBSET (Graph!Node \X Graph!Node)]
        /\ kind' \in [Container -> Graph!Kinds]
        /\ \A n \in Container : members'[n] \in Seq(Graph!Node)
    BY DEF Structure
  <2>2. phase' \in Graph!Phases
    BY <1>1 DEF Graph!Phases
  <2> QED
    BY <1>1, <2>1, <2>2 DEF DelayableInv, Graph!TypeOK
<1> QED
  BY <1>1, <1>2 DEF DelayableInv, Delayed

LEMMA GroupStep ==
  ASSUME Graph!DelayablesAssumption, DelayableInv, NEW g \in Container, Graph!group(g)
  PROVE  DelayableInv'
<1>1. PICK args \in Graph!Arguments :
        Graph!Create(g, "group", args) /\ UNCHANGED <<edges, declared>>
  BY DEF Graph!group
<1>2. Structure /\ Graph!Consistent
  BY DEF DelayableInv
<1>3. /\ kind[g] = "none" /\ phase = "build"
      /\ UNCHANGED <<onDone, existing, Graph!jobVars, Graph!directVars>>
  BY <1>1 DEF Graph!Create
<1>4. g \in Graph!Node /\ g \notin Graph!Created
  BY <1>3 DEF Graph!Created, Graph!Node, Graph!DelayablesAssumption
<1>5. edges[g] = {} /\ declared[g] = {}
  BY <1>2, <1>4 DEF Structure, EdgesOK
<1>6. edges' = [edges EXCEPT ![g] = {}] /\ declared' = [declared EXCEPT ![g] = {}]
  BY <1>1, <1>2, <1>5 DEF Structure
<1>7. Creates(g, "group", args)
  BY <1>1, <1>6 DEF Creates, Graph!Create, Links
<1>8. Structure'
  BY <1>2, <1>7, CreateStructure
<1>9. \A n \in Graph!Created \cap Container : members'[n] = members[n]
  BY <1>2, <1>4, <1>7, NewContainer
<1>10. Graph!Consistent'
  BY <1>1, <1>2, <1>8, <1>9, GroupConsistent
<1>11. onDone' \in Nat
  BY <1>3 DEF DelayableInv, Graph!TypeOK
<1> QED
  BY <1>3, <1>8, <1>10, <1>11, ConstructionStep

LEMMA ChainStep ==
  ASSUME Graph!DelayablesAssumption, DelayableInv, NEW g \in Container, Graph!chain(g)
  PROVE  DelayableInv'
<1>1. PICK args \in Graph!Arguments :
        /\ Graph!Create(g, "chain", args)
        /\ edges' = [edges EXCEPT ![g] = {<<args[i], args[i + 1]>> : i \in 1 .. Len(args) - 1}]
        /\ Graph!Declare(g, {<<args[i], args[i + 1]>> : i \in 1 .. Len(args) - 1})
  BY DEF Graph!chain
<1>2. Structure
  BY DEF DelayableInv
<1>3. /\ kind[g] = "none" /\ phase = "build"
      /\ UNCHANGED <<onDone, existing, Graph!jobVars, Graph!directVars>>
  BY <1>1 DEF Graph!Create
<1>4. g \in Graph!Node /\ g \notin Graph!Created
  BY <1>3 DEF Graph!Created, Graph!Node, Graph!DelayablesAssumption
<1>5. declared[g] = {}
  BY <1>2, <1>4 DEF Structure, EdgesOK
<1>6. declared' = [declared EXCEPT ![g] = Links("chain", args)] /\ Graph!Consistent'
  BY <1>1, <1>5 DEF Graph!Declare, Links
<1>7. Creates(g, "chain", args)
  BY <1>1, <1>6 DEF Creates, Graph!Create, Links
<1>8. Structure'
  BY <1>2, <1>7, CreateStructure
<1>9. onDone' \in Nat
  BY <1>3 DEF DelayableInv, Graph!TypeOK
<1> QED
  BY <1>3, <1>6, <1>8, <1>9, ConstructionStep

LEMMA OnDoneStep ==
  ASSUME Graph!DelayablesAssumption, DelayableInv, NEW n \in Graph!Node, NEW m \in Graph!Node,
         Graph!on_done(n, m)
  PROVE  DelayableInv'
<1>1. /\ phase = "build" /\ onDone' = onDone + 1 /\ n \in Graph!Created /\ m \in Graph!Created
      /\ edges' = [edges EXCEPT ![n] = @ \cup Graph!OnDoneEdges(n, m)]
      /\ declared' = [declared EXCEPT ![n] = @ \cup {<<n, m>>}]
      /\ UNCHANGED <<kind, members>> /\ UNCHANGED <<existing, Graph!jobVars, Graph!directVars>>
      /\ Graph!Consistent'
  BY DEF Graph!on_done, Graph!Declare
<1>2. Structure
  BY DEF DelayableInv
<1>3. Structure'
  BY <1>1, <1>2, OnDoneStructure
<1>4. onDone' \in Nat
  BY <1>1 DEF DelayableInv, Graph!TypeOK
<1> QED
  BY <1>1, <1>3, <1>4, ConstructionStep
-----------------------------------------------------------------------------
\* Delaying

LEMMA BuildStep ==
  ASSUME Graph!DelayablesAssumption, DelayableInv, NEW n \in Graph!Node, Graph!Build(n),
         phase' # "build"
  PROVE  /\ Structure' /\ Graph!Consistent' /\ Delayed' /\ phase = "build"
         /\ UNCHANGED Graph!graphVars
         /\ root' \subseteq Graph!Node /\ existing' \subseteq Keyed
         /\ built' \in [vertices : SUBSET Leaf, edges : SUBSET (Leaf \X Leaf)]
<1>1. /\ phase = "build" /\ n \in Graph!Created /\ root' = {n} /\ built' = Graph!connect_graphs(n)
      /\ existing' \in SUBSET (Keyed \cap built'.vertices) /\ UNCHANGED Graph!graphVars
  BY DEF Graph!Build
<1>2. UNCHANGED <<kind, members, edges, declared>>
  BY <1>1 DEF Graph!graphVars
<1>3. Structure /\ Graph!Consistent
  BY DEF DelayableInv
<1>4. Structure' /\ Graph!Consistent'
  BY <1>2, <1>3, StructureSame, GraphSame
<1>5. Delayed'
  <2>1. n \in Graph!Created' /\ built' = Graph!connect_graphs(n)'
    BY <1>1, <1>2, GraphSame
  <2> QED
    BY <1>1, <2>1 DEF Delayed
<1>6. built' \in [vertices : SUBSET Leaf, edges : SUBSET (Leaf \X Leaf)]
  BY <1>1, <1>3, GraphType
<1> QED
  BY <1>1, <1>4, <1>5, <1>6

LEMMA BuildType ==
  ASSUME Graph!DelayablesAssumption, DelayableInv, NEW n \in Graph!Node, Graph!Build(n),
         phase' \in Graph!Phases \ {"build"},
         {generated', stored', queue'} \subseteq SUBSET Leaf, depends' \in [Leaf -> Nat],
         performed' = performed
  PROVE  Graph!TypeOK'
<1>1. phase' # "build"
  OBVIOUS
<1>2. /\ Structure' /\ UNCHANGED Graph!graphVars /\ root' \subseteq Graph!Node
      /\ existing' \subseteq Keyed
      /\ built' \in [vertices : SUBSET Leaf, edges : SUBSET (Leaf \X Leaf)]
  BY <1>1, BuildStep
<1>3. /\ {edges, declared}' \subseteq [Graph!Node -> SUBSET (Graph!Node \X Graph!Node)]
      /\ kind' \in [Container -> Graph!Kinds]
        /\ \A c \in Container : members'[c] \in Seq(Graph!Node)
  BY <1>2 DEF Structure
<1>4. onDone' \in Nat /\ performed' \in Seq(Leaf)
  BY <1>2 DEF Graph!graphVars, DelayableInv, Graph!TypeOK
<1> QED
  BY <1>2, <1>3, <1>4 DEF Graph!TypeOK

\* Whether the jobs are stored or found.
LEMMA DelayStep ==
  ASSUME Graph!DelayablesAssumption, DelayableInv, NEW n \in Graph!Node,
         Graph!delay(n) \/ Graph!delay_existing(n)
  PROVE  DelayableInv'
<1>1. /\ Graph!Build(n) /\ phase' \in {"stored", "skipped"}
      /\ stored' = Graph!Stored(built'.vertices)
      /\ (generated' = generated \/ \E v \in built'.vertices :
             generated' = {v}) /\ UNCHANGED Graph!directVars
  BY DEF Graph!delay, Graph!delay_existing
<1>2. phase' \in Graph!Phases \ {"build"} /\ phase' # "build" /\ phase' # "direct"
  BY <1>1 DEF Graph!Phases
<1>3. /\ Structure' /\ Graph!Consistent' /\ Delayed' /\ phase = "build"
      /\ built' \in [vertices : SUBSET Leaf, edges : SUBSET (Leaf \X Leaf)]
  BY <1>1, <1>2, BuildStep
<1>4. stored' \in {{}, built'.vertices}
  <2> DEFINE V == built'.vertices
  <2>1. Graph!Stored(V) = {} \/ Graph!Stored(V) = V
    BY DEF Graph!Stored
  <2> QED
    BY <1>1, <2>1
<1>5. /\ queue' = {} /\ performed' = <<>> /\ queue' = queue /\ depends' = depends
      /\ performed' = performed
  BY <1>1, <1>3 DEF DelayableInv, Graph!directVars
<1>6. built'.vertices \subseteq Leaf
  BY <1>3
<1>7. /\ generated' \in SUBSET Leaf /\ stored' \in SUBSET Leaf /\ queue' \in SUBSET Leaf
      /\ depends' \in [Leaf -> Nat]
  <2>1. generated \in SUBSET Leaf /\ depends \in [Leaf -> Nat]
    BY DEF DelayableInv, Graph!TypeOK
  <2>2. generated' \in SUBSET Leaf
    <3>1. CASE generated' = generated
      BY <2>1, <3>1
    <3>2. CASE \E v \in built'.vertices : generated' = {v}
      BY <1>6, <3>2
    <3> QED
      BY <1>1, <3>1, <3>2
  <2>3. stored' \in SUBSET Leaf
    BY <1>4, <1>6
  <2> QED
    BY <1>5, <2>1, <2>2, <2>3
<1>8. Graph!TypeOK'
  BY <1>1, <1>2, <1>5, <1>7, BuildType
<1> QED
  BY <1>2, <1>3, <1>4, <1>5, <1>8 DEF DelayableInv

LEMMA DirectGraphStep ==
  ASSUME Graph!DelayablesAssumption, DelayableInv, NEW n \in Graph!Node,
         Graph!execute_graph_direct(n)
  PROVE  DelayableInv'
<1>1. /\ Graph!Build(n) /\ phase' = "direct" /\ queue' = Graph!Roots(built')
      /\ depends' = [v \in Leaf |-> Cardinality({e \in built'.edges : e[2] = v})]
      /\ generated' = generated /\ stored' = stored /\ performed' = performed
  <2>1. depends' = [v \in Leaf |-> Graph!Cardinality({e \in built'.edges : e[2] = v})]
    BY DEF Graph!execute_graph_direct
  <2>2. \A v \in Leaf : Graph!Cardinality({e \in built'.edges : e[2] = v})
                     = Cardinality({e \in built'.edges : e[2] = v})
    BY GraphOperators
  <2>3. depends' = [v \in Leaf |-> Cardinality({e \in built'.edges : e[2] = v})]
    BY <2>1, <2>2
  <2> QED
    BY <2>3 DEF Graph!execute_graph_direct
<1>2. phase' \in Graph!Phases \ {"build"} /\ phase' # "build"
  BY <1>1 DEF Graph!Phases
<1>3. /\ Structure' /\ Graph!Consistent' /\ Delayed' /\ phase = "build"
      /\ built' \in [vertices : SUBSET Leaf, edges : SUBSET (Leaf \X Leaf)]
  BY <1>1, <1>2, BuildStep
<1>4. stored' = {} /\ performed' = <<>>
  <2>1. stored = {} /\ performed = <<>>
    BY <1>3 DEF DelayableInv
  <2> QED
    BY <1>1, <2>1
<1>5. Graph!Elements(performed') = {}
  BY <1>4 DEF Graph!Elements
<1>6. \A w \in Leaf : Unresolved(w)' = {e \in built'.edges : e[2] = w}
  BY <1>5 DEF Unresolved
<1>7. IsFiniteSet(built'.edges)
  <2>1. built'.edges \in SUBSET Pairs
    BY <1>3 DEF Pairs
  <2> QED
    BY <2>1, FiniteNodes, FS_Subset
<1>8. depends' \in [Leaf -> Nat]
  <2>1. \A w \in Leaf : Cardinality({e \in built'.edges : e[2] = w}) \in Nat
    <3> SUFFICES ASSUME NEW w \in Leaf PROVE Cardinality({e \in built'.edges : e[2] = w}) \in Nat
      OBVIOUS
    <3>1. {e \in built'.edges : e[2] = w} \in SUBSET built'.edges
      OBVIOUS
    <3> QED
      BY <1>7, <3>1, FS_Subset, FS_CardinalityType
  <2> QED
    BY <1>1, <2>1
<1>9. queue' \subseteq built'.vertices /\ built'.vertices \subseteq Leaf
  BY <1>1, <1>3 DEF Graph!Roots
<1>10. Graph!TypeOK'
  <2>1. generated' \in SUBSET Leaf
    BY <1>1 DEF DelayableInv, Graph!TypeOK
  <2> QED
    BY <1>1, <1>2, <1>4, <1>8, <1>9, <2>1, BuildType
<1>11. queue' = Performable'
  <2>1. \A v : Graph!DependsOn(v)' = {u \in built'.vertices : <<u, v>> \in built'.edges}
    BY DEF Graph!DependsOn
  <2>2. Performable' = {v \in built'.vertices : Graph!DependsOn(v)' = {}}
    BY <1>5 DEF Performable
  <2> QED
    BY <1>1, <2>1, <2>2 DEF Graph!Roots
<1>12. Sorted'
  <2>1. DOMAIN performed' = {}
    BY <1>4
  <2>2. \A w \in Leaf : depends'[w] = Cardinality(Unresolved(w)')
    BY <1>1, <1>6
  <2> QED
    BY <1>5, <1>11, <2>1, <2>2 DEF Sorted
<1>13. stored' \in {{}, built'.vertices}
  BY <1>4
<1> QED
  BY <1>1, <1>2, <1>3, <1>10, <1>12, <1>13 DEF DelayableInv
-----------------------------------------------------------------------------
\* The sort

LEMMA PerformStep ==
  ASSUME Graph!DelayablesAssumption, DelayableInv, NEW v \in Leaf, Graph!execute_direct(v)
  PROVE  DelayableInv'
<1>1. /\ v \in queue /\ performed' = Append(performed, v)
      /\ depends' = [w \in Leaf |-> IF <<v, w>> \in built.edges THEN depends[w] - 1 ELSE depends[w]]
      /\ queue' = (queue \ {v}) \cup Graph!Resolved(v)
      /\ UNCHANGED <<Graph!graphVars, existing, Graph!jobVars>>
  BY DEF Graph!execute_direct
<1>2. /\ UNCHANGED <<kind, members, edges, declared, onDone>> /\ existing' = existing
      /\ phase' = phase /\ root' = root /\ built' = built /\ generated' = generated
      /\ stored' = stored
  BY <1>1 DEF Graph!graphVars, Graph!jobVars
<1>3. phase = "direct" /\ Sorted /\ Graph!TypeOK /\ Structure /\ Graph!Consistent /\ Delayed
  BY <1>1 DEF DelayableInv
<1>4. Structure' /\ Graph!Consistent' /\ Delayed'
  <2>1. Structure' /\ Graph!Consistent'
    BY <1>2, <1>3, StructureSame, GraphSame
  <2>2. \A n : Graph!connect_graphs(n)' = Graph!connect_graphs(n)
    BY <1>2, GraphSame
  <2>3. Graph!Created' = Graph!Created
    BY <1>2, GraphSame
  <2>4. PICK n \in Graph!Created : root = {n} /\ built = Graph!connect_graphs(n)
    BY <1>3 DEF Delayed
  <2>5. root' = {n} /\ built' = Graph!connect_graphs(n)' /\ n \in Graph!Created'
    BY <1>2, <2>2, <2>3, <2>4
  <2>6. Delayed'
    BY <2>5 DEF Delayed
  <2> QED
    BY <2>1, <2>6
<1> DEFINE P == Graph!Elements(performed)
           E == built.edges
           V == built.vertices
<1>5. /\ E \subseteq V \X V /\ V \subseteq Leaf /\ <<v, v>> \notin E /\ IsFiniteSet(E)
  <2>1. /\ E \subseteq Graph!Closure[E] /\ Graph!Acyclic(Graph!Closure[E]) /\ E \subseteq V \X V
        /\ V \subseteq Leaf /\ E \subseteq Pairs
    BY <1>3, BuiltAcyclic
  <2>2. <<v, v>> \notin E
    BY <2>1 DEF Graph!Acyclic
  <2> QED
    BY <2>1, <2>2, FiniteNodes, FS_Subset
<1>6. /\ performed \in Seq(Leaf) /\ Len(performed) \in Nat /\ DOMAIN performed = 1 .. Len(performed)
      /\ performed' \in Seq(Leaf) /\ Len(performed') = Len(performed) + 1
      /\ DOMAIN performed' = 1 .. Len(performed) + 1
      /\ performed'[Len(performed) + 1] = v
      /\ \A i \in 1 .. Len(performed) : performed'[i] = performed[i]
  <2>1. performed \in Seq(Leaf)
    BY <1>3 DEF Graph!TypeOK
  <2>2. performed' \in Seq(Leaf) /\ Len(performed') = Len(performed) + 1
    BY <1>1, <2>1, AppendProperties
  <2> QED
    BY <1>1, <2>1, <2>2, AppendProperties, LenProperties
<1>7. Graph!Elements(performed') = P \cup {v}
  <2>1. P = {performed[i] : i \in 1 .. Len(performed)}
    BY <1>6 DEF Graph!Elements
  <2>2. Graph!Elements(performed') = {performed'[i] : i \in 1 .. Len(performed) + 1}
    BY <1>6 DEF Graph!Elements
  <2>3. 1 .. Len(performed) + 1 = (1 .. Len(performed)) \cup {Len(performed) + 1}
    BY <1>6
  <2> QED
    BY <1>6, <2>1, <2>2, <2>3
<1>8. v \in V /\ v \notin P /\ Graph!DependsOn(v) \subseteq P /\ P \subseteq V
  BY <1>1, <1>3 DEF Sorted, Performable
<1>9. \A w \in Leaf : /\ depends[w] = Cardinality(Unresolved(w)) /\ IsFiniteSet(Unresolved(w))
                      /\ Cardinality(Unresolved(w)) \in Nat
  <2> SUFFICES ASSUME NEW w \in Leaf
               PROVE  /\ depends[w] = Cardinality(Unresolved(w)) /\ IsFiniteSet(Unresolved(w))
                      /\ Cardinality(Unresolved(w)) \in Nat
    OBVIOUS
  <2>1. Unresolved(w) \in SUBSET E
    BY DEF Unresolved
  <2>2. IsFiniteSet(Unresolved(w))
    BY <1>5, <2>1, FS_Subset
  <2> QED
    BY <1>3, <2>2, FS_CardinalityType DEF Sorted
<1>10. ASSUME NEW w \in Leaf
       PROVE  /\ <<v, w>> \in E =>
                   <<v, w>> \in Unresolved(w) /\ Unresolved(w)' = Unresolved(w) \ {<<v, w>>}
              /\ <<v, w>> \notin E => Unresolved(w)' = Unresolved(w)
  <2>1. Unresolved(w)' = {e \in E : e[2] = w /\ e[1] \notin P \cup {v}}
    BY <1>2, <1>7 DEF Unresolved
  <2>2. Unresolved(w) = {e \in E : e[2] = w /\ e[1] \notin P}
    BY DEF Unresolved
  <2>3. \A e \in E : e = <<e[1], e[2]>>
    BY <1>5
  <2> QED
    BY <1>8, <2>1, <2>2, <2>3
<1>11. \A w \in Leaf : depends'[w] = Cardinality(Unresolved(w)') /\ depends'[w] \in Nat
  <2> SUFFICES ASSUME NEW w \in Leaf
               PROVE  depends'[w] = Cardinality(Unresolved(w)') /\ depends'[w] \in Nat
    OBVIOUS
  <2>1. CASE <<v, w>> \in E
    <3>1. Cardinality(Unresolved(w)') = Cardinality(Unresolved(w)) - 1
      BY <1>9, <1>10, <2>1, FS_RemoveElement
    <3>2. IsFiniteSet(Unresolved(w) \ {<<v, w>>})
      BY <1>9, FS_RemoveElement
    <3>3. Cardinality(Unresolved(w)') \in Nat
      BY <1>10, <2>1, <3>2, FS_CardinalityType
    <3>4. depends'[w] = depends[w] - 1
      BY <1>1, <2>1
    <3> QED
      BY <1>9, <3>1, <3>3, <3>4
  <2>2. CASE <<v, w>> \notin E
    <3>1. depends'[w] = depends[w]
      BY <1>1, <2>2
    <3> QED
      BY <1>9, <1>10, <2>2, <3>1
  <2> QED
    BY <2>1, <2>2
<1>12. ASSUME NEW w \in Leaf
       PROVE  w \in Graph!Resolved(v) <=> <<v, w>> \in E /\ Graph!DependsOn(w) \subseteq P \cup {v}
  <2>1. w \in Graph!Resolved(v) <=> <<v, w>> \in E /\ Cardinality(Unresolved(w)) = 1
    BY <1>9 DEF Graph!Resolved
  <2>2. <<v, w>> \in E => (Cardinality(Unresolved(w)) = 1 <=> Unresolved(w) = {<<v, w>>})
    <3>1. Cardinality(Unresolved(w)) = 1 <=> \E e : Unresolved(w) = {e}
      BY <1>9, FS_Singleton
    <3> QED
      BY <1>10, <3>1
  <2>3. \A u : u \in Graph!DependsOn(w) <=> <<u, w>> \in E
    BY <1>5 DEF Graph!DependsOn
  <2>4. \A u : <<u, w>> \in Unresolved(w) <=> <<u, w>> \in E /\ u \notin P
    BY DEF Unresolved
  <2>5. \A e \in Unresolved(w) : e = <<e[1], w>>
    BY <1>5 DEF Unresolved
  <2>6. <<v, w>> \in E => (Unresolved(w) = {<<v, w>>} <=> Graph!DependsOn(w) \subseteq P \cup {v})
    <3>1. ASSUME Unresolved(w) = {<<v, w>>}, NEW u \in Graph!DependsOn(w), u \notin P PROVE u = v
      <4>1. <<u, w>> \in {<<v, w>>}
        BY <2>3, <2>4, <3>1
      <4> QED
        BY <4>1
    <3>2. ASSUME Graph!DependsOn(w) \subseteq P \cup {v}, <<v,
                 w>> \in E PROVE Unresolved(w) = {<<v, w>>}
      <4>1. \A e \in Unresolved(w) : e = <<v, w>>
        <5> SUFFICES ASSUME NEW e \in Unresolved(w) PROVE e[1] = v
          BY <2>5
        <5>1. <<e[1], w>> \in Unresolved(w)
          BY <2>5
        <5> QED
          BY <2>3, <2>4, <3>2, <5>1
      <4>2. <<v, w>> \in Unresolved(w)
        BY <1>10, <3>2
      <4> QED
        BY <4>1, <4>2
    <3> QED
      BY <3>1, <3>2
  <2> QED
    BY <2>1, <2>2, <2>6
<1>13. queue' = Performable'
  <2>1. \A u : Graph!DependsOn(u)' = Graph!DependsOn(u)
    BY <1>2 DEF Graph!DependsOn
  <2>2. Performable' = {u \in V : u \notin P \cup {v} /\ Graph!DependsOn(u) \subseteq P \cup {v}}
    BY <1>2, <1>7, <2>1 DEF Performable
  <2>3. queue = {u \in V : u \notin P /\ Graph!DependsOn(u) \subseteq P}
    BY <1>3 DEF Sorted, Performable
  <2>4. Graph!Resolved(v) \subseteq Leaf
    BY DEF Graph!Resolved
  <2>5. \A u : u \in Graph!DependsOn(u) <=> <<u, u>> \in E /\ u \in V
    BY DEF Graph!DependsOn
  <2>6. \A w \in Leaf : <<v, w>> \in E => w \in V /\ v \in Graph!DependsOn(w)
    BY <1>5 DEF Graph!DependsOn
  <2>7. \A w \in P : Graph!DependsOn(w) \subseteq P
    <3> SUFFICES ASSUME NEW j \in DOMAIN performed PROVE Graph!DependsOn(performed[j]) \subseteq P
      BY DEF Graph!Elements
    <3>1. Graph!DependsOn(performed[j]) \subseteq {performed[i] : i \in 1 .. j - 1}
      BY <1>3 DEF Sorted
    <3>2. 1 .. j - 1 \subseteq DOMAIN performed
      BY <1>6
    <3> QED
      BY <3>1, <3>2 DEF Graph!Elements
  <2>8. ASSUME NEW w \in queue' PROVE w \in Performable'
    <3>1. CASE w \in queue \ {v}
      BY <2>2, <2>3, <3>1
    <3>2. CASE w \in Graph!Resolved(v)
      <4>1. /\ <<v, w>> \in E /\ Graph!DependsOn(w) \subseteq P \cup {v} /\ w \in V
            /\ v \in Graph!DependsOn(w)
        BY <1>12, <2>4, <2>6, <3>2
      <4>2. w # v
        BY <1>5, <4>1
      <4>3. w \notin P
        BY <1>8, <2>7, <4>1
      <4> QED
        BY <2>2, <4>1, <4>2, <4>3
    <3> QED
      BY <1>1, <3>1, <3>2
  <2>9. ASSUME NEW w \in Performable' PROVE w \in queue'
    <3>1. w \in V /\ w \notin P /\ w # v /\ Graph!DependsOn(w) \subseteq P \cup {v} /\ w \in Leaf
      BY <1>5, <2>2
    <3>2. CASE v \in Graph!DependsOn(w)
      <4>1. <<v, w>> \in E
        BY <3>2 DEF Graph!DependsOn
      <4> QED
        BY <1>1, <1>12, <3>1, <4>1
    <3>3. CASE v \notin Graph!DependsOn(w)
      BY <1>1, <2>3, <3>1, <3>3
    <3> QED
      BY <3>2, <3>3
  <2> QED
    BY <2>8, <2>9
<1>14. \A j \in DOMAIN performed' :
         (Graph!DependsOn(performed[j]) \subseteq {performed[i] : i \in 1 .. j - 1})'
  <2> SUFFICES ASSUME NEW j \in DOMAIN performed'
               PROVE  Graph!DependsOn(performed'[j]) \subseteq {performed'[i] : i \in 1 .. j - 1}
    BY <1>2 DEF Graph!DependsOn
  <2>1. CASE j = Len(performed) + 1
    <3>1. P = {performed'[i] : i \in 1 .. j - 1}
      BY <1>6, <2>1 DEF Graph!Elements
    <3> QED
      BY <1>6, <1>8, <2>1, <3>1
  <2>2. CASE j # Len(performed) + 1
    <3>1. j \in DOMAIN performed /\ performed'[j] = performed[j]
          /\ \A i \in 1 .. j - 1 : performed'[i] = performed[i]
      BY <1>6, <2>2
    <3>2. {performed'[i] : i \in 1 .. j - 1} = {performed[i] : i \in 1 .. j - 1}
      BY <3>1
    <3> QED
      BY <1>3, <3>1, <3>2 DEF Sorted
  <2> QED
    BY <2>1, <2>2
<1>15. \A i, j \in DOMAIN performed' : i # j => performed'[i] # performed'[j]
  <2>1. \A i \in DOMAIN performed : performed[i] \in P
    BY DEF Graph!Elements
  <2>2. \A i, j \in DOMAIN performed : i # j => performed[i] # performed[j]
    BY <1>3 DEF Sorted
  <2>3. \A i \in DOMAIN performed' : i \in DOMAIN performed \/ i = Len(performed) + 1
    BY <1>6
  <2> QED
    BY <1>6, <1>8, <2>1, <2>2, <2>3
<1>16. Sorted'
  <2>1. Graph!Elements(performed') \subseteq built'.vertices
    BY <1>2, <1>7, <1>8
  <2> QED
    BY <1>11, <1>13, <1>14, <1>15, <2>1 DEF Sorted
<1>17. Graph!TypeOK'
  <2>1. /\ {edges, declared}' \subseteq [Graph!Node -> SUBSET (Graph!Node \X Graph!Node)]
        /\ kind' \in [Container -> Graph!Kinds]
        /\ \A n \in Container : members'[n] \in Seq(Graph!Node)
    BY <1>4 DEF Structure
  <2>2. depends' \in [Leaf -> Nat]
    BY <1>1, <1>11
  <2>3. queue' \in SUBSET Leaf
    BY <1>2, <1>5, <1>13 DEF Performable
  <2> QED
    BY <1>2, <1>3, <1>6, <2>1, <2>2, <2>3 DEF Graph!TypeOK
<1> QED
  BY <1>2, <1>3, <1>4, <1>16, <1>17 DEF DelayableInv
-----------------------------------------------------------------------------

LEMMA InvStep ==
  ASSUME Graph!DelayablesAssumption, DelayableInv, [Graph!Next]_(Graph!vars)
  PROVE  DelayableInv'
<1>1. CASE UNCHANGED Graph!vars
  <2>1. /\ UNCHANGED <<kind, members, edges, declared, onDone>> /\ existing' = existing
        /\ phase' = phase /\ root' = root /\ built' = built /\ generated' = generated
        /\ stored' = stored
        /\ queue' = queue /\ depends' = depends /\ performed' = performed
    BY <1>1 DEF Graph!vars, Graph!graphVars, Graph!jobVars, Graph!directVars
  <2>2. Structure' /\ Graph!Consistent' /\ Graph!TypeOK'
    <3>1. Structure' /\ Graph!Consistent'
      BY <2>1, StructureSame, GraphSame DEF DelayableInv
    <3>2. Graph!TypeOK'
      BY <2>1 DEF DelayableInv, Graph!TypeOK
    <3> QED
      BY <3>1, <3>2
  <2>3. Delayed'
    <3>1. \A n : Graph!connect_graphs(n)' = Graph!connect_graphs(n)
      BY <2>1, GraphSame
    <3>2. Graph!Created' = Graph!Created
      BY <2>1, GraphSame
    <3> QED
      BY <2>1, <3>1, <3>2 DEF Delayed, DelayableInv
  <2>4. Sorted' = Sorted
    BY <2>1 DEF Sorted, Performable, Unresolved, Graph!DependsOn
  <2> QED
    BY <2>1, <2>2, <2>3, <2>4 DEF DelayableInv
<1>2. ASSUME NEW g \in Container, Graph!group(g) \/ Graph!chain(g) PROVE DelayableInv'
  BY <1>2, GroupStep, ChainStep
<1>3. ASSUME NEW n \in Graph!Node, NEW m \in Graph!Node, Graph!on_done(n, m) PROVE DelayableInv'
  BY <1>3, OnDoneStep
<1>4. ASSUME NEW n \in Graph!Node,
             Graph!delay(n) \/ Graph!delay_existing(n) \/ Graph!execute_graph_direct(n)
      PROVE  DelayableInv'
  BY <1>4, DelayStep, DirectGraphStep
<1>5. ASSUME NEW v \in Leaf, Graph!execute_direct(v) PROVE DelayableInv'
  BY <1>5, PerformStep
<1> QED
  BY <1>1, <1>2, <1>3, <1>4, <1>5 DEF Graph!Next

LEMMA SortIsComplete ==
  ASSUME Graph!DelayablesAssumption, DelayableInv, phase = "direct", queue = {}
  PROVE  Graph!Elements(performed) = built.vertices
<1> DEFINE P == Graph!Elements(performed)
           V == built.vertices
           C == Graph!Closure[built.edges]
           Before(u) == {l \in Leaf : <<l, u>> \in C}
           S == {k \in Nat : \E u \in V \ P : Cardinality(Before(u)) = k}
<1>1. Sorted /\ P \subseteq V
  BY DEF DelayableInv, Sorted
<1> SUFFICES ASSUME NEW z \in V \ P PROVE FALSE
  BY <1>1
<1>2. /\ built.edges \subseteq C /\ C \subseteq Pairs /\ Transitive(C) /\ Graph!Acyclic(C)
      /\ built.edges \subseteq V \X V /\ V \subseteq Leaf
  BY BuiltAcyclic DEF DelayableInv
<1> HIDE DEF C
<1>3. \A u : IsFiniteSet(Before(u)) /\ Cardinality(Before(u)) \in Nat
  <2> SUFFICES ASSUME NEW u PROVE IsFiniteSet(Before(u)) /\ Cardinality(Before(u)) \in Nat
    OBVIOUS
  <2>2. IsFiniteSet(Before(u))
    BY FiniteNodes, FS_Subset
  <2> QED
    BY <2>2, FS_CardinalityType
<1>4. S \in SUBSET Nat /\ S # {}
  <2> HIDE DEF Before
  <2>1. Cardinality(Before(z)) \in S
    BY <1>3
  <2> QED
    BY <2>1
<1>5. PICK k \in S : \A j \in S : k <= j
  BY <1>4, LeastNumber
<1>6. PICK u \in V \ P : Cardinality(Before(u)) = k
  BY <1>5
<1>7. PICK w \in V : <<w, u>> \in built.edges /\ w \notin P
  <2>1. u \notin Performable
    BY <1>1 DEF Sorted
  <2> QED
    BY <1>6, <2>1 DEF Performable, Graph!DependsOn
<1>8. Before(w) \subseteq Before(u) /\ w \in Before(u) /\ w \notin Before(w)
  <2>1. w \in Leaf /\ u \in Leaf /\ <<w, u>> \in C
    BY <1>2, <1>7
  <2>2. \A l \in Leaf : <<l, w>> \in C => <<l, u>> \in C
    BY <1>2, <2>1 DEF Transitive
  <2>3. <<w, w>> \notin C
    BY <1>2, <2>1 DEF Graph!Acyclic
  <2> QED
    BY <2>1, <2>2, <2>3
<1> HIDE DEF Before
<1>9. Cardinality(Before(w)) < Cardinality(Before(u))
  <2>1. Before(w) \in SUBSET Before(u) /\ Before(w) # Before(u)
    BY <1>8
  <2>2. /\ Cardinality(Before(w)) <= Cardinality(Before(u))
        /\ Cardinality(Before(w)) # Cardinality(Before(u))
    BY <1>3, <2>1, FS_Subset
  <2> QED
    BY <1>3, <2>2
<1>10. Cardinality(Before(w)) \in S
  BY <1>3, <1>7
<1>11. k <= Cardinality(Before(w)) /\ k \in Nat
  BY <1>5, <1>10
<1> QED
  BY <1>3, <1>6, <1>9, <1>11

LEMMA InvProperties ==
  ASSUME Graph!DelayablesAssumption, DelayableInv
  PROVE  /\ Graph!TypeOK /\ Graph!GraphIsIntended /\ Graph!ParentsAreStored
         /\ Graph!DirectIsTopological
<1>1. Graph!GraphIsIntended
  BY DelayedIntended DEF DelayableInv
<1>2. Graph!ParentsAreStored
  <2>1. \A v : Graph!DependsOn(v) \subseteq built.vertices
    BY DEF Graph!DependsOn
  <2> QED
    BY <2>1 DEF Graph!ParentsAreStored, DelayableInv
<1>3. Graph!DirectIsTopological
  BY SortIsComplete DEF Graph!DirectIsTopological, DelayableInv, Sorted
<1> QED
  BY <1>1, <1>2, <1>3 DEF DelayableInv

\* delay.py: the inductive invariant of the graphs of delayables, while they are put
\* together, when they are delayed and while their jobs are performed at once.
THEOREM DelayableInvariant == Graph!DelayablesAssumption => (Graph!Spec => []DelayableInv)
<1> SUFFICES ASSUME Graph!DelayablesAssumption PROVE Graph!Spec => []DelayableInv
  OBVIOUS
<1>1. Graph!Init => DelayableInv
  BY InitInv
<1>2. DelayableInv /\ [Graph!Next]_(Graph!vars) => DelayableInv'
  BY InvStep
<1> QED
  BY <1>1, <1>2, PTL DEF Graph!Spec
-----------------------------------------------------------------------------
(* The properties in the behaviours of MCJobGraphs *)

LEMMA DelayablesRun == GraphsSpec => Graph!Spec
<1>1. GraphsInit => Graph!Init
  BY DEF GraphsInit
<1>2. [GraphsNext]_graphVars => [Graph!Next]_(Graph!vars)
  BY DEF GraphsNext, graphVars, delayableVars, Graph!vars, Graph!graphVars,
         Graph!jobVars, Graph!directVars
<1> QED
  BY <1>1, <1>2, PTL DEF GraphsSpec, Graph!Spec

LEMMA DependenciesRun == GraphsSpec => Spec
<1>1. GraphsInit => Init
  BY DEF GraphsInit
<1>2. [GraphsNext]_graphVars => [Next]_vars
  BY DEF GraphsNext, graphVars
<1> QED
  BY <1>1, <1>2, PTL DEF GraphsSpec, Spec

LEMMA GraphsInvariant == GraphsSpec => []DelayableInv
<1>1. Graph!DelayablesAssumption
  BY Constants
<1> QED
  BY <1>1, DelayableInvariant, DelayablesRun, PTL

LEMMA InvariantTells ==
  DelayableInv => /\ Graph!TypeOK /\ Graph!GraphIsIntended
                  /\ Graph!ParentsAreStored /\ Graph!DirectIsTopological
BY Constants, InvProperties

\* delay.py, _connect_graphs and _merge_graph: the jobs follow each other as chains, groups
\* and on_done ask, never more, and exactly so unless a chain is nested at the end of a chain.
THEOREM GraphsAreIntended == GraphsSpec => []GraphIsIntended
<1>1. DelayableInv => GraphIsIntended
  BY InvariantTells DEF GraphIsIntended
<1> QED
  BY <1>1, GraphsInvariant, PTL

\* delay.py, _ensure_same_graph_uuid and the identity keys in delay: a graph is stored
\* with all the parents of its jobs.
THEOREM ParentsComeAlong == GraphsSpec => []ParentsAreStored
<1>1. DelayableInv => ParentsAreStored
  BY InvariantTells DEF ParentsAreStored
<1> QED
  BY <1>1, GraphsInvariant, PTL

\* delay.py, _execute_graph_direct and topological_sort: each job is performed once, after
\* all its parents, and none is left out.
THEOREM DirectOrder == GraphsSpec => []DirectIsTopological
<1>1. DelayableInv => DirectIsTopological
  BY InvariantTells DEF DirectIsTopological
<1> QED
  BY <1>1, GraphsInvariant, PTL

\* The types of both components.
THEOREM TypeCorrectness == GraphsSpec => []TypesOK
<1>1. DependenciesAssumption
  BY Constants
<1>2. Spec => []Isolation
  BY <1>1, Invariance, PTL
<1>3. Isolation => TypeOK
  BY DEF Isolation
<1>4. DelayableInv /\ TypeOK => TypesOK
  BY InvariantTells DEF TypesOK
<1> QED
  BY <1>2, <1>3, <1>4, DependenciesRun, GraphsInvariant, PTL
=============================================================================
