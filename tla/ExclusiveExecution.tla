------------------------- MODULE ExclusiveExecution -------------------------
(***************************************************************************)
(* What the locks of queue_job promise for the execution of jobs: at most  *)
(* one worker performs a job at a time, and the work of a job is committed *)
(* only by the worker that performs it.                                    *)
(***************************************************************************)
EXTENDS Naturals

CONSTANTS Job, Worker

VARIABLES
  performers,  \* the workers that perform a job
  effects      \* how often its work was committed since it was last reset

exclusiveVars == <<performers, effects>>

Init == /\ performers = [j \in Job |-> {}]
        /\ effects = [j \in Job |-> 0]

\* A worker begins when nobody else performs the job.
Begin(w, j) == /\ performers[j] = {}
               /\ performers' = [performers EXCEPT ![j] = {w}]
               /\ UNCHANGED effects

\* The only performer ends and commits the work of the job.
Complete(w, j) == /\ performers[j] = {w}
                  /\ performers' = [performers EXCEPT ![j] = {}]
                  /\ effects' = [effects EXCEPT ![j] = @ + 1]

\* The only performer ends, its work is rolled back.
Abandon(w, j) == /\ performers[j] = {w}
                 /\ performers' = [performers EXCEPT ![j] = {}]
                 /\ UNCHANGED effects

\* A user asks for the job to be run again.
Reset(j) == /\ effects' = [effects EXCEPT ![j] = 0]
            /\ UNCHANGED performers

Next == \E j \in Job : \/ Reset(j)
                       \/ \E w \in Worker : \/ Begin(w, j)
                                            \/ Complete(w, j)
                                            \/ Abandon(w, j)

Spec == Init /\ [][Next]_exclusiveVars

=============================================================================
