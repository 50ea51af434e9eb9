--------------------------- MODULE Channels_proofs ---------------------------
(***************************************************************************)
(* Proofs about Channels, for any finite sets of jobs and channels, any    *)
(* tree of channels with any capacities, throttles and sequential          *)
(* channels, and any bounds.                                               *)
(***************************************************************************)
EXTENDS Channels, FiniteSetTheorems, WellFoundedInduction, TLAPS

\* A row that is enqueued or started runs in every channel on its way, so that
\* no slot is given away twice.
ActiveIsRunning ==
  \A j \in Job : row[j] = "active" => \A c \in Path[ChannelOf[j]] : j \in running[c]

\* What the channels count is within the capacities.
RunningBounded ==
  \A c \in Channel : Capacity[c] # 0 => Cardinality(running[c]) <= Capacity[c]

\* The channel of a failed job knows that it has failed, or still counts it as
\* running and is about to know.
FailedIsKnown ==
  \A j \in Job : row[j] = "failed" =>
    \/ j \in failed[ChannelOf[j]]
    \/ j \in running[ChannelOf[j]] /\ notified[j]

\* A sequential channel that knows of a failure has nothing running.
FailureStops ==
  \A c \in Sequential : failed[c] # {} => running[c] = {}

\* Only a throttled channel is ever paused.
PausesAreThrottles ==
  \A c \in Channel : Throttle[c] = 0 => pause[c] = 0

\* The generator of the channel has ended in this poll.
Ended(c) == phase = "wait" \/ (phase = "poll" /\ PollOrder[c] < at)

\* A channel that has been polled does not ask for a time that is already past.
PolledIsSettled ==
  \A c \in Channel : Ended(c) =>
    /\ pause[c] # 0 => pollTime < pause[c]
    /\ pause[c] = 0 /\ has_capacity(c) => \A j \in etaQueue[c] : pollTime < jobEta[j]

\* The inductive invariant.
IInv == /\ TypeOK
        /\ JobsFlow
        /\ ActiveIsRunning
        /\ RunningBounded
        /\ SlotsAreFreed
        /\ FailedIsKnown
        /\ FailureStops
        /\ PausesAreThrottles
        /\ PolledIsSettled

-----------------------------------------------------------------------------
(* The tree of channels *)

\* A set of channels that has the channel downstream of each of its members.
Closed(S) == /\ S \subseteq Channel
             /\ \A c \in S \ {Root} : Parent[c] \in S

\* What Path computes, without a recursion: the least closed set.
Downstream(c) == {d \in Channel : \A S : Closed(S) /\ c \in S => d \in S}

LEMMA DownstreamEquation ==
  ASSUME NEW c \in Channel
  PROVE  Downstream(c) = IF c = Root THEN {Root} ELSE {c} \cup Downstream(Parent[c])
<1>1. CASE c = Root
  <2>1. Closed({Root})
    BY ChannelsAssumption DEF Closed
  <2>2. QED
    BY <1>1, <2>1, ChannelsAssumption DEF Downstream
<1>2. CASE c # Root
  <2> DEFINE S == {c} \cup Downstream(Parent[c])
  <2>1. Parent[c] \in Channel
    BY <1>2, ChannelsAssumption
  <2>2. Closed(S)
    <3> SUFFICES ASSUME NEW d \in S \ {Root} PROVE Parent[d] \in S
      BY DEF Closed, Downstream
    <3>1. Parent[d] \in Channel
      BY ChannelsAssumption DEF Downstream
    <3>2. CASE d = c
      BY <3>1, <3>2 DEF Downstream
    <3>3. CASE d # c
      BY <3>1, <3>3 DEF Downstream, Closed
    <3>4. QED
      BY <3>2, <3>3
  <2>3. Downstream(c) \subseteq S
    BY <2>2 DEF Downstream
  <2>4. \A T : Closed(T) /\ c \in T => Parent[c] \in T
    BY <1>2 DEF Closed
  <2>5. S \subseteq Downstream(c)
    BY <2>4 DEF Downstream
  <2>6. QED
    BY <1>2, <2>3, <2>5
<1>3. QED
  BY <1>1, <1>2

\* The recursion has a solution: Path is a function that satisfies its equation.
LEMMA PathEquation ==
  Path = [c \in Channel |-> IF c = Root THEN {Root} ELSE {c} \cup Path[Parent[c]]]
<1> DEFINE P == [c \in Channel |-> Downstream(c)]
<1>1. P = [c \in Channel |-> IF c = Root THEN {Root} ELSE {c} \cup P[Parent[c]]]
  <2>1. \A c \in Channel : P[c] = IF c = Root THEN {Root} ELSE {c} \cup P[Parent[c]]
    <3> SUFFICES ASSUME NEW c \in Channel
                 PROVE  P[c] = IF c = Root THEN {Root} ELSE {c} \cup P[Parent[c]]
      OBVIOUS
    <3>1. c # Root => P[Parent[c]] = Downstream(Parent[c])
      BY ChannelsAssumption
    <3>2. QED
      BY <3>1, DownstreamEquation
  <2>2. QED
    BY <2>1
<1>2. \E Q : Q = [c \in Channel |-> IF c = Root THEN {Root} ELSE {c} \cup Q[Parent[c]]]
  <2> HIDE DEF P
  <2> QED BY <1>1
<1>3. QED
  BY <1>2, Zenon DEF Path

\* A channel of a nonempty set is polled last.
LEMMA LastPolled ==
  ASSUME NEW B, B \subseteq Channel, B # {}
  PROVE  \E m \in B : \A b \in B : PollOrder[b] <= PollOrder[m]
<1> DEFINE R == OpToRel(<, Nat)
           N == Cardinality(Channel)
           T == {N - PollOrder[b] : b \in B}
<1>1. N \in Nat
  BY FS_CardinalityType, ChannelsAssumption
<1>2. \A b \in Channel : PollOrder[b] \in 1..N
  BY ChannelsAssumption
<1>3. T \subseteq Nat /\ T # {}
  <2> HIDE DEF N
  <2> QED BY <1>1, <1>2
<1>4. PICK t \in T : \A y \in T : ~(<<y, t>> \in R)
  <2> HIDE DEF R, T
  <2>1. IsWellFoundedOn(R, Nat)
    BY NatLessThanWellFounded DEF R
  <2>2. QED
    BY <2>1, <1>3, WFMin
<1>5. \A y \in T : t <= y
  <2> HIDE DEF T
  <2> SUFFICES ASSUME NEW y \in T PROVE t <= y
    OBVIOUS
  <2>1. ~(y < t)
    BY <1>3, <1>4 DEF OpToRel
  <2>2. QED
    BY <2>1, <1>3
<1>6. PICK m \in B : t = N - PollOrder[m]
  OBVIOUS
<1>7. ASSUME NEW b \in B PROVE PollOrder[b] <= PollOrder[m]
  <2>1. N - PollOrder[m] <= N - PollOrder[b]
    BY <1>5, <1>6
  <2> HIDE DEF N
  <2>2. QED
    BY <2>1, <1>1, <1>2
<1>8. QED
  BY <1>7

\* Path is the least closed set: an induction along the order of the polls.
LEMMA PathMeaning == ASSUME NEW c \in Channel PROVE Path[c] = Downstream(c)
<1> DEFINE Bad == {d \in Channel : Path[d] # Downstream(d)}
<1>1. SUFFICES ASSUME Bad # {} PROVE FALSE
  OBVIOUS
<1>2. PICK m \in Bad : \A b \in Bad : PollOrder[b] <= PollOrder[m]
  <2> HIDE DEF Bad
  <2>1. Bad \subseteq Channel
    BY DEF Bad
  <2>2. QED
    BY <1>1, <2>1, LastPolled
<1>3. CASE m = Root
  BY <1>2, <1>3, PathEquation, DownstreamEquation
<1>4. CASE m # Root
  <2>1. Parent[m] \in Channel /\ PollOrder[m] < PollOrder[Parent[m]]
    BY <1>4, ChannelsAssumption
  <2>2. PollOrder[m] \in Int /\ PollOrder[Parent[m]] \in Int
    BY <2>1, ChannelsAssumption
  <2>3. Parent[m] \notin Bad
    BY <1>2, <2>1, <2>2
  <2>4. Path[Parent[m]] = Downstream(Parent[m])
    BY <2>1, <2>3
  <2>5. QED
    BY <1>4, <2>4, PathEquation, DownstreamEquation
<1>5. QED
  BY <1>3, <1>4

LEMMA PathFacts ==
  ASSUME NEW c \in Channel
  PROVE  /\ Path[c] \subseteq Channel
         /\ c \in Path[c]
         /\ \A d \in Path[c] : d # Root => Parent[d] \in Path[c]
         /\ c # Root => Path[c] = {c} \cup Path[Parent[c]]
<1>1. c \in Path[c] /\ Path[c] \subseteq Channel
  BY PathMeaning DEF Downstream
<1>2. ASSUME NEW d \in Path[c], d # Root PROVE Parent[d] \in Path[c]
  BY <1>2, PathMeaning, ChannelsAssumption DEF Downstream, Closed
<1>3. QED
  BY <1>1, <1>2, PathEquation

\* The channels of a path are in every closed set that has the first one.
LEMMA PathLeast ==
  ASSUME NEW c \in Channel, NEW S, Closed(S), c \in S
  PROVE  Path[c] \subseteq S
BY PathMeaning DEF Downstream

\* A path goes forward in the order of the polls.
LEMMA PathForward ==
  ASSUME NEW c \in Channel, NEW d \in Path[c]
  PROVE  PollOrder[c] <= PollOrder[d] 
<1> DEFINE S == {e \in Channel : PollOrder[c] <= PollOrder[e]}
<1>1. \A e \in Channel : PollOrder[e] \in Int
  BY ChannelsAssumption
<1>2. Closed(S)
  <2> SUFFICES ASSUME NEW e \in S \ {Root} PROVE Parent[e] \in S
    BY DEF Closed
  <2>1. Parent[e] \in Channel /\ PollOrder[e] < PollOrder[Parent[e]]
    BY ChannelsAssumption
  <2>2. QED
    BY <2>1, <1>1
<1>3. c \in S
  BY <1>1
<1>4. QED
  BY <1>2, <1>3, PathLeast

\* No channel is downstream of itself.
LEMMA PathAcyclic ==
  ASSUME NEW c \in Channel, NEW d \in Path[c], d # Root
  PROVE  Parent[d] # c
<1>1. d \in Channel
  BY PathFacts
<1>2. PollOrder[d] < PollOrder[Parent[d]] /\ PollOrder[d] \in Int /\ PollOrder[c] \in Int
  BY <1>1, ChannelsAssumption
<1>3. PollOrder[c] <= PollOrder[d]
  BY PathForward
<1>4. QED
  BY <1>2, <1>3

\* Every path ends at the root, which is polled last.
LEMMA RootIsLast ==
  ASSUME NEW c \in Channel
  PROVE  Root \in Path[c] /\ (c # Root => PollOrder[c] < PollOrder[Root])
<1>1. Root \in Path[c]
  <2>1. PICK m \in Path[c] : \A b \in Path[c] : PollOrder[b] <= PollOrder[m]
    BY PathFacts, LastPolled
  <2>2. SUFFICES ASSUME m # Root PROVE FALSE
    BY <2>1
  <2>3. Parent[m] \in Path[c] /\ Parent[m] \in Channel /\ m \in Channel
    BY <2>2, PathFacts
  <2>4. PollOrder[m] < PollOrder[Parent[m]] /\ PollOrder[m] \in Int /\ PollOrder[Parent[m]] \in Int
    BY <2>2, <2>3, ChannelsAssumption
  <2>5. QED
    BY <2>1, <2>3, <2>4
<1>2. ASSUME c # Root PROVE PollOrder[c] < PollOrder[Root]
  <2>1. PollOrder[c] <= PollOrder[Root] /\ PollOrder[c] # PollOrder[Root]
    BY <1>1, <1>2, PathForward, ChannelsAssumption
  <2>2. PollOrder[c] \in Int /\ PollOrder[Root] \in Int
    BY ChannelsAssumption
  <2>3. QED
    BY <2>1, <2>2
<1>3. QED
  BY <1>1, <1>2

\* A path does not branch: two of its channels have different parents.
LEMMA PathIsLine ==
  ASSUME NEW o \in Channel, NEW c \in Path[o], NEW d \in Path[o],
         c # Root, d # Root, Parent[c] = Parent[d]
  PROVE  c = d
<1>1. c \in Channel /\ d \in Channel
  BY PathFacts
<1> DEFINE S == {e \in Channel : d \in Path[e] \/ e \in Path[d]}
<1>2. Closed(S)
  <2> SUFFICES ASSUME NEW e \in S \ {Root} PROVE Parent[e] \in S
    BY DEF Closed
  <2>1. Parent[e] \in Channel
    BY ChannelsAssumption
  <2>2. CASE e \in Path[d]
    BY <1>1, <2>1, <2>2, PathFacts
  <2>3. CASE e = d
    BY <1>1, <2>1, <2>3, PathFacts
  <2>4. CASE d \in Path[e] /\ e # d
    BY <2>1, <2>4, PathFacts
  <2>5. QED
    BY <2>2, <2>3, <2>4
<1>3. c \in S
  BY <1>2, PathLeast
<1>4. ASSUME NEW e \in Channel, NEW f \in Path[e], e # Root, f # e
      PROVE  f \in Path[Parent[e]]
  BY <1>4, PathFacts
<1>5. ASSUME NEW e \in Channel, e # Root PROVE e \notin Path[Parent[e]]
  <2>1. Parent[e] \in Channel /\ PollOrder[e] < PollOrder[Parent[e]] /\ PollOrder[e] \in Int /\ PollOrder[Parent[e]] \in Int
    BY <1>5, ChannelsAssumption
  <2>2. QED
    BY <2>1, PathForward
<1>6. QED
  BY <1>1, <1>3, <1>4, <1>5

-----------------------------------------------------------------------------
(* Types *)

LEMMA CountOfChannels ==
  /\ Cardinality(Channel) \in Nat \ {0}
  /\ \A c \in Channel : PollOrder[c] \in 1..Cardinality(Channel)
<1>1. Cardinality(Channel) \in Nat
  BY FS_CardinalityType, ChannelsAssumption
<1>2. \A c \in Channel : PollOrder[c] \in 1..Cardinality(Channel)
  BY ChannelsAssumption
<1>3. Root \in Channel
  BY ChannelsAssumption
<1>4. QED
  BY <1>1, <1>2, <1>3

LEMMA SetsType ==
  TypeOK => /\ queue \in [Channel -> SUBSET Job]
            /\ etaQueue \in [Channel -> SUBSET Job]
            /\ running \in [Channel -> SUBSET Job]
            /\ failed \in [Channel -> SUBSET Job]
BY DEF TypeOK

LEMMA PopsReady ==
  ASSUME TypeOK, NEW c \in Channel, NEW j \in Popped(c)
  PROVE  j \in Job /\ j \in queue[c] \cup Due(c)
BY SetsType DEF Popped, Due

LEMMA MoveType ==
  ASSUME TypeOK, NEW j \in Job, NEW P, NEW Q, NEW R, NEW F, NEW eta, Move(j, P, Q, R, F, eta)
  PROVE  {queue, etaQueue, running, failed}' \subseteq [Channel -> SUBSET Job]
BY SetsType DEF Move

LEMMA NextChannelType ==
  ASSUME TypeOK, NEW c \in Channel, Polled(c), NextChannel(c)
  PROVE  phase' \in Phases /\ at' \in 0..Cardinality(Channel) /\ pollTime' \in Nat
<1>1. CASE c = Root
  BY <1>1, CountOfChannels DEF TypeOK, NextChannel, Phases
<1>2. CASE c # Root
  <2>1. Parent[c] \in Channel /\ PollOrder[c] < PollOrder[Parent[c]]
    BY <1>2, ChannelsAssumption
  <2>2. at' = PollOrder[c] + 1 /\ phase' = phase /\ pollTime' = pollTime
    BY <1>2 DEF NextChannel, Polled
  <2>3. QED
    BY <2>1, <2>2, CountOfChannels DEF TypeOK
<1>3. QED
  BY <1>1, <1>2

LEMMA PauseType ==
  ASSUME TypeOK, NEW c \in Channel
  PROVE  Unpaused(c) \in Nat /\ pollTime + Throttle[c] \in Nat
BY ChannelsAssumption DEF TypeOK, Unpaused

LEMMA ChangeType ==
  ASSUME TypeOK, NEW j \in Job, NEW from, NEW to \in States, Change(j, from, to),
         rowEta' \in [Job -> Nat], edits' \in Nat
  PROVE  TypeOK'
BY DEF TypeOK, Change, channelVars, setVars, loopVars

LEMMA InitType == Init => TypeOK
<1> SUFFICES ASSUME Init PROVE TypeOK
  OBVIOUS
<1>1. row \in [Job -> States]
  BY DEF Init, States
<1>2. rowEta \in [Job -> Nat]
  BY ChannelsAssumption DEF Init
<1>3. {queue, etaQueue, running, failed} \subseteq [Channel -> SUBSET Job]
  BY DEF Init
<1>4. QED
  BY <1>1, <1>2, <1>3, CountOfChannels DEF Init, TypeOK, Phases

LEMMA TypeStep == TypeOK /\ [Next]_vars => TypeOK'
<1> SUFFICES ASSUME TypeOK, [Next]_vars PROVE TypeOK'
  OBVIOUS
<1> USE SetsType
<1>1. ASSUME NEW j \in Job, notify(j) PROVE TypeOK'
  <2>1. {queue, etaQueue, running, failed}' \subseteq [Channel -> SUBSET Job]
    <3>1. CASE UNCHANGED setVars
      BY <3>1 DEF setVars
    <3>2. CASE \E P, Q, R, F, eta : Move(j, P, Q, R, F, eta)
      BY <3>2, MoveType
    <3>3. QED
      BY <1>1, <3>1, <3>2, Zenon DEF notify
  <2>2. notified' \in [Job -> BOOLEAN] /\ jobEta' \in [Job -> Nat]
    BY <1>1 DEF notify, TypeOK
  <2>3. UNCHANGED <<row, rowEta, pause, loopVars, now, restarts, edits>>
    BY <1>1 DEF notify
  <2>4. QED
    BY <2>1, <2>2, <2>3 DEF TypeOK, loopVars
<1>2. ASSUME run_jobs PROVE TypeOK'
  BY <1>2, CountOfChannels DEF run_jobs, TypeOK, rowVars, channelVars, setVars, Phases
<1>3. ASSUME NEW c \in Channel, poll_end(c) PROVE TypeOK'
  <2>1. queue' \in [Channel -> SUBSET Job] /\ etaQueue' \in [Channel -> SUBSET Job]
    BY <1>3 DEF poll_end, Due
  <2>2. jobEta' \in [Job -> Nat]
    BY <1>3 DEF poll_end, TypeOK, SetNoEta
  <2>3. pause' \in [Channel -> Nat]
    BY <1>3, PauseType DEF poll_end, TypeOK
  <2>4. phase' \in Phases /\ at' \in 0..Cardinality(Channel) /\ pollTime' \in Nat
    BY <1>3, NextChannelType DEF poll_end
  <2>5. QED
    BY <1>3, <2>1, <2>2, <2>3, <2>4 DEF poll_end, TypeOK, rowVars
<1>4. ASSUME NEW c \in Channel, poll_job(c) PROVE TypeOK'
  <2>1. PICK j \in Popped(c) : poll_job(c)!(j)
    BY <1>4 DEF poll_job
  <2>2. j \in Job
    BY PopsReady
  <2>3. queue' \in [Channel -> SUBSET Job] /\ etaQueue' \in [Channel -> SUBSET Job]
    BY <2>1, <2>2 DEF Due
  <2>4. running' \in [Channel -> SUBSET Job] /\ failed' \in [Channel -> SUBSET Job]
    BY <2>1, <2>2
  <2>5. jobEta' \in [Job -> Nat]
    BY <2>1 DEF TypeOK, SetNoEta
  <2>6. row' \in [Job -> States] /\ notified' \in [Job -> BOOLEAN]
    BY <2>1, <2>2 DEF TypeOK, States
  <2>7. /\ pause' \in [Channel -> Nat]
        /\ phase' \in Phases
        /\ at' \in 0..Cardinality(Channel)
        /\ pollTime' \in Nat
    <3>1. CASE Throttle[c] = 0
      BY <2>1, <3>1 DEF TypeOK, loopVars
    <3>2. CASE Throttle[c] # 0
      BY <2>1, <3>2, PauseType, NextChannelType DEF TypeOK
    <3>3. QED
      BY <3>1, <3>2
  <2>8. UNCHANGED <<rowEta, now, restarts, edits>>
    BY <2>1
  <2>9. QED
    BY <2>3, <2>4, <2>5, <2>6, <2>7, <2>8 DEF TypeOK
<1>5. ASSUME wait_notification PROVE TypeOK'
  BY <1>5 DEF wait_notification, TypeOK, rowVars, channelVars, setVars, Phases
<1>6. ASSUME initialize_databases PROVE TypeOK'
  <2>1. {queue, etaQueue, running, failed}' \subseteq [Channel -> SUBSET Job]
    BY <1>6 DEF initialize_databases
  <2>2. notified' \in [Job -> BOOLEAN] /\ restarts' \in Nat
    BY <1>6 DEF initialize_databases, TypeOK
  <2>3. QED
    BY <1>6, <2>1, <2>2, CountOfChannels DEF initialize_databases, TypeOK, Phases
<1>7. ASSUME Tick PROVE TypeOK'
  BY <1>7 DEF Tick, TypeOK, rowVars, channelVars, setVars, loopVars
<1>8. ASSUME NEW j \in Job, set_done(j) PROVE TypeOK'
  BY <1>8, ChangeType DEF set_done, TypeOK, States
<1>9. ASSUME NEW j \in Job, set_failed(j) PROVE TypeOK'
  BY <1>9, ChangeType DEF set_failed, Edit, TypeOK, States
<1>10. ASSUME NEW j \in Job, retry_postpone(j) PROVE TypeOK'
  <2>1. rowEta' \in [Job -> Nat]
    BY <1>10, ChannelsAssumption DEF retry_postpone, TypeOK
  <2>2. PendingState(j) \in States /\ edits' \in Nat
    BY <1>10 DEF PendingState, States, retry_postpone, Edit, TypeOK
  <2>3. QED
    BY <1>10, <2>1, <2>2, ChangeType DEF retry_postpone
<1>11. ASSUME NEW j \in Job, requeue_dead_jobs(j) PROVE TypeOK'
  BY <1>11, ChangeType DEF requeue_dead_jobs, Edit, TypeOK, States
<1>12. ASSUME NEW j \in Job, enqueue_waiting(j) PROVE TypeOK'
  BY <1>12, ChangeType DEF enqueue_waiting, TypeOK, States
<1>13. ASSUME NEW j \in Job, button_cancelled(j) PROVE TypeOK'
  BY <1>13, ChangeType DEF button_cancelled, Edit, TypeOK, States
<1>14. ASSUME NEW j \in Job, requeue(j) PROVE TypeOK'
  <2>1. PendingState(j) \in States
    BY DEF PendingState, States
  <2>2. QED
    BY <1>14, <2>1, ChangeType DEF requeue, Edit, TypeOK
<1>15. CASE UNCHANGED vars
  BY <1>15 DEF TypeOK, vars, rowVars, channelVars, setVars, loopVars
<1>16. QED
  BY <1>1, <1>2, <1>3, <1>4, <1>5, <1>6, <1>7, <1>8, <1>9, <1>10, <1>11, <1>12, <1>13, <1>14,
     <1>15 DEF Next, Poll

-----------------------------------------------------------------------------
(* The flow of the jobs *)

\* JobsFlow, of one job.
JobFlows(j) ==
  \A c \in Channel :
    /\ j \in queue[c] => j \notin etaQueue[c] /\ j \notin running[c] /\ j \notin failed[c]
    /\ j \in etaQueue[c] => j \notin running[c] /\ j \notin failed[c]
    /\ j \in running[c] => j \notin failed[c]
    /\ In(j, c) => c \in Path[ChannelOf[j]]
    /\ In(j, c) /\ c # ChannelOf[j] => j \notin etaQueue[c] /\ j \notin failed[c]
    /\ c # Root /\ c \in Path[ChannelOf[j]] => (j \in running[c] <=> In(j, Parent[c]))

LEMMA FlowOfJobs == JobsFlow <=> \A j \in Job : JobFlows(j)
BY DEF JobsFlow, JobFlows

\* The channels that hold the job are those of Q, E, R and F.
Held(j, Q, E, R, F) ==
  \A c \in Channel : /\ j \in queue[c] <=> c \in Q
                     /\ j \in etaQueue[c] <=> c \in E
                     /\ j \in running[c] <=> c \in R
                     /\ j \in failed[c] <=> c \in F

\* The job is known to no channel, or to its own, or it runs all the way down.
AtRest(j) ==
  \/ Held(j, {}, {}, {}, {})
  \/ Held(j, {ChannelOf[j]}, {}, {}, {})
  \/ Held(j, {}, {ChannelOf[j]}, {}, {})
  \/ Held(j, {}, {}, Path[ChannelOf[j]], {})
  \/ Held(j, {}, {}, {}, {ChannelOf[j]})

LEMMA RestFlows == \A j \in Job : AtRest(j) => JobFlows(j)
<1> SUFFICES ASSUME NEW j \in Job, AtRest(j) PROVE JobFlows(j)
  OBVIOUS
<1> DEFINE o == ChannelOf[j]
<1>1. o \in Channel
  BY ChannelsAssumption
<1>2. /\ o \in Path[o]
      /\ \A c \in Path[o] : c # Root => Parent[c] \in Path[o] /\ Parent[c] # o
  BY <1>1, PathFacts, PathAcyclic
<1>3. \A c \in Channel : c # Root => Parent[c] \in Channel
  BY ChannelsAssumption
<1>4. QED
  BY <1>1, <1>2, <1>3 DEF AtRest, Held, JobFlows, In

\* The channels hold the job as before.
Stays(j) ==
  \A c \in Channel : /\ j \in queue'[c] <=> j \in queue[c]
                     /\ j \in etaQueue'[c] <=> j \in etaQueue[c]
                     /\ j \in running'[c] <=> j \in running[c]
                     /\ j \in failed'[c] <=> j \in failed[c]

LEMMA StayingFlows ==
  ASSUME NEW j \in Job, JobFlows(j), Stays(j)
  PROVE  JobFlows(j)'
<1>1. \A c \in Channel : c # Root => Parent[c] \in Channel
  BY ChannelsAssumption
<1>2. \A c \in Channel : In(j, c)' <=> In(j, c)
  BY DEF Stays, In
<1>3. QED
  BY <1>1, <1>2 DEF JobFlows, Stays

\* A job that a channel has sent down to the root is running in all the others.
LEMMA RootHolds ==
  ASSUME NEW j \in Job, JobFlows(j), In(j, Root),
         NEW c \in Path[ChannelOf[j]], c # Root
  PROVE  j \in running[c]
<1> DEFINE o == ChannelOf[j]
           S == {d \in Path[o] : ~In(j, d)}
<1>1. o \in Channel /\ Path[o] \subseteq Channel /\ c \in Channel
  BY ChannelsAssumption, PathFacts
<1>2. Parent[c] \in Path[o] /\ Parent[c] \in Channel
  BY <1>1, PathFacts
<1>3. SUFFICES ASSUME j \notin running[c] PROVE FALSE
  OBVIOUS
<1>4. Parent[c] \in S
  BY <1>1, <1>2, <1>3 DEF JobFlows
<1>5. Closed(S)
  <2> SUFFICES ASSUME NEW d \in S \ {Root} PROVE Parent[d] \in S
    BY <1>1 DEF Closed
  <2>1. d \in Channel /\ Parent[d] \in Path[o]
    BY <1>1, PathFacts
  <2>2. ~In(j, Parent[d])
    BY <2>1 DEF JobFlows, In
  <2>3. QED
    BY <2>1, <2>2
<1>6. Root \in S
  <2> HIDE DEF S
  <2> QED BY <1>2, <1>4, <1>5, PathLeast, RootIsLast
<1>7. QED
  BY <1>6

\* notify takes the job out of its path and puts it where the row says.
LEMMA MoveRests ==
  ASSUME TypeOK, JobsFlow, NEW j \in Job, NEW eta,
         \/ Move(j, Path[ChannelOf[j]], {}, {}, {}, eta)
         \/ Move(j, Path[ChannelOf[j]], {ChannelOf[j]}, {}, {}, eta)
         \/ Move(j, Path[ChannelOf[j]], {}, Path[ChannelOf[j]], {}, eta)
         \/ Move(j, Path[ChannelOf[j]], {}, {}, {ChannelOf[j]}, eta)
  PROVE  AtRest(j)' /\ \A k \in Job \ {j} : Stays(k)
<1>1. ASSUME NEW c \in Channel, c \notin Path[ChannelOf[j]]
      PROVE  j \notin queue[c] /\ j \notin etaQueue[c] /\ j \notin running[c] /\ j \notin failed[c]
  BY <1>1, FlowOfJobs DEF JobFlows, In
<1>2. ASSUME NEW Q, NEW R, NEW F, Move(j, Path[ChannelOf[j]], Q, R, F, eta)
      PROVE  /\ eta = 0 => Held(j, Q, {}, R, F)'
             /\ eta # 0 => Held(j, {}, Q, R, F)'
             /\ \A k \in Job \ {j} : Stays(k)
  BY <1>1, <1>2, SetsType DEF Move, Held, Stays
<1>3. QED
  BY <1>2 DEF AtRest

\* What each step does to the flow of a job.
LEMMA FlowStep == TypeOK /\ JobsFlow /\ [Next]_vars => JobsFlow'
<1> SUFFICES ASSUME TypeOK, JobsFlow, [Next]_vars PROVE JobsFlow'
  OBVIOUS
<1>0. /\ \A j \in Job : JobFlows(j)
      /\ (\A j \in Job : AtRest(j) => JobFlows(j))'
      /\ (\A j \in Job : JobFlows(j))' => JobsFlow'
  <2>1. (JobsFlow <=> \A j \in Job : JobFlows(j))'
    BY FlowOfJobs, PTL
  <2>2. (\A j \in Job : AtRest(j) => JobFlows(j))'
    BY RestFlows, PTL
  <2>3. QED
    BY <2>1, <2>2, FlowOfJobs
<1>1. ASSUME \A j \in Job : Stays(j) \/ AtRest(j)' PROVE JobsFlow'
  BY <1>0, <1>1, StayingFlows
<1>2. ASSUME UNCHANGED channelVars PROVE JobsFlow'
  <2>1. \A j \in Job : Stays(j)
    BY <1>2 DEF Stays, channelVars, setVars
  <2>2. QED
    BY <1>1, <2>1
<1>3. ASSUME NEW j \in Job, notify(j) PROVE JobsFlow'
  <2>1. CASE UNCHANGED setVars
    <3>1. \A k \in Job : Stays(k)
      BY <2>1 DEF Stays, setVars
    <3>2. QED
      BY <1>1, <3>1
  <2>2. CASE ~UNCHANGED setVars
    <3>1. \E eta :
         \/ Move(j, Path[ChannelOf[j]], {}, {}, {}, eta)
         \/ Move(j, Path[ChannelOf[j]], {ChannelOf[j]}, {}, {}, eta)
         \/ Move(j, Path[ChannelOf[j]], {}, Path[ChannelOf[j]], {}, eta)
         \/ Move(j, Path[ChannelOf[j]], {}, {}, {ChannelOf[j]}, eta)
      BY <1>3, <2>2, Zenon DEF notify
    <3>2. QED
      BY <1>1, <3>1, MoveRests
  <2>3. QED
    BY <2>1, <2>2
<1>4. ASSUME NEW c \in Channel, poll_end(c) PROVE JobsFlow'
  <2> SUFFICES ASSUME NEW j \in Job PROVE JobFlows(j)'
    BY <1>0
  <2>1. CASE Stays(j)
    BY <1>0, <2>1, StayingFlows
  <2>2. CASE ~Stays(j)
    <3>1. /\ queue' = [queue EXCEPT ![c] = @ \cup Due(c)]
          /\ etaQueue' = [etaQueue EXCEPT ![c] = @ \ Due(c)]
          /\ UNCHANGED <<running, failed>>
      BY <1>4, <2>2 DEF poll_end, Stays
    <3>2. j \in Due(c) /\ j \in etaQueue[c]
      BY <2>2, <3>1, SetsType DEF Stays, Due
    <3>3. \A d \in Channel : In(j, d)' <=> In(j, d)
      BY <3>1, <3>2, SetsType DEF In
    <3>4. \A d \in Channel : d # Root => Parent[d] \in Channel
      BY ChannelsAssumption
    <3>5. JobFlows(j)
      BY <1>0
    <3>6. QED
      BY <3>1, <3>2, <3>3, <3>4, <3>5, SetsType DEF JobFlows
  <2>3. QED
    BY <2>1, <2>2
<1>5. ASSUME NEW c \in Channel, poll_job(c) PROVE JobsFlow'
  <2> SUFFICES ASSUME NEW k \in Job PROVE JobFlows(k)'
    BY <1>0
  <2>1. PICK j \in Popped(c) : poll_job(c)!(j)
    BY <1>5 DEF poll_job
  <2>2. j \in Job /\ j \in queue[c] \cup Due(c) /\ Due(c) \subseteq etaQueue[c]
    BY PopsReady DEF Due
  <2>0. c # Root => Parent[c] # c
    BY PathFacts, PathAcyclic
  <2>3. /\ \A d \in Channel : queue'[d] = IF d = c THEN (queue[d] \cup Due(c)) \ {j}
                                          ELSE IF c # Root /\ d = Parent[c] THEN queue[d] \cup {j}
                                          ELSE queue[d]
        /\ \A d \in Channel : etaQueue'[d] = IF d = c THEN etaQueue[d] \ Due(c) ELSE etaQueue[d]
        /\ \A d \in Channel : running'[d] = IF d = c THEN running[d] \cup {j} ELSE running[d]
        /\ failed' = failed
    BY <2>0, <2>1, SetsType
  <2>4. \A d \in Channel : d # Root => Parent[d] \in Channel
    BY ChannelsAssumption
  <2>5. JobFlows(k)
    BY <1>0
  <2>6. CASE k # j
    <3>1. /\ \A d \in Channel : k \in queue'[d] <=> k \in queue[d] \/ (d = c /\ k \in Due(c))
          /\ \A d \in Channel : k \in etaQueue'[d] <=> k \in etaQueue[d] /\ ~(d = c /\ k \in Due(c))
          /\ \A d \in Channel : k \in running'[d] <=> k \in running[d]
          /\ \A d \in Channel : k \in failed'[d] <=> k \in failed[d]
      <4>1. \A d \in Channel : k \in queue'[d] <=> k \in queue[d] \/ (d = c /\ k \in Due(c))
        <5> TAKE d \in Channel
        <5>1. CASE d = c
          BY <2>3, <2>6, <5>1
        <5>2. CASE d # c
          <6>1. queue'[d] = queue[d] \/ queue'[d] = queue[d] \cup {j}
            BY <2>3, <5>2
          <6>2. QED  BY <2>6, <5>2, <6>1
        <5>3. QED  BY <5>1, <5>2
      <4>2. \A d \in Channel : k \in etaQueue'[d] <=> k \in etaQueue[d] /\ ~(d = c /\ k \in Due(c))
        <5> TAKE d \in Channel
        <5>1. etaQueue'[d] = IF d = c THEN etaQueue[d] \ Due(c) ELSE etaQueue[d]
          BY <2>3
        <5>2. QED  BY <5>1
      <4>3. \A d \in Channel : k \in running'[d] <=> k \in running[d]
        <5> TAKE d \in Channel
        <5>1. running'[d] = IF d = c THEN running[d] \cup {j} ELSE running[d]
          BY <2>3
        <5>2. QED  BY <2>6, <5>1
      <4>4. \A d \in Channel : k \in failed'[d] <=> k \in failed[d]
        BY <2>3
      <4>5. QED  BY <4>1, <4>2, <4>3, <4>4
    <3>2. k \in Due(c) => k \in etaQueue[c]
      BY <2>2
    <3>3. \A d \in Channel : In(k, d)' <=> In(k, d)
      BY <3>1, <3>2 DEF In
    <3>4. QED
      BY <2>4, <2>5, <3>1, <3>2, <3>3 DEF JobFlows
  <2>7. CASE k = j
    <3> DEFINE o == ChannelOf[j]
    <3>1. In(j, c) /\ c \in Path[o]
      BY <2>2, <2>5, <2>7 DEF JobFlows, In
    <3>2. o \in Channel
      BY ChannelsAssumption, <2>2
    <3>3. ASSUME c # Root
          PROVE  /\ Parent[c] \in Channel /\ Parent[c] \in Path[o] /\ Parent[c] # c
                 /\ Parent[c] # o
                 /\ ~In(j, Parent[c])
      <4>1. Parent[c] # c /\ Parent[c] # o /\ Parent[c] \in Path[o]
        BY <3>1, <3>2, <3>3, PathFacts, PathAcyclic
      <4>2. j \notin running[c]
        BY <2>2, <2>5, <2>7 DEF JobFlows
      <4>3. QED
        BY <3>1, <3>3, <4>1, <4>2, <2>4, <2>5, <2>7 DEF JobFlows
    <3>4. \A d \in Channel : In(j, d)' <=> In(j, d) \/ (c # Root /\ d = Parent[c])
      BY <2>2, <2>3, <3>1, <3>3 DEF In
    <3>5. \A d \in Path[o] : c # Root /\ d # Root /\ Parent[d] = Parent[c] => d = c
      BY <3>1, <3>2, PathIsLine
    <3>6. \A d \in Channel : d # Root /\ d \in Path[o] => (j \in running'[d] <=> In(j, Parent[d])')
      <4> SUFFICES ASSUME NEW d \in Channel, d # Root, d \in Path[o]
                   PROVE  j \in running'[d] <=> In(j, Parent[d])'
        OBVIOUS
      <4>1. j \in running[d] <=> In(j, Parent[d])
        BY <2>5, <2>7 DEF JobFlows
      <4>2. In(j, Parent[d])' <=> In(j, Parent[d]) \/ (c # Root /\ Parent[d] = Parent[c])
        BY <2>4, <3>4
      <4>3. j \in running'[d] <=> j \in running[d] \/ d = c
        BY <2>3
      <4>4. QED
        BY <4>1, <4>2, <4>3, <3>5
    <3>7. \A d \in Channel : In(j, d)' => d \in Path[o]
      BY <2>5, <2>7, <3>3, <3>4 DEF JobFlows
    <3>8. /\ \A d \in Channel : j \in queue'[d] <=> (j \in queue[d] /\ d # c) \/ (c # Root /\ d = Parent[c])
          /\ \A d \in Channel : j \in etaQueue'[d] => j \in etaQueue[d] /\ d # c
          /\ \A d \in Channel : j \in running'[d] <=> j \in running[d] \/ d = c
          /\ \A d \in Channel : j \in failed'[d] <=> j \in failed[d]
      <4>1. c # Root => Parent[c] # c
        BY <3>3
      <4>2. j \in etaQueue[c] => j \in Due(c) \/ j \in queue[c]
        BY <2>2
      <4>3. j \in etaQueue[c] => j \notin queue[c]
        BY <2>5, <2>7 DEF JobFlows
      <4>4. QED
        BY <2>3, <4>1, <4>2, <4>3
    <3>9. j \notin running[c] /\ j \notin failed[c]
      BY <2>2, <2>5, <2>7 DEF JobFlows
    <3>10. QED
      BY <2>5, <2>7, <3>3, <3>4, <3>6, <3>7, <3>8, <3>9 DEF JobFlows, In
  <2>8. QED
    BY <2>6, <2>7
<1>6. ASSUME initialize_databases PROVE JobsFlow'
  <2>1. ASSUME NEW j \in Job PROVE AtRest(j)'
    <3>1. ChannelOf[j] \in Channel
      BY ChannelsAssumption
    <3>2. /\ \A c \in Channel : j \in queue'[c] <=> row[j] = "pending" /\ c = ChannelOf[j] /\ rowEta[j] = 0
          /\ \A c \in Channel : j \in etaQueue'[c] <=> row[j] = "pending" /\ c = ChannelOf[j] /\ rowEta[j] # 0
          /\ \A c \in Channel : j \in running'[c] <=> row[j] = "active" /\ c \in Path[ChannelOf[j]]
          /\ \A c \in Channel : j \in failed'[c] <=> row[j] = "failed" /\ c = ChannelOf[j]
      BY <1>6 DEF initialize_databases
    <3>3. QED
      BY <3>1, <3>2 DEF AtRest, Held
  <2>2. QED
    BY <1>1, <2>1
<1>7. CASE ~UNCHANGED channelVars
  <2>1. \/ \E j \in Job : notify(j)
        \/ \E c \in Channel : poll_end(c) \/ poll_job(c)
        \/ initialize_databases
    BY <1>7, Zenon DEF Next, Poll, run_jobs, wait_notification, Tick, set_done, set_failed, retry_postpone,
       requeue_dead_jobs, enqueue_waiting, button_cancelled, requeue, Change, vars
  <2>2. QED
    BY <2>1, <1>3, <1>4, <1>5, <1>6
<1>8. QED
  BY <1>2, <1>7

-----------------------------------------------------------------------------
(* What a step changes *)

\* Only these steps change what the channels hold.
LEMMA FlowActions ==
  ASSUME [Next]_vars
  PROVE  \/ UNCHANGED channelVars
         \/ \E j \in Job : notify(j)
         \/ \E c \in Channel : poll_end(c) \/ poll_job(c)
         \/ initialize_databases
BY Zenon DEF Next, Poll, run_jobs, wait_notification, Tick, set_done, set_failed, retry_postpone,
   requeue_dead_jobs, enqueue_waiting, button_cancelled, requeue, Change, vars

\* A worker or a user commits a row.
Commits(j) ==
  \/ set_done(j)
  \/ set_failed(j)
  \/ retry_postpone(j)
  \/ requeue_dead_jobs(j)
  \/ enqueue_waiting(j)
  \/ button_cancelled(j)
  \/ requeue(j)

LEMMA CommitFacts ==
  ASSUME TypeOK, NEW j \in Job, Commits(j)
  PROVE  /\ UNCHANGED <<channelVars, loopVars>>
         /\ notified' = [notified EXCEPT ![j] = TRUE]
         /\ \E to \in States \ {"active"} :
              /\ row' = [row EXCEPT ![j] = to]
              /\ to = "failed" => row[j] = "active"
<1> DEFINE Goal == /\ UNCHANGED <<channelVars, loopVars>>
                   /\ notified' = [notified EXCEPT ![j] = TRUE]
                   /\ \E to \in States \ {"active"} :
                        /\ row' = [row EXCEPT ![j] = to]
                        /\ to = "failed" => row[j] = "active"
<1> SUFFICES Goal
  OBVIOUS
<1>1. ASSUME NEW from, NEW to, Change(j, from, to),
             to \in States \ {"active"}, to = "failed" => from = {"active"}
      PROVE  Goal
  BY <1>1 DEF Change
<1>2. PendingState(j) \in States \ {"active", "failed"}
  BY DEF PendingState, States
<1>3. \A s \in {"done", "pending", "cancelled"} : s \in States \ {"active", "failed"}
  BY DEF States
<1>4. "failed" \in States \ {"active"}
  BY DEF States
<1> HIDE DEF Goal
<1>5. CASE set_failed(j)
  BY <1>1, <1>4, <1>5, Zenon DEF set_failed
<1>6. ASSUME NEW from, NEW to \in States \ {"active", "failed"}, Change(j, from, to)
      PROVE  Goal
  BY <1>1, <1>6
<1>7. CASE set_done(j) \/ requeue_dead_jobs(j) \/ enqueue_waiting(j) \/ button_cancelled(j)
  BY <1>3, <1>6, <1>7, Zenon DEF set_done, requeue_dead_jobs, enqueue_waiting, button_cancelled
<1>8. CASE retry_postpone(j) \/ requeue(j)
  BY <1>2, <1>6, <1>8, Zenon DEF retry_postpone, requeue
<1>9. QED
  BY <1>5, <1>7, <1>8 DEF Commits

\* The steps that neither commit a row nor touch the sets of the channels.
LEMMA OtherSteps ==
  ASSUME [Next]_vars
  PROVE  \/ UNCHANGED <<row, notified, channelVars>>
         \/ \E j \in Job : notify(j)
         \/ \E c \in Channel : poll_end(c) \/ poll_job(c)
         \/ initialize_databases
         \/ \E j \in Job : Commits(j)
BY Zenon DEF Next, Poll, run_jobs, wait_notification, Tick, Commits, rowVars, vars

LEMMA NotifyFacts ==
  ASSUME TypeOK, JobsFlow, ActiveIsRunning, NEW j \in Job, notify(j)
  PROVE  /\ row' = row
         /\ notified' = [notified EXCEPT ![j] = FALSE]
         /\ \A k \in Job \ {j} : Stays(k)
         /\ \A c \in Channel : running'[c] \subseteq running[c]
         /\ row[j] = "active" => \A c \in Path[ChannelOf[j]] : j \in running'[c]
         /\ row[j] = "failed" => j \in failed'[ChannelOf[j]]
         /\ \A c \in Channel : j \in failed'[c] =>
              j \in failed[c] \/ (c = ChannelOf[j] /\ row[j] = "failed")
         /\ j \in running'[Root] => row[j] \in {"active", "wait_dependencies"}
<1> DEFINE o == ChannelOf[j]
<1>1. o \in Channel /\ o \in Path[o] /\ Root \in Channel /\ Root \in Path[o] /\ Path[o] \subseteq Channel
  BY ChannelsAssumption, PathFacts, RootIsLast
<1>2. row' = row /\ notified' = [notified EXCEPT ![j] = FALSE]
  BY DEF notify
<1>3. JobFlows(j)
  BY FlowOfJobs
<1>4. \A k \in Job \ {j} : Stays(k)
  <2>1. CASE UNCHANGED setVars
    BY <2>1 DEF Stays, setVars
  <2>2. CASE ~UNCHANGED setVars
    <3>1. \E eta :
         \/ Move(j, Path[o], {}, {}, {}, eta)
         \/ Move(j, Path[o], {o}, {}, {}, eta)
         \/ Move(j, Path[o], {}, Path[o], {}, eta)
         \/ Move(j, Path[o], {}, {}, {o}, eta)
      BY <2>2, Zenon DEF notify
    <3>2. QED
      BY <3>1, MoveRests
  <2>3. QED
    BY <2>1, <2>2
<1> DEFINE Result(from) ==
      /\ \A c \in Channel : running'[c] \subseteq running[c]
      /\ from = "active" => \A c \in Path[o] : j \in running'[c]
      /\ from = "failed" => j \in failed'[o]
      /\ \A c \in Channel : j \in failed'[c] => j \in failed[c] \/ (c = o /\ from = "failed")
      /\ j \in running'[Root] => from \in {"active", "wait_dependencies"}
<1>5. ASSUME NEW eta, Move(j, Path[o], {}, {}, {}, eta), row[j] \notin {"active", "failed"}
      PROVE  Result(row[j])
  BY <1>1, <1>3, <1>5, SetsType DEF Move
<1>6. ASSUME NEW eta, Move(j, Path[o], {o}, {}, {}, eta), row[j] = "pending"
      PROVE  Result(row[j])
  BY <1>1, <1>3, <1>6, SetsType DEF Move
<1>7. ASSUME NEW eta, Move(j, Path[o], {}, Path[o], {}, eta), row[j] = "active"
      PROVE  Result(row[j])
  BY <1>1, <1>3, <1>7, SetsType DEF Move, ActiveIsRunning
<1>8. ASSUME NEW eta, Move(j, Path[o], {}, {}, {o}, eta), row[j] = "failed"
      PROVE  Result(row[j])
  BY <1>1, <1>3, <1>8, SetsType DEF Move
<1>9. ASSUME UNCHANGED setVars, \/ row[j] = "pending" /\ j \in queue[o] \cup etaQueue[o]
                                \/ row[j] = "active"
                                \/ row[j] = "failed" /\ j \in failed[o]
                                \/ row[j] = "wait_dependencies"
      PROVE  Result(row[j])
  <2>1. running' = running /\ failed' = failed
    BY <1>9 DEF setVars
  <2>2. j \in running[Root] => In(j, Root)
    BY DEF In
  <2>3. j \in running[Root] => j \in running[o]
    BY <1>1, <1>3, <2>2, RootHolds
  <2>4. j \in running[o] => j \notin queue[o] /\ j \notin etaQueue[o] /\ j \notin failed[o]
    BY <1>1, <1>3 DEF JobFlows
  <2>5. QED
    BY <1>9, <2>1, <2>3, <2>4 DEF ActiveIsRunning
<1>10. Result(row[j])
  <2> HIDE DEF Result
  <2>1. CASE row[j] \in {"done", "cancelled"}
    BY <1>5, <2>1 DEF notify
  <2>2. CASE row[j] = "pending"
    BY <1>6, <1>9, <2>2 DEF notify
  <2>3. CASE row[j] = "active"
    BY <1>7, <1>9, <2>3 DEF notify
  <2>4. CASE row[j] = "failed"
    BY <1>8, <1>9, <2>4 DEF notify
  <2>5. CASE row[j] = "wait_dependencies"
    BY <1>5, <1>9, <2>5 DEF notify
  <2>6. QED
    BY <2>1, <2>2, <2>3, <2>4, <2>5 DEF TypeOK, States
<1>11. QED
  BY <1>2, <1>4, <1>10

LEMMA PollFacts ==
  ASSUME TypeOK, NEW c \in Channel, poll_job(c)
  PROVE  \E j \in Job :
           /\ In(j, c)
           /\ ~Paused(c)
           /\ has_capacity(c)
           /\ running' = [running EXCEPT ![c] = @ \cup {j}]
           /\ failed' = failed
           /\ c = Root => /\ row' = [row EXCEPT ![j] = "active"]
                          /\ notified' = [notified EXCEPT ![j] = TRUE]
           /\ c # Root => UNCHANGED <<row, notified>>
<1>1. PICK j \in Popped(c) : poll_job(c)!(j)
  BY DEF poll_job
<1>2. j \in Job /\ In(j, c)
  BY PopsReady DEF In, Due
<1>3. QED
  BY <1>1, <1>2

LEMMA RestartFacts ==
  ASSUME TypeOK, initialize_databases
  PROVE  /\ row' = row
         /\ \A j \in Job, c \in Channel :
              /\ j \in running'[c] <=> row[j] = "active" /\ c \in Path[ChannelOf[j]]
              /\ j \in failed'[c] <=> row[j] = "failed" /\ c = ChannelOf[j]
BY DEF initialize_databases

-----------------------------------------------------------------------------
(* The invariants, one by one *)

LEMMA ActiveStep ==
  TypeOK /\ JobsFlow /\ ActiveIsRunning /\ [Next]_vars => ActiveIsRunning'
<1> SUFFICES ASSUME TypeOK, JobsFlow, ActiveIsRunning, [Next]_vars,
                    NEW k \in Job, row'[k] = "active", NEW d \in Path[ChannelOf[k]]
             PROVE  k \in running'[d]
  BY DEF ActiveIsRunning
<1>0. d \in Channel /\ JobFlows(k)
  BY FlowOfJobs, PathFacts, ChannelsAssumption
<1>1. CASE UNCHANGED <<row, notified, channelVars>>
  BY <1>1 DEF ActiveIsRunning, channelVars, setVars
<1>2. ASSUME NEW j \in Job, notify(j) PROVE k \in running'[d]
  BY <1>0, <1>2, NotifyFacts DEF ActiveIsRunning, Stays
<1>3. ASSUME NEW c \in Channel, poll_end(c) PROVE k \in running'[d]
  BY <1>3 DEF poll_end, rowVars, ActiveIsRunning
<1>4. ASSUME NEW c \in Channel, poll_job(c) PROVE k \in running'[d]
  <2>1. PICK j \in Job :
          /\ In(j, c)
          /\ running' = [running EXCEPT ![c] = @ \cup {j}]
          /\ c = Root => row' = [row EXCEPT ![j] = "active"]
          /\ c # Root => UNCHANGED row
    BY <1>4, PollFacts
  <2>2. running[d] \subseteq running'[d]
    BY <1>0, <2>1, SetsType
  <2>3. CASE row[k] = "active"
    BY <2>2, <2>3 DEF ActiveIsRunning
  <2>4. CASE row[k] # "active"
    <3>1. c = Root /\ k = j
      BY <2>1, <2>4 DEF TypeOK
    <3>2. d = Root => k \in running'[d]
      BY <1>0, <2>1, <3>1, SetsType
    <3>3. d # Root => k \in running[d]
      BY <1>0, <2>1, <3>1, RootHolds
    <3>4. QED
      BY <2>2, <3>2, <3>3
  <2>5. QED
    BY <2>3, <2>4
<1>5. ASSUME initialize_databases PROVE k \in running'[d]
  BY <1>0, <1>5, RestartFacts
<1>6. ASSUME NEW j \in Job, Commits(j) PROVE k \in running'[d]
  <2>1. PICK to \in States \ {"active"} : row' = [row EXCEPT ![j] = to]
    BY <1>6, CommitFacts
  <2>2. running' = running
    BY <1>6, CommitFacts DEF channelVars, setVars
  <2>3. row[k] = "active"
    BY <2>1 DEF TypeOK
  <2>4. QED
    BY <2>2, <2>3 DEF ActiveIsRunning
<1>7. QED
  BY <1>1, <1>2, <1>3, <1>4, <1>5, <1>6, OtherSteps

LEMMA FiniteJobs == ASSUME NEW S, S \subseteq Job PROVE IsFiniteSet(S) /\ Cardinality(S) \in Nat
BY FS_Subset, FS_CardinalityType, ChannelsAssumption

LEMMA BoundedStep ==
  TypeOK /\ JobsFlow /\ ActiveIsRunning /\ RunningBounded /\ [Next]_vars => RunningBounded'
<1> SUFFICES ASSUME TypeOK, JobsFlow, ActiveIsRunning, RunningBounded, [Next]_vars,
                    NEW d \in Channel, Capacity[d] # 0
             PROVE  Cardinality(running'[d]) <= Capacity[d]
  BY DEF RunningBounded
<1>0. /\ running[d] \subseteq Job
      /\ Cardinality(running[d]) <= Capacity[d]
      /\ Cardinality(running[d]) \in Nat
      /\ Capacity[d] \in Nat
  BY SetsType, FiniteJobs, ChannelsAssumption DEF RunningBounded
<1>1. ASSUME running'[d] \subseteq running[d] PROVE Cardinality(running'[d]) <= Capacity[d]
  <2>1. IsFiniteSet(running[d])
    BY <1>0, FiniteJobs
  <2>2. Cardinality(running'[d]) <= Cardinality(running[d]) /\ Cardinality(running'[d]) \in Nat
    BY <1>1, <2>1, FS_Subset, FS_CardinalityType
  <2>3. QED
    BY <1>0, <2>2
<1>2. CASE UNCHANGED channelVars
  BY <1>1, <1>2 DEF channelVars, setVars
<1>3. ASSUME NEW j \in Job, notify(j) PROVE Cardinality(running'[d]) <= Capacity[d]
  BY <1>1, <1>3, NotifyFacts
<1>4. ASSUME NEW c \in Channel, poll_end(c) PROVE Cardinality(running'[d]) <= Capacity[d]
  BY <1>1, <1>4 DEF poll_end
<1>5. ASSUME NEW c \in Channel, poll_job(c) PROVE Cardinality(running'[d]) <= Capacity[d]
  <2>1. PICK j \in Job : has_capacity(c) /\ running' = [running EXCEPT ![c] = @ \cup {j}]
    BY <1>5, PollFacts
  <2>2. CASE c # d
    BY <1>1, <2>1, <2>2
  <2>3. CASE c = d
    <3>1. Cardinality(running[d]) < Capacity[d]
      BY <2>1, <2>3 DEF has_capacity
    <3>2. running'[d] = running[d] \cup {j}
      BY <2>1, <2>3, SetsType
    <3>3. Cardinality(running'[d]) <= Cardinality(running[d]) + 1
      <4>1. IsFiniteSet(running[d])
        BY <1>0, FiniteJobs
      <4>2. \/ Cardinality(running[d] \cup {j}) = Cardinality(running[d])
            \/ Cardinality(running[d] \cup {j}) = Cardinality(running[d]) + 1
        BY <4>1, FS_AddElement
      <4>3. QED
        BY <1>0, <3>2, <4>2
    <3>4. Cardinality(running'[d]) \in Nat
      <4>1. running'[d] \subseteq Job
        BY <1>0, <3>2
      <4>2. QED
        BY <4>1, FiniteJobs
    <3>5. QED
      BY <1>0, <3>1, <3>3, <3>4
  <2>4. QED
    BY <2>2, <2>3
<1>6. ASSUME initialize_databases PROVE Cardinality(running'[d]) <= Capacity[d]
  <2>1. running'[d] \subseteq running[d]
    BY <1>6 DEF initialize_databases, ActiveIsRunning
  <2>2. QED
    BY <1>1, <2>1
<1>7. QED
  BY <1>2, <1>3, <1>4, <1>5, <1>6, FlowActions

LEMMA SlotsStep ==
  TypeOK /\ JobsFlow /\ ActiveIsRunning /\ SlotsAreFreed /\ [Next]_vars => SlotsAreFreed'
<1> SUFFICES ASSUME TypeOK, JobsFlow, ActiveIsRunning, SlotsAreFreed, [Next]_vars,
                    NEW k \in running'[Root]
             PROVE  row'[k] \in {"active", "wait_dependencies"} \/ notified'[k]
  BY DEF SlotsAreFreed
<1> DEFINE Fine == row'[k] \in {"active", "wait_dependencies"} \/ notified'[k]
<1>0. Root \in Channel
  BY ChannelsAssumption
<1>1. CASE UNCHANGED <<row, notified, channelVars>>
  BY <1>1 DEF SlotsAreFreed, channelVars, setVars
<1>2. ASSUME NEW j \in Job, notify(j) PROVE Fine
  <2>1. CASE k = j
    BY <1>2, <2>1, NotifyFacts
  <2>2. CASE k # j
    BY <1>0, <1>2, <2>2, NotifyFacts, SetsType DEF SlotsAreFreed, TypeOK
  <2>3. QED
    BY <2>1, <2>2
<1>3. ASSUME NEW c \in Channel, poll_end(c) PROVE Fine
  BY <1>3 DEF poll_end, rowVars, SlotsAreFreed
<1>4. ASSUME NEW c \in Channel, poll_job(c) PROVE Fine
  <2>1. PICK j \in Job :
          /\ running' = [running EXCEPT ![c] = @ \cup {j}]
          /\ c = Root => /\ row' = [row EXCEPT ![j] = "active"]
                         /\ notified' = [notified EXCEPT ![j] = TRUE]
          /\ c # Root => UNCHANGED <<row, notified>>
    BY <1>4, PollFacts
  <2>2. QED
    BY <1>0, <2>1, SetsType DEF SlotsAreFreed, TypeOK
<1>5. ASSUME initialize_databases PROVE Fine
  BY <1>0, <1>5 DEF initialize_databases
<1>6. ASSUME NEW j \in Job, Commits(j) PROVE Fine
  <2>1. PICK to \in States : row' = [row EXCEPT ![j] = to]
    BY <1>6, CommitFacts
  <2>2. running' = running /\ notified' = [notified EXCEPT ![j] = TRUE]
    BY <1>6, CommitFacts DEF channelVars, setVars
  <2>3. QED
    BY <1>0, <2>1, <2>2, SetsType DEF SlotsAreFreed, TypeOK
<1>7. QED
  BY <1>1, <1>2, <1>3, <1>4, <1>5, <1>6, OtherSteps

LEMMA FailedStep ==
  TypeOK /\ JobsFlow /\ ActiveIsRunning /\ FailedIsKnown /\ [Next]_vars => FailedIsKnown'
<1> SUFFICES ASSUME TypeOK, JobsFlow, ActiveIsRunning, FailedIsKnown, [Next]_vars,
                    NEW k \in Job, row'[k] = "failed"
             PROVE  \/ k \in failed'[ChannelOf[k]]
                    \/ k \in running'[ChannelOf[k]] /\ notified'[k]
  BY DEF FailedIsKnown
<1> DEFINE o == ChannelOf[k]
           Fine == \/ k \in failed'[ChannelOf[k]]
                   \/ k \in running'[ChannelOf[k]] /\ notified'[k]
<1>0. o \in Channel /\ o \in Path[o]
  BY ChannelsAssumption, PathFacts
<1>1. CASE UNCHANGED <<row, notified, channelVars>>
  BY <1>1 DEF FailedIsKnown, channelVars, setVars
<1>2. ASSUME NEW j \in Job, notify(j) PROVE Fine
  <2>1. CASE k = j
    BY <1>2, <2>1, NotifyFacts
  <2>2. CASE k # j
    BY <1>0, <1>2, <2>2, NotifyFacts DEF FailedIsKnown, TypeOK, Stays
  <2>3. QED
    BY <2>1, <2>2
<1>3. ASSUME NEW c \in Channel, poll_end(c) PROVE Fine
  BY <1>3 DEF poll_end, rowVars, FailedIsKnown
<1>4. ASSUME NEW c \in Channel, poll_job(c) PROVE Fine
  <2>1. PICK j \in Job :
          /\ running' = [running EXCEPT ![c] = @ \cup {j}]
          /\ failed' = failed
          /\ c = Root => /\ row' = [row EXCEPT ![j] = "active"]
                         /\ notified' = [notified EXCEPT ![j] = TRUE]
          /\ c # Root => UNCHANGED <<row, notified>>
    BY <1>4, PollFacts
  <2>2. running[o] \subseteq running'[o]
    BY <1>0, <2>1, SetsType
  <2>3. row[k] = "failed" /\ notified'[k] = notified[k]
    BY <2>1 DEF TypeOK
  <2>4. QED
    BY <2>1, <2>2, <2>3 DEF FailedIsKnown
<1>5. ASSUME initialize_databases PROVE Fine
  BY <1>0, <1>5, RestartFacts
<1>6. ASSUME NEW j \in Job, Commits(j) PROVE Fine
  <2>1. PICK to \in States : /\ row' = [row EXCEPT ![j] = to]
                             /\ to = "failed" => row[j] = "active"
    BY <1>6, CommitFacts
  <2>2. running' = running /\ failed' = failed /\ notified' = [notified EXCEPT ![j] = TRUE]
    BY <1>6, CommitFacts DEF channelVars, setVars
  <2>3. CASE k = j
    <3>1. row[j] = "active"
      BY <2>1, <2>3 DEF TypeOK
    <3>2. QED
      BY <1>0, <2>2, <2>3, <3>1 DEF TypeOK, ActiveIsRunning
  <2>4. CASE k # j
    BY <2>1, <2>2, <2>4 DEF TypeOK, FailedIsKnown
  <2>5. QED
    BY <2>3, <2>4
<1>7. QED
  BY <1>1, <1>2, <1>3, <1>4, <1>5, <1>6, OtherSteps

\* A sequential channel runs one job at a time.
LEMMA OneRunning ==
  ASSUME TypeOK, RunningBounded, NEW c \in Sequential, NEW i \in running[c], NEW k \in running[c]
  PROVE  i = k
<1> DEFINE S == running[c]
<1>1. c \in Channel /\ Capacity[c] = 1
  BY ChannelsAssumption
<1>2. IsFiniteSet(S) /\ Cardinality(S) <= 1 /\ Cardinality(S) \in Nat
  BY <1>1, SetsType, FiniteJobs DEF RunningBounded
<1>3. IsFiniteSet(S \ {i}) /\ Cardinality(S \ {i}) = Cardinality(S) - 1
  BY <1>2, FS_RemoveElement
<1>4. Cardinality(S \ {i}) \in Nat
  BY <1>3, FS_CardinalityType
<1>5. Cardinality(S \ {i}) = 0
  BY <1>2, <1>3, <1>4
<1>6. S \ {i} = {}
  BY <1>3, <1>5, FS_EmptySet
<1>7. QED
  BY <1>6

LEMMA FailureStopsStep ==
  /\ TypeOK /\ JobsFlow /\ ActiveIsRunning /\ RunningBounded /\ FailedIsKnown /\ FailureStops
  /\ [Next]_vars
  => FailureStops'
<1> SUFFICES ASSUME TypeOK, JobsFlow, ActiveIsRunning, RunningBounded, FailedIsKnown, FailureStops,
                    [Next]_vars,
                    NEW d \in Sequential, NEW i \in failed'[d], NEW k \in running'[d]
             PROVE  FALSE
  BY DEF FailureStops
<1>0. d \in Channel
  BY ChannelsAssumption
<1>1. ASSUME i \in failed[d], k \in running[d] PROVE FALSE
  BY <1>1 DEF FailureStops
<1>2. CASE UNCHANGED channelVars
  BY <1>1, <1>2 DEF channelVars, setVars
<1>3. ASSUME NEW j \in Job, notify(j) PROVE FALSE
  <2>1. k \in running[d]
    BY <1>0, <1>3, NotifyFacts
  <2>2. CASE i # j
    <3>1. i \in Job
      <4>1. TypeOK'
        BY TypeStep
      <4>2. QED
        BY <1>0, <4>1 DEF TypeOK
    <3>2. i \in failed[d]
      BY <1>0, <1>3, <2>2, <3>1, NotifyFacts DEF Stays
    <3>3. QED
      BY <1>1, <2>1, <3>2
  <2>3. CASE i = j /\ i \notin failed[d]
    <3>1. d = ChannelOf[j] /\ row[j] = "failed"
      BY <1>0, <1>3, <2>3, NotifyFacts
    <3>2. j \in running[d]
      BY <2>3, <3>1 DEF FailedIsKnown
    <3>3. k = j
      BY <2>1, <3>2, OneRunning
    <3>4. JobsFlow'
      BY FlowStep
    <3>5. QED
      BY <1>0, <2>3, <3>3, <3>4 DEF JobsFlow
  <2>4. CASE i \in failed[d]
    BY <1>1, <2>1, <2>4
  <2>5. QED
    BY <2>2, <2>3, <2>4
<1>4. ASSUME NEW c \in Channel, poll_end(c) PROVE FALSE
  BY <1>1, <1>4 DEF poll_end
<1>5. ASSUME NEW c \in Channel, poll_job(c) PROVE FALSE
  <2>1. PICK j \in Job : /\ has_capacity(c)
                         /\ running' = [running EXCEPT ![c] = @ \cup {j}]
                         /\ failed' = failed
    BY <1>5, PollFacts
  <2>2. c # d
    BY <2>1 DEF has_capacity
  <2>3. QED
    BY <1>1, <2>1, <2>2
<1>6. ASSUME initialize_databases PROVE FALSE
  <2>1. i \in Job /\ k \in Job
    BY <1>0, <1>6 DEF initialize_databases
  <2>2. /\ row[k] = "active" /\ d \in Path[ChannelOf[k]]
        /\ row[i] = "failed" /\ d = ChannelOf[i]
    BY <1>0, <1>6, <2>1, RestartFacts
  <2>3. k \in running[d]
    BY <2>1, <2>2 DEF ActiveIsRunning
  <2>4. i \in failed[d] \/ i \in running[d]
    BY <2>1, <2>2 DEF FailedIsKnown
  <2>5. i # k
    BY <2>2
  <2>6. QED
    BY <1>1, <2>3, <2>4, <2>5, OneRunning
<1>7. QED
  BY <1>2, <1>3, <1>4, <1>5, <1>6, FlowActions

\* The steps that do not touch a pause.
LEMMA PauseActions ==
  ASSUME [Next]_vars
  PROVE  UNCHANGED pause \/ \E c \in Channel : poll_end(c) \/ poll_job(c)
BY Zenon DEF Next, Poll, notify, run_jobs, wait_notification, initialize_databases, Tick, set_done,
   set_failed, retry_postpone, requeue_dead_jobs, enqueue_waiting, button_cancelled, requeue,
   Change, channelVars, vars

LEMMA PausesStep == TypeOK /\ PausesAreThrottles /\ [Next]_vars => PausesAreThrottles'
<1> SUFFICES ASSUME TypeOK, PausesAreThrottles, [Next]_vars,
                    NEW d \in Channel, Throttle[d] = 0
             PROVE  pause'[d] = 0
  BY DEF PausesAreThrottles
<1>1. pause[d] = 0
  BY DEF PausesAreThrottles
<1>2. CASE UNCHANGED pause
  BY <1>1, <1>2
<1>3. ASSUME NEW c \in Channel, poll_end(c) PROVE pause'[d] = 0
  BY <1>1, <1>3 DEF poll_end, Unpaused, TypeOK
<1>4. ASSUME NEW c \in Channel, poll_job(c) PROVE pause'[d] = 0
  BY <1>1, <1>4 DEF poll_job, TypeOK
<1>5. QED
  BY <1>2, <1>3, <1>4, PauseActions

\* Polling a channel does not unsettle the ones that have been polled.
LEMMA OthersSettled ==
  ASSUME TypeOK, JobsFlow, PolledIsSettled, NEW c \in Channel, Polled(c),
         NEW d \in Channel, d # c, Ended(d),
         pause'[d] = pause[d], running'[d] = running[d], failed'[d] = failed[d],
         etaQueue'[d] = etaQueue[d], SetNoEta(c), pollTime' = pollTime
  PROVE  /\ pause'[d] # 0 => pollTime' < pause'[d]
         /\ pause'[d] = 0 /\ has_capacity(d)' => \A j \in etaQueue'[d] : pollTime' < jobEta'[j]
<1>1. has_capacity(d)' <=> has_capacity(d)
  BY DEF has_capacity
<1>2. ASSUME NEW j \in etaQueue[d] PROVE jobEta'[j] = jobEta[j]
  <2>1. j \in Job
    BY SetsType
  <2>2. JobFlows(j)
    BY <2>1, FlowOfJobs
  <2>3. d = ChannelOf[j]
    BY <1>2, <2>2 DEF JobFlows, In
  <2>4. j \notin etaQueue[c]
    BY <2>2, <2>3 DEF JobFlows, In
  <2>5. QED
    BY <2>1, <2>4 DEF SetNoEta, Due
<1>3. QED
  BY <1>1, <1>2 DEF PolledIsSettled

\* The generators that have ended once that of c has.
LEMMA EndsNext ==
  ASSUME TypeOK, NEW c \in Channel, Polled(c), NextChannel(c), NEW d \in Channel, Ended(d)'
  PROVE  d = c \/ Ended(d)
<1>1. /\ PollOrder[c] \in Int /\ PollOrder[d] \in Int
      /\ PollOrder[c] = PollOrder[d] => c = d
  BY ChannelsAssumption
<1>2. phase = "poll" /\ at = PollOrder[c]
  BY DEF Polled
<1>3. CASE c = Root
  BY <1>1, <1>2, <1>3, RootIsLast DEF Ended
<1>4. CASE c # Root
  BY <1>1, <1>2, <1>4 DEF Ended, NextChannel
<1>5. QED
  BY <1>3, <1>4

LEMMA SettledStep ==
  TypeOK /\ JobsFlow /\ PausesAreThrottles /\ PolledIsSettled /\ [Next]_vars => PolledIsSettled'
<1> SUFFICES ASSUME TypeOK, JobsFlow, PausesAreThrottles, PolledIsSettled, [Next]_vars
             PROVE  PolledIsSettled'
  OBVIOUS
<1>1. CASE UNCHANGED <<channelVars, loopVars>>
  BY <1>1 DEF PolledIsSettled, Ended, has_capacity, channelVars, setVars, loopVars
<1>2. ASSUME \A d \in Channel : ~Ended(d)' PROVE PolledIsSettled'
  BY <1>2 DEF PolledIsSettled
<1>3. ASSUME NEW j \in Job, notify(j) PROVE PolledIsSettled'
  <2>1. phase' = "notify"
    BY <1>3 DEF notify, loopVars
  <2>2. QED
    BY <1>2, <2>1 DEF Ended
<1>4. CASE run_jobs
  <2>1. phase' = "poll" /\ at' = 1 /\ \A d \in Channel : PollOrder[d] \in Int /\ 1 <= PollOrder[d]
    BY <1>4, ChannelsAssumption DEF run_jobs
  <2>2. QED
    BY <1>2, <2>1 DEF Ended
<1>5. ASSUME NEW c \in Channel, poll_end(c) PROVE PolledIsSettled'
  <2> SUFFICES ASSUME NEW d \in Channel, Ended(d)'
               PROVE  /\ pause'[d] # 0 => pollTime' < pause'[d]
                      /\ pause'[d] = 0 /\ has_capacity(d)' =>
                           \A j \in etaQueue'[d] : pollTime' < jobEta'[j]
    BY DEF PolledIsSettled
  <2>1. /\ Polled(c) /\ NextChannel(c) /\ pollTime' = pollTime
        /\ running' = running /\ failed' = failed
        /\ pause' = [pause EXCEPT ![c] = Unpaused(c)]
    BY <1>5 DEF poll_end, NextChannel
  <2>2. CASE d # c
    <3>1. Ended(d)
      BY <2>1, <2>2, EndsNext
    <3>2. pause'[d] = pause[d] /\ etaQueue'[d] = etaQueue[d]
      BY <1>5, <2>1, <2>2 DEF poll_end, TypeOK
    <3>3. CASE UNCHANGED <<etaQueue, jobEta>>
      <4>1. has_capacity(d)' <=> has_capacity(d)
        BY <2>1 DEF has_capacity
      <4>2. QED
        BY <2>1, <3>1, <3>2, <3>3, <4>1 DEF PolledIsSettled
    <3>4. CASE SetNoEta(c)
      BY <2>1, <2>2, <3>1, <3>2, <3>4, OthersSettled
    <3>5. QED
      BY <1>5, <3>3, <3>4 DEF poll_end
  <2>3. CASE d = c
    <3>1. pause'[c] = Unpaused(c) /\ pollTime \in Nat /\ pause[c] \in Nat
      BY <2>1 DEF TypeOK
    <3>2. pause'[c] # 0 => pollTime' < pause'[c]
      BY <2>1, <3>1 DEF Unpaused, PausesAreThrottles
    <3>3. has_capacity(c)' <=> has_capacity(c)
      BY <2>1 DEF has_capacity
    <3>4. CASE Paused(c) \/ ~has_capacity(c)
      BY <2>3, <3>1, <3>2, <3>3, <3>4 DEF Paused, Unpaused
    <3>5. CASE ~Paused(c) /\ has_capacity(c)
      <4>1. etaQueue'[c] = etaQueue[c] \ Due(c) /\ SetNoEta(c)
        BY <1>5, <3>5, SetsType DEF poll_end
      <4>2. ASSUME NEW j \in etaQueue'[c] PROVE pollTime' < jobEta'[j]
        <5>1. j \in etaQueue[c] /\ j \notin Due(c) /\ j \in Job
          BY <4>1, SetsType
        <5>2. jobEta'[j] = jobEta[j] /\ jobEta[j] \in Nat
          BY <4>1, <5>1 DEF SetNoEta, TypeOK
        <5>3. QED
          BY <2>1, <3>1, <5>1, <5>2 DEF Due
      <4>3. QED
        BY <2>3, <3>2, <4>2
    <3>6. QED
      BY <3>4, <3>5
  <2>4. QED
    BY <2>2, <2>3
<1>6. ASSUME NEW c \in Channel, poll_job(c) PROVE PolledIsSettled'
  <2> SUFFICES ASSUME NEW d \in Channel, Ended(d)'
               PROVE  /\ pause'[d] # 0 => pollTime' < pause'[d]
                      /\ pause'[d] = 0 /\ has_capacity(d)' =>
                           \A j \in etaQueue'[d] : pollTime' < jobEta'[j]
    BY DEF PolledIsSettled
  <2>1. PICK j \in Popped(c) : poll_job(c)!(j)
    BY <1>6 DEF poll_job
  <2>2. CASE d = c
    <3>1. Throttle[c] # 0
      <4>1. Polled(c)
        BY <2>1
      <4>2. SUFFICES ASSUME UNCHANGED loopVars PROVE FALSE
        BY <2>1
      <4>3. PollOrder[c] \in Int
        BY ChannelsAssumption
      <4>4. QED
        BY <2>2, <4>1, <4>2, <4>3 DEF Ended, loopVars, Polled
    <3>2. pause'[c] = pollTime + Throttle[c] /\ pollTime' = pollTime
      BY <2>1, <3>1 DEF NextChannel, TypeOK
    <3>3. pollTime \in Nat /\ Throttle[c] \in Nat
      BY ChannelsAssumption DEF TypeOK
    <3>4. QED
      BY <2>2, <3>1, <3>2, <3>3
  <2>3. CASE d # c
    <3>1. Ended(d) /\ pollTime' = pollTime /\ pause'[d] = pause[d]
      <4>1. CASE Throttle[c] = 0
        BY <2>1, <4>1 DEF Ended, loopVars
      <4>2. CASE Throttle[c] # 0
        BY <2>1, <2>3, <4>2, EndsNext DEF NextChannel, TypeOK
      <4>3. QED
        BY <4>1, <4>2
    <3>2. running'[d] = running[d] /\ failed'[d] = failed[d] /\ etaQueue'[d] = etaQueue[d]
      BY <2>1, <2>3, SetsType
    <3>3. QED
      BY <2>1, <2>3, <3>1, <3>2, OthersSettled
  <2>4. QED
    BY <2>2, <2>3
<1>7. CASE wait_notification \/ initialize_databases
  <2>1. phase' = "notify"
    BY <1>7 DEF wait_notification, initialize_databases
  <2>2. QED
    BY <1>2, <2>1 DEF Ended
<1>8. ASSUME NEW j \in Job, Commits(j) PROVE PolledIsSettled'
  BY <1>1, <1>8, CommitFacts
<1>9. CASE Tick
  BY <1>1, <1>9 DEF Tick
<1>10. CASE UNCHANGED vars
  BY <1>1, <1>10 DEF vars
<1>11. QED
  BY <1>3, <1>4, <1>5, <1>6, <1>7, <1>8, <1>9, <1>10, Zenon DEF Next, Poll, Commits

-----------------------------------------------------------------------------
(* The theorems *)

LEMMA InitInvariant == Init => IInv
<1> SUFFICES ASSUME Init PROVE IInv
  OBVIOUS
<1>1. TypeOK
  BY InitType
<1>2. JobsFlow
  <2>1. \A j \in Job : AtRest(j)
    BY DEF Init, AtRest, Held
  <2>2. QED
    BY <2>1, RestFlows, FlowOfJobs
<1>3. \A j \in Job : row[j] \notin {"active", "failed"}
  BY DEF Init
<1>4. RunningBounded
  BY FS_EmptySet, ChannelsAssumption DEF Init, RunningBounded
<1>5. SlotsAreFreed /\ FailureStops /\ PausesAreThrottles
  BY ChannelsAssumption DEF Init, SlotsAreFreed, FailureStops, PausesAreThrottles
<1>6. PolledIsSettled
  BY DEF Init, PolledIsSettled, Ended
<1>7. QED
  BY <1>1, <1>2, <1>3, <1>4, <1>5, <1>6 DEF IInv, ActiveIsRunning, FailedIsKnown

LEMMA InvariantStep == IInv /\ [Next]_vars => IInv'
BY TypeStep, FlowStep, ActiveStep, BoundedStep, SlotsStep, FailedStep, FailureStopsStep, PausesStep,
   SettledStep DEF IInv

\* The invariant holds in every state of the runner, whatever the tree of
\* channels, their capacities and throttles, and whatever happens to the rows.
THEOREM Invariance == Spec => []IInv
<1>1. QED
  BY InitInvariant, InvariantStep, PTL DEF Spec

\* The variables have their types.
THEOREM TypeCorrectness == Spec => []TypeOK
<1>1. IInv => TypeOK
  BY DEF IInv
<1>2. QED
  BY Invariance, <1>1, PTL

\* A job is in one place of the tree: "running" from its own channel down and
\* queued in the next one (channels.py:393).
THEOREM JobsFlowDown == Spec => []JobsFlow
<1>1. IInv => JobsFlow
  BY DEF IInv
<1>2. QED
  BY Invariance, <1>1, PTL

\* The slots that the channels count are those of rows that are enqueued or
\* started, or about to be notified, or back in wait_dependencies.
THEOREM FreedSlots == Spec => []SlotsAreFreed
<1>1. IInv => SlotsAreFreed
  BY DEF IInv
<1>2. QED
  BY Invariance, <1>1, PTL

\* The enqueued and started rows below a channel are within its capacity.
LEMMA CapacityFromInvariant == IInv => CapacityKept
<1> SUFFICES ASSUME IInv, NEW c \in Channel, Capacity[c] # 0
             PROVE  Cardinality({j \in Job : row[j] = "active" /\ c \in Path[ChannelOf[j]]})
                      <= Capacity[c]
  BY DEF CapacityKept
<1> DEFINE S == {j \in Job : row[j] = "active" /\ c \in Path[ChannelOf[j]]}
<1>1. S \subseteq running[c]
  BY DEF IInv, ActiveIsRunning
<1>2. running[c] \subseteq Job
  BY SetsType DEF IInv
<1>3. Cardinality(running[c]) <= Capacity[c] /\ Capacity[c] \in Nat
  BY ChannelsAssumption DEF IInv, RunningBounded
<1>4. IsFiniteSet(running[c]) /\ Cardinality(running[c]) \in Nat
  BY <1>2, FiniteJobs
<1> HIDE DEF S
<1>5. Cardinality(S) <= Cardinality(running[c]) /\ Cardinality(S) \in Nat
  BY <1>1, <1>4, FS_Subset, FS_CardinalityType
<1>6. Cardinality(S) <= Capacity[c]
  BY <1>3, <1>4, <1>5
<1>7. QED
  BY <1>6 DEF S

\* The capacity of every channel is respected by the rows themselves, through
\* restarts of the runner and notifications that have not been processed.
THEOREM CapacitiesAreKept == Spec => []CapacityKept
<1>1. QED
  BY Invariance, CapacityFromInvariant, PTL

\* A runner that goes to sleep asks for a time that is later than its poll.
LEMMA WakeupFromInvariant == IInv => WakeupIsLater
<1> SUFFICES ASSUME IInv, phase = "wait", NEW t \in WakeupTimes
             PROVE  pollTime < t
  BY DEF WakeupIsLater
<1>1. PICK c \in Channel : /\ Asks(c)
                           /\ t \in IF pause[c] # 0 THEN {pause[c]}
                                    ELSE {jobEta[j] : j \in etaQueue[c]}
  BY DEF WakeupTimes
<1>2. has_capacity(c) /\ Ended(c)
  BY <1>1, PathFacts DEF Asks, Ended
<1>3. CASE pause[c] # 0
  BY <1>1, <1>2, <1>3 DEF IInv, PolledIsSettled
<1>4. CASE pause[c] = 0
  BY <1>1, <1>2, <1>4 DEF IInv, PolledIsSettled
<1>5. QED
  BY <1>3, <1>4

\* The runner does not spin: get_wakeup_time never names a time that is past.
THEOREM WakeupsAreLater == Spec => []WakeupIsLater
<1>1. QED
  BY Invariance, WakeupFromInvariant, PTL

\* Only the poll of the root sends a job, and by then the channel of the job
\* has looked for failures.
LEMMA SequentialStep ==
  ASSUME IInv, [Next]_vars, NEW i \in Job, NEW j \in Job,
         row[j] # "active", row'[j] = "active", row[i] = "failed", ~notified[i]
  PROVE  ChannelOf[i] \notin Sequential \cap {ChannelOf[j]}
<1> USE DEF IInv
<1> SUFFICES ASSUME ChannelOf[i] \in Sequential, ChannelOf[i] = ChannelOf[j] PROVE FALSE
  OBVIOUS
<1> DEFINE o == ChannelOf[j]
<1>1. o \in Channel /\ o \in Path[o]
  BY ChannelsAssumption, PathFacts
<1>2. i \in failed[o]
  BY DEF FailedIsKnown
<1>3. poll_job(Root)
  <2>1. CASE UNCHANGED row
    BY <2>1
  <2>2. ASSUME NEW k \in Job, notify(k) \/ Commits(k) PROVE FALSE
    BY <2>2, NotifyFacts, CommitFacts DEF TypeOK
  <2>3. ASSUME NEW c \in Channel, poll_end(c) PROVE FALSE
    BY <2>3 DEF poll_end, rowVars
  <2>4. ASSUME NEW c \in Channel, poll_job(c), c # Root PROVE FALSE
    BY <2>4, PollFacts
  <2>5. ~initialize_databases
    BY RestartFacts
  <2>6. QED
    BY <2>1, <2>2, <2>3, <2>4, <2>5, OtherSteps
<1>4. PICK k \in Job : In(k, Root) /\ has_capacity(Root) /\ row' = [row EXCEPT ![k] = "active"]
  BY <1>3, PollFacts, ChannelsAssumption
<1>5. k = j
  BY <1>4 DEF TypeOK
<1>6. CASE o = Root
  BY <1>2, <1>4, <1>6 DEF has_capacity
<1>7. CASE o # Root
  <2>1. j \in running[o]
    BY <1>1, <1>4, <1>5, <1>7, FlowOfJobs, RootHolds
  <2>2. QED
    BY <1>2, <2>1 DEF FailureStops
<1>8. QED
  BY <1>6, <1>7

\* No job of a sequential channel is sent while the runner knows of a failed
\* job of that channel.
THEOREM SequentialBlocking == Spec => SequentialBlocks
<1>1. IInv /\ [Next]_vars =>
        [\A i, j \in Job :
           /\ row[j] # "active" /\ row'[j] = "active"
           /\ row[i] = "failed" /\ ~notified[i]
           => ChannelOf[i] \notin Sequential \cap {ChannelOf[j]}]_vars
  BY SequentialStep
<1>2. QED
  BY Invariance, <1>1, PTL DEF Spec, SequentialBlocks

=============================================================================
