--------------------------- MODULE MCAddons_proofs ---------------------------
(***************************************************************************)
(* What the general theorems about the components of MCAddons say of their *)
(* instances there: the behaviours that TLC explores are behaviours of     *)
(* each of them.  The audit logs, the brand filter and the imports of      *)
(* statements have their inductive invariants here, under the names of     *)
(* their instances and for any value of their constants.                   *)
(***************************************************************************)
EXTENDS MCAddons, SequencesExt, FiniteSetTheorems, SequenceTheorems,
        WellFoundedInduction, TLAPS

LEMMA RecordsRun == Spec => Recording!Spec
<1>1. Init => Recording!Init
  BY DEF Init
<1>2. [Next]_vars => [Recording!Next]_(Recording!recordVars)
  BY DEF Next, vars, recordVars, Recording!recordVars
<1> QED
  BY <1>1, <1>2, PTL DEF Spec, Recording!Spec

LEMMA RulesRun == Spec => Rules!Spec
<1>1. Init => Rules!Init
  BY DEF Init
<1>2. [Next]_vars => [Rules!Next]_(Rules!ruleVars)
  BY DEF Next, vars, ruleVars, Rules!ruleVars
<1> QED
  BY <1>1, <1>2, PTL DEF Spec, Rules!Spec

LEMMA RangesRun == Spec => Ranges!Spec
<1>1. Init => Ranges!Init
  BY DEF Init
<1>2. [Next]_vars => [Ranges!Next]_(Ranges!rangeVars)
  BY DEF Next, vars, rangeVars, Ranges!rangeVars
<1> QED
  BY <1>1, <1>2, PTL DEF Spec, Ranges!Spec

\* job.py, job_record_with_same_identity_key: two active jobs share a key only for one of
\* the reasons that ActiveJobsAreUnique names.
THEOREM KeysAreUnique == Spec => []ActiveJobsAreUnique
<1>1. Recording!Spec => []Recording!ActiveJobsAreUnique
  BY Constants, Recording!KeysAreUnique
<1> QED
  BY RecordsRun, <1>1, PTL DEF ActiveJobsAreUnique

\* models/queue_job.py, autovacuum: only jobs that have been settled for long are removed.
THEOREM RemovedHasEnded == Spec => []RemovableHasEnded
<1>1. Recording!Spec => []Recording!RemovableHasEnded
  BY Constants, Recording!RemovedHasEnded
<1> QED
  BY RecordsRun, <1>1, PTL DEF RemovableHasEnded

\* auditlog/models/rule.py: a process in sync audits what the confirmed rules ask for.
THEOREM RegistriesMatch == Spec => []RegistryMatchesRules
<1>1. Rules!Spec => []Rules!RegistryMatchesRules
  BY Constants, Rules!RegistriesMatch
<1> QED
  BY RulesRun, <1>1, PTL DEF RegistryMatchesRules

\* date_range.py, _validate_range: ranges overlap only when no check has compared them.
THEOREM OverlapsAreUnchecked == Spec => []NoOverlap
<1>1. Ranges!Spec => []Ranges!NoOverlap
  BY Constants, Ranges!OverlapsAreUnchecked
<1> QED
  BY RangesRun, <1>1, PTL DEF NoOverlap

\* date_range_generator.py, autogenerate_ranges: the scheduled task reaches its horizon.
THEOREM RunsAreCovered == Spec => []RunsCover
<1>1. Ranges!Spec => []Ranges!RunsCover
  BY Constants, Ranges!RunsAreCovered
<1> QED
  BY RangesRun, <1>1, PTL DEF RunsCover
-----------------------------------------------------------------------------
(* The audit logs of AuditLogs *)

\* An instance has the operators of the library under names of its own.
LEMMA LogsOperators ==
  ASSUME NEW S
  PROVE  /\ Logs!IsFiniteSet(S) <=> IsFiniteSet(S)
         /\ Logs!Cardinality(S) = Cardinality(S)
         /\ Logs!SetToSeq(S) = SetToSeq(S)
         /\ Logs!Front(S) = Front(S)
<1>1. Logs!IsFiniteSet(S) <=> IsFiniteSet(S)
  BY DEF Logs!IsFiniteSet, IsFiniteSet
<1>2. Logs!Cardinality(S) = Cardinality(S)
  BY DEF Logs!Cardinality, Cardinality
<1>3. Logs!SetToSeq(S) = SetToSeq(S)
  BY <1>2 DEF Logs!SetToSeq, SetToSeq, Logs!IsInjective, IsInjective
<1>4. Logs!Front(S) = Front(S)
  BY DEF Logs!Front, Front
<1> QED
  BY <1>1, <1>2, <1>3, <1>4

LogLines == UNION {[F -> [old : Val, new : Val]] : F \in SUBSET (Field \ Hidden)}
Log == [method : {"create", "write", "unlink", "read", "export_data"},
        res_id : Rec \cup SUBSET Rec, lines : LogLines]

\* Types, with those that TypeOK leaves to the reader: logs and their lines.
LogTypes == /\ db \in [Rec -> [Field -> Val] \cup {None}]
            /\ used \subseteq Rec /\ stack \in Seq(Logs!Frame) /\ guard \subseteq SUBSET Rec
            /\ logs \in Seq(Log) /\ excluded \in BOOLEAN /\ unlogged \subseteq Rec \X Field
            /\ calls \in 0 .. MaxLogCalls

\* A frame that will log what becomes of a record when it ends.
Covers(i, r) == /\ stack[i].op \in {"create", "write"} /\ ~stack[i].silent
                /\ r \in stack[i].recs

FrameOK(i) ==
    /\ stack[i].since <= Len(logs) /\ stack[i].recs \subseteq used
    /\ stack[i].silent => stack[i].op = "write" /\ stack[i].recs \in guard
    /\ stack[i].op = "write" /\ LogType = "full" => stack[i].recs \in guard
    /\ stack[i].op = "write" => \A r \in stack[i].recs : db[r] # None /\ stack[i].old[r] # None
    /\ stack[i].op = "create" => \A r \in stack[i].recs : stack[i].done <=> db[r] # None
    /\ stack[i].op \in {"create", "unlink"} =>
          \A j \in 1 .. i - 1 : stack[i].recs \cap stack[j].recs = {}

Stacked == /\ \A i \in DOMAIN stack : FrameOK(i)
           /\ \A r \in Rec : db[r] # None => r \in used
           /\ stack = <<>> => guard = {}

Settled(r, f) == ~Logs!WillLog(r) /\ db[r] # None /\ <<r, f>> \notin unlogged
                    => Logs!Logged(r, f) = db[r][f]
Started(i, r, f) ==
    /\ stack[i].op = "write" /\ ~stack[i].silent /\ r \in stack[i].recs
    /\ \A j \in 1 .. i - 1 : ~Covers(j, r)
    /\ ~Logs!Told(r, f, stack[i].since) /\ <<r, f>> \notin unlogged
    => Logs!Logged(r, f) = stack[i].old[r][f]
Tells == LogType = "full" /\ ~excluded =>
            \A r \in Rec, f \in Field \ Hidden :
               Settled(r, f) /\ \A i \in DOMAIN stack : Started(i, r, f)

LogInv == LogTypes /\ Stacked /\ Tells

-----------------------------------------------------------------------------
\* A set of positions that is not empty has a last one.
LEMMA LastPosition ==
  ASSUME NEW n \in Nat, NEW I, I \subseteq 1 .. n, I # {}
  PROVE  LET m == CHOOSE i \in I : \A j \in I : j <= i
         IN  m \in I /\ \A j \in I : j <= m
<1> DEFINE T == {n - i : i \in I}
           R == OpToRel(<, Nat)
<1>1. T \subseteq Nat /\ T # {}
  <2>1. \A i \in I : n - i \in Nat
    OBVIOUS
  <2> QED
    BY <2>1
<1>2. PICK t \in T : \A y \in T : ~(<<y, t>> \in R)
  <2> HIDE DEF R, T
  <2>1. IsWellFoundedOn(R, Nat)
    BY NatLessThanWellFounded DEF R
  <2>2. QED
    BY <2>1, <1>1, WFMin
<1>3. PICK m \in I : t = n - m
  OBVIOUS
<1>4. \A j \in I : j <= m
  <2> SUFFICES ASSUME NEW j \in I PROVE j <= m
    OBVIOUS
  <2>1. n - j \in T /\ n - j \in Nat /\ t \in Nat
    BY <1>1
  <2>2. ~(n - j < t)
    BY <2>1, <1>2 DEF OpToRel
  <2>3. j \in Nat /\ m \in Nat
    <3> HIDE DEF T, R
    <3> QED OBVIOUS
  <2> QED
    BY <1>3, <2>2, <2>3
<1> QED
  BY <1>4

\* create_logs: the entries about a set of records that has an entry for each.
LEMMA ListsEach ==
  ASSUME NEW S, IsFiniteSet(S)
  PROVE  /\ Cardinality(S) \in Nat
         /\ SetToSeq(S) \in [1 .. Cardinality(S) -> S]
         /\ \A r \in S : \E i \in 1 .. Cardinality(S) : SetToSeq(S)[i] = r
         /\ \A i, j \in 1 .. Cardinality(S) : SetToSeq(S)[i] = SetToSeq(S)[j] => i = j
<1> DEFINE n == Cardinality(S)
<1>1. n \in Nat /\ ExistsBijection(1 .. n, S)
  BY FS_CardinalityType
<1>2. \E f \in [1 .. n -> S] : IsInjective(f)
  BY <1>1 DEF ExistsBijection, Bijection, Injection
<1>3. SetToSeq(S) \in [1 .. n -> S] /\ IsInjective(SetToSeq(S))
  BY <1>2 DEF SetToSeq
<1>4. SetToSeq(S) \in Injection(1 .. n, S)
  BY <1>3 DEF Injection
<1>5. Cardinality(1 .. n) = n
  BY <1>1, FS_Interval
<1>6. SetToSeq(S) \in Surjection(1 .. n, S)
  BY <1>4, <1>5, FS_Injection
<1>7. \A i, j \in 1 .. n : SetToSeq(S)[i] = SetToSeq(S)[j] => i = j
  BY <1>4 DEF Injection, IsInjective
<1> QED
  BY <1>1, <1>3, <1>6, <1>7 DEF Surjection

\* Logs are only appended.
Appended == /\ logs' \in Seq(Log) /\ Len(logs) <= Len(logs')
            /\ \A i \in 1 .. Len(logs) : logs'[i] = logs[i]

\* The entries that are new are about these records, unless the user is excluded.
Created(recs, method, lines) ==
    /\ Appended
    /\ \A i \in Len(logs) + 1 .. Len(logs') :
          /\ logs'[i].method = method /\ logs'[i].res_id \in recs
          /\ logs'[i].lines = lines[logs'[i].res_id]
    /\ ~excluded => \A r \in recs : DOMAIN lines[r] # {} =>
          \E i \in Len(logs) + 1 .. Len(logs') : logs'[i].res_id = r

LEMMA CreatesLogs ==
  ASSUME Logs!AuditLogConstants, logs \in Seq(Log), ~excluded,
         NEW recs \in SUBSET Rec, NEW method \in {"create", "write", "unlink", "read"},
         NEW lines \in [recs -> LogLines], logs' = Logs!create_logs(recs, method, lines)
  PROVE  Created(recs, method, lines)
<1> DEFINE S == {r \in recs : method = "unlink" \/ DOMAIN lines[r] # {}}
           n == Cardinality(S)
           entry(r) == [method |-> method, res_id |-> r, lines |-> lines[r]]
           ext == [i \in 1 .. n |-> entry(SetToSeq(S)[i])]
           new == logs \o ext
<1>1. IsFiniteSet(S)
  BY FS_Subset, LogsOperators DEF Logs!AuditLogConstants
<1>2. /\ n \in Nat /\ SetToSeq(S) \in [1 .. n -> S]
      /\ \A r \in S : \E i \in 1 .. n : SetToSeq(S)[i] = r
  BY <1>1, ListsEach
<1>3. \A r \in S : entry(r) \in Log
  BY DEF Log
<1>4. logs' = new
  <2>1. logs' = logs \o [i \in 1 .. Logs!Cardinality(S) |-> entry(Logs!SetToSeq(S)[i])]
    BY DEF Logs!create_logs
  <2>2. Logs!Cardinality(S) = n /\ Logs!SetToSeq(S) = SetToSeq(S)
    BY LogsOperators
  <2> HIDE DEF S, n, entry
  <2> QED
    BY <2>1, <2>2
<1> HIDE DEF S, n
<1>5. ext \in [1 .. n -> Log]
  <2> HIDE DEF entry
  <2> QED BY <1>2, <1>3
<1>6. ext \in Seq(Log) /\ Len(ext) = n
  BY <1>5, <1>2
<1>7. \A i \in 1 .. n : ext[i] = entry(SetToSeq(S)[i])
  OBVIOUS
<1> HIDE DEF ext
<1>8. /\ new \in Seq(Log) /\ Len(new) = Len(logs) + n /\ Len(logs) \in Nat
      /\ \A i \in 1 .. Len(logs) : new[i] = logs[i]
      /\ \A i \in Len(logs) + 1 .. Len(new) :
           new[i] = ext[i - Len(logs)] /\ i - Len(logs) \in 1 .. n
  <2>1. Len(logs) \in Nat
    OBVIOUS
  <2>2. /\ new \in Seq(Log) /\ Len(new) = Len(logs) + n
        /\ \A i \in 1 .. Len(logs) + n :
              new[i] = IF i <= Len(logs) THEN logs[i] ELSE ext[i - Len(logs)]
    BY <1>6, ConcatProperties
  <2> HIDE DEF new
  <2> QED
    BY <2>1, <2>2, <1>2
<1>9. ASSUME NEW i \in Len(logs) + 1 .. Len(new)
      PROVE  new[i].method = method /\ new[i].res_id \in recs
             /\ new[i].lines = lines[new[i].res_id]
  <2>1. SetToSeq(S)[i - Len(logs)] \in S /\ new[i] = entry(SetToSeq(S)[i - Len(logs)])
    BY <1>2, <1>7, <1>8
  <2>2. SetToSeq(S)[i - Len(logs)] \in recs
    BY <2>1 DEF S
  <2> QED
    BY <2>1, <2>2
<1>10. ASSUME NEW r \in recs, DOMAIN lines[r] # {}
       PROVE  \E i \in Len(logs) + 1 .. Len(new) : new[i].res_id = r
  <2>1. r \in S
    BY <1>10 DEF S
  <2>2. PICK k \in 1 .. n : SetToSeq(S)[k] = r
    BY <2>1, <1>2
  <2>3. Len(logs) + k \in Len(logs) + 1 .. Len(new) /\ (Len(logs) + k) - Len(logs) = k
    BY <1>8, <1>2
  <2>4. new[Len(logs) + k] = entry(r)
    BY <2>2, <2>3, <1>7, <1>8
  <2> QED
    BY <2>3, <2>4
<1>11. Len(logs) <= Len(new)
  BY <1>8, <1>2
<1> HIDE DEF new
<1> QED
  BY <1>4, <1>8, <1>9, <1>10, <1>11 DEF Created, Appended

\* An entry that tells the value of a field.
Tell(e, r, f) == e.res_id = r /\ e.method # "read" /\ e.method # "unlink" /\ f \in DOMAIN e.lines

LEMMA LoggedStays ==
  ASSUME logs \in Seq(Log), Appended, NEW r, NEW f,
         \A i \in Len(logs) + 1 .. Len(logs') : ~Tell(logs'[i], r, f)
  PROVE  Logs!Logged(r, f)' = Logs!Logged(r, f)
<1>1. Len(logs) \in Nat /\ Len(logs') \in Nat /\ DOMAIN logs = 1 .. Len(logs)
      /\ DOMAIN logs' = 1 .. Len(logs')
  BY DEF Appended
<1>2. Logs!Told_at(r, f)' = Logs!Told_at(r, f)
  BY <1>1 DEF Logs!Told_at, Tell, Appended
<1>3. Logs!Told_at(r, f) \subseteq 1 .. Len(logs)
  BY <1>1 DEF Logs!Told_at
<1> DEFINE m == CHOOSE i \in Logs!Told_at(r, f) : \A j \in Logs!Told_at(r, f) : j <= i
<1>4. Logs!Told_at(r, f) # {} => m \in Logs!Told_at(r, f)
  BY <1>1, <1>3, LastPosition
<1>5. Logs!Told_at(r, f) # {} => logs'[m] = logs[m]
  BY <1>3, <1>4 DEF Appended
<1>6. Logs!Logged(r, f) = IF Logs!Told_at(r, f) = {} THEN False ELSE logs[m].lines[f].new
  BY DEF Logs!Logged
<1>7. Logs!Logged(r, f)' = IF Logs!Told_at(r, f)' = {} THEN False
        ELSE logs'[CHOOSE i \in Logs!Told_at(r, f)' : \A j \in Logs!Told_at(r, f)' :
            j <= i].lines[f].new
  BY DEF Logs!Logged
<1> QED
  BY <1>2, <1>5, <1>6, <1>7

LEMMA LoggedAnew ==
  ASSUME logs \in Seq(Log), Appended, NEW r, NEW f, NEW v,
         \A i \in Len(logs) + 1 .. Len(logs') :
            Tell(logs'[i], r, f) => logs'[i].lines[f].new = v,
         \E i \in Len(logs) + 1 .. Len(logs') : Tell(logs'[i], r, f)
  PROVE  Logs!Logged(r, f)' = v
<1>1. Len(logs) \in Nat /\ Len(logs') \in Nat /\ DOMAIN logs = 1 .. Len(logs)
      /\ DOMAIN logs' = 1 .. Len(logs')
  BY DEF Appended
<1>2. \A i : i \in Logs!Told_at(r, f)' <=> i \in 1 .. Len(logs') /\ Tell(logs'[i], r, f)
  BY <1>1 DEF Logs!Told_at, Tell
<1> DEFINE I == Logs!Told_at(r, f)'
           m == CHOOSE i \in I : \A j \in I : j <= i
<1>3. PICK k \in Len(logs) + 1 .. Len(logs') : Tell(logs'[k], r, f)
  OBVIOUS
<1>4. I \subseteq 1 .. Len(logs') /\ k \in I
  BY <1>1, <1>2, <1>3
<1>5. m \in I /\ k <= m
  BY <1>1, <1>4, LastPosition
<1>6. m \in Len(logs) + 1 .. Len(logs') /\ Tell(logs'[m], r, f)
  BY <1>1, <1>2, <1>3, <1>5
<1>7. Logs!Logged(r, f)' = logs'[m].lines[f].new
  BY <1>4 DEF Logs!Logged
<1> QED
  BY <1>6, <1>7

\* The lines of an entry are typed, and are about the fields that are not hidden.
LEMMA LinesTyped ==
  ASSUME Logs!AuditLogConstants, NEW fields \in SUBSET Field, NEW old \in Logs!Values,
         NEW new \in Logs!Values
  PROVE  /\ Logs!Lines(fields, old, new) \in LogLines
         /\ DOMAIN Logs!Lines(fields, old, new) = fields \ Hidden
<1>1. \A f \in Field : f \in DOMAIN old => old[f] \in Val
  BY DEF Logs!Values
<1>2. \A f \in Field : f \in DOMAIN new => new[f] \in Val
  BY DEF Logs!Values
<1>3. False \in Val
  BY DEF Logs!AuditLogConstants
<1> DEFINE F == fields \ Hidden
<1>4. Logs!Lines(fields, old, new) \in [F -> [old : Val, new : Val]]
  BY <1>1, <1>2, <1>3 DEF Logs!Lines
<1>5. F \in SUBSET (Field \ Hidden)
  OBVIOUS
<1> QED
  BY <1>4, <1>5 DEF LogLines

LEMMA RowsAreValues ==
  ASSUME Logs!AuditLogConstants
  PROVE  /\ <<>> \in Logs!Values /\ [Field -> Val] \subseteq Logs!Values
         /\ \A S \in SUBSET Field : [S -> Val] \subseteq Logs!Values
         /\ DOMAIN <<>> = {}
         /\ \A v \in Logs!Values : DOMAIN v \subseteq Field /\ \A f \in DOMAIN v : v[f] \in Val
<1>1. <<>> \in [{} -> Val] /\ DOMAIN <<>> = {}
  OBVIOUS
<1> QED
  BY <1>1 DEF Logs!Values

\* What create_logs leaves behind, whether the user is excluded or not.
LEMMA LogsGrow ==
  ASSUME Logs!AuditLogConstants, LogTypes, NEW recs \in SUBSET Rec,
         NEW method \in {"create", "write", "unlink", "read"},
         NEW lines \in [recs -> LogLines], logs' = Logs!create_logs(recs, method, lines)
  PROVE  Created(recs, method, lines)
<1>1. CASE excluded
  <2>1. logs' = logs /\ logs \in Seq(Log)
    BY <1>1 DEF Logs!create_logs, LogTypes
  <2>2. Len(logs) \in Nat /\ Len(logs) + 1 .. Len(logs) = {}
    BY <2>1
  <2> QED
    BY <2>1, <2>2, <1>1 DEF Appended, Created
<1>2. CASE ~excluded
  BY <1>2, CreatesLogs DEF LogTypes
<1> QED
  BY <1>1, <1>2

-----------------------------------------------------------------------------
(* A call begins *)

NewFrame(op, recs, vals, silent) ==
  [op |-> op, recs |-> recs, vals |-> vals, old |-> db, since |-> Len(logs),
   silent |-> silent, done |-> FALSE]

LEMMA FramePushed ==
  ASSUME Logs!AuditLogConstants, LogTypes, NEW op \in {"create", "write", "unlink"},
         NEW recs \in SUBSET Rec,
         NEW vals \in Logs!Values, NEW silent \in BOOLEAN, Logs!Push(op, recs, vals, silent)
  PROVE  /\ stack' \in Seq(Logs!Frame) /\ Len(stack') = Len(stack) + 1 /\ Len(stack) \in Nat
         /\ \A i \in 1 .. Len(stack) : stack'[i] = stack[i]
         /\ stack'[Len(stack) + 1] = NewFrame(op, recs, vals, silent)
         /\ DOMAIN stack = 1 .. Len(stack) /\ DOMAIN stack' = 1 .. Len(stack) + 1
         /\ stack' # <<>> /\ calls' \in 0 .. MaxLogCalls
<1> DEFINE c == NewFrame(op, recs, vals, silent)
<1>1. Len(logs) \in Nat
  BY DEF LogTypes
<1>2. c \in Logs!Frame
  BY <1>1 DEF NewFrame, Logs!Frame, LogTypes
<1>3. stack' = Append(stack, c) /\ stack \in Seq(Logs!Frame)
  BY DEF Logs!Push, NewFrame, LogTypes
<1>4. calls' \in 0 .. MaxLogCalls
  BY DEF Logs!Push, LogTypes, Logs!AuditLogConstants
<1> HIDE DEF c
<1>5. stack' \in Seq(Logs!Frame) /\ Len(stack') = Len(stack) + 1 /\ Len(stack) \in Nat
  BY <1>2, <1>3, AppendProperties
<1>6. stack' # <<>> /\ stack'[Len(stack) + 1] = c /\ \A i \in 1 .. Len(stack) : stack'[i] = stack[i]
  BY <1>2, <1>3, AppendProperties
<1>7. DOMAIN stack = 1 .. Len(stack) /\ DOMAIN stack' = 1 .. Len(stack) + 1
  BY <1>3, <1>5
<1> QED
  BY <1>4, <1>5, <1>6, <1>7 DEF c

LEMMA FrameTyped ==
  ASSUME stack \in Seq(Logs!Frame), NEW i \in 1 .. Len(stack)
  PROVE  /\ stack[i] \in Logs!Frame /\ stack[i].op \in {"create", "write", "unlink"}
         /\ stack[i].recs \in SUBSET Rec /\ stack[i].vals \in Logs!Values
         /\ stack[i].old \in [Rec -> [Field -> Val] \cup {None}]
         /\ stack[i].since \in Nat /\ stack[i].silent \in BOOLEAN
         /\ stack[i].done \in BOOLEAN
<1>1. stack[i] \in Logs!Frame
  OBVIOUS
<1> QED
  BY <1>1 DEF Logs!Frame

\* A frame stays right while nothing is taken from what it relies on.
LEMMA FrameStays ==
  ASSUME NEW i \in Nat, FrameOK(i), \A j \in 1 .. i : stack'[j] = stack[j],
         db' = db, used \subseteq used', guard \subseteq guard', 
         Len(logs) \in Nat, Len(logs') \in Nat, Len(logs) <= Len(logs'),
         i \in 1 .. i, stack[i].since \in Nat
  PROVE  FrameOK(i)'
<1>1. stack'[i] = stack[i]
  OBVIOUS
<1>2. \A j \in 1 .. i - 1 : stack'[j] = stack[j]
  OBVIOUS
<1>3. stack[i].since <= Len(logs')
  BY DEF FrameOK
<1> QED
  BY <1>1, <1>2, <1>3 DEF FrameOK

LEMMA StackedPush ==
  ASSUME Logs!AuditLogConstants, LogTypes, Stacked, NEW op \in {"create", "write", "unlink"},
         NEW recs \in SUBSET Rec, NEW vals \in Logs!Values, NEW silent \in BOOLEAN,
         Logs!Push(op, recs, vals, silent),
         db' = db, used \subseteq used', guard \subseteq guard',
         Len(logs') \in Nat, Len(logs) <= Len(logs'), recs \subseteq used',
         silent => op = "write" /\ recs \in guard',
         op = "write" /\ LogType = "full" => recs \in guard',
         op = "write" => \A r \in recs : db[r] # None,
         op = "create" => \A r \in recs : db[r] = None,
         op \in {"create", "unlink"} => \A j \in 1 .. Len(stack) : recs \cap stack[j].recs = {}
  PROVE  Stacked'
<1>1. /\ stack' \in Seq(Logs!Frame) /\ Len(stack') = Len(stack) + 1 /\ Len(stack) \in Nat
      /\ \A i \in 1 .. Len(stack) : stack'[i] = stack[i]
      /\ stack'[Len(stack) + 1] = NewFrame(op, recs, vals, silent)
      /\ DOMAIN stack = 1 .. Len(stack) /\ DOMAIN stack' = 1 .. Len(stack) + 1
      /\ stack' # <<>>
  BY FramePushed
<1>2. Len(logs) \in Nat
  BY DEF LogTypes
<1>3. ASSUME NEW i \in 1 .. Len(stack)
      PROVE  FrameOK(i)'
  <2>1. FrameOK(i) /\ i \in Nat /\ i \in 1 .. i
    BY <1>1 DEF Stacked
  <2>2. stack[i].since \in Nat
    BY <1>1, FrameTyped DEF LogTypes
  <2>3. \A j \in 1 .. i : stack'[j] = stack[j]
    BY <1>1
  <2> QED
    BY <1>2, <2>1, <2>2, <2>3, FrameStays
<1>4. ASSUME NEW n, n = Len(stack) + 1
      PROVE  FrameOK(n)'
  <2> DEFINE c == stack'[n]
  <2>1. /\ c.op = op /\ c.recs = recs /\ c.old = db /\ c.since = Len(logs)
        /\ c.silent = silent /\ c.done = FALSE
    BY <1>1, <1>4 DEF NewFrame
  <2>2. \A j \in 1 .. n - 1 : stack'[j] = stack[j] /\ j \in 1 .. Len(stack)
    BY <1>1, <1>4
  <2>3. op \in {"create", "unlink"} => \A j \in 1 .. n - 1 : recs \cap stack'[j].recs = {}
    BY <2>2
  <2>4. c.since <= Len(logs') /\ c.recs \subseteq used'
    BY <2>1
  <2>5. c.silent => c.op = "write" /\ c.recs \in guard'
    BY <2>1
  <2>6. c.op = "write" /\ LogType = "full" => c.recs \in guard'
    BY <2>1
  <2>7. c.op = "write" => \A r \in c.recs : db'[r] # None /\ c.old[r] # None
    BY <2>1
  <2>8. c.op = "create" => \A r \in c.recs : c.done <=> db'[r] # None
    BY <2>1
  <2>9. c.op \in {"create", "unlink"} =>
           \A j \in 1 .. n - 1 : c.recs \cap stack'[j].recs = {}
    BY <2>1, <2>3
  <2> QED
    BY <2>4, <2>5, <2>6, <2>7, <2>8, <2>9 DEF FrameOK
<1>5. \A r \in Rec : db'[r] # None => r \in used'
  BY DEF Stacked
<1>6. \A i \in DOMAIN stack' : i \in 1 .. Len(stack) \/ i = Len(stack) + 1
  BY <1>1
<1> QED
  BY <1>1, <1>3, <1>4, <1>5, <1>6 DEF Stacked

\* What a log tells, and what is under way, for a call that begins.
LEMMA CoversPush ==
  ASSUME Logs!AuditLogConstants, LogTypes, NEW op \in {"create", "write", "unlink"},
         NEW recs \in SUBSET Rec, NEW vals \in Logs!Values, NEW silent \in BOOLEAN,
         Logs!Push(op, recs, vals, silent)
  PROVE  /\ \A i \in 1 .. Len(stack) : \A r : Covers(i, r)' <=> Covers(i, r)
         /\ \A r : Logs!WillLog(r)' <=> Logs!WillLog(r) \/ (r \in recs /\ ~silent /\ op # "unlink")
<1>1. /\ Len(stack) \in Nat
      /\ \A i \in 1 .. Len(stack) : stack'[i] = stack[i]
      /\ stack'[Len(stack) + 1] = NewFrame(op, recs, vals, silent)
      /\ DOMAIN stack = 1 .. Len(stack) /\ DOMAIN stack' = 1 .. Len(stack) + 1
  BY FramePushed
<1>2. \A i \in DOMAIN stack' : i \in 1 .. Len(stack) \/ i = Len(stack) + 1
  BY <1>1
<1>3. Len(stack) + 1 \in DOMAIN stack' /\ \A i \in 1 .. Len(stack) : i \in DOMAIN stack'
  BY <1>1
<1> DEFINE c == stack'[Len(stack) + 1]
<1>4. c.op = op /\ c.recs = recs /\ c.silent = silent
  BY <1>1 DEF NewFrame
<1> QED
  BY <1>1, <1>2, <1>3, <1>4 DEF Covers, Logs!WillLog

\* Nothing new is told about a field: what was settled or begun stays so.
LEMMA StartedStays ==
  ASSUME logs \in Seq(Log), Appended, NEW i \in Nat, NEW r, NEW f, Started(i, r, f),
         \A j \in 1 .. i : stack'[j] = stack[j], i \in 1 .. i,
         NEW from \in Nat, from = stack[i].since,
         \A k \in Len(logs) + 1 .. Len(logs') : ~Tell(logs'[k], r, f),
         <<r, f>> \notin unlogged' => <<r, f>> \notin unlogged \/ Logs!Told(r, f, from)'
  PROVE  Started(i, r, f)'
<1>1. stack'[i] = stack[i] /\ \A j \in 1 .. i - 1 : stack'[j] = stack[j]
  OBVIOUS
<1>2. Logs!Logged(r, f)' = Logs!Logged(r, f)
  BY LoggedStays
<1>3. Len(logs) \in Nat /\ Len(logs') \in Nat
  BY DEF Appended
<1>4. Logs!Told(r, f, from) => Logs!Told(r, f, from)'
  BY <1>3 DEF Logs!Told, Appended
<1>5. \A j \in 1 .. i - 1 : Covers(j, r)' <=> Covers(j, r)
  BY <1>1 DEF Covers
<1>6. Logs!Told(r, f, stack[i].since)' <=> Logs!Told(r, f, from)'
  BY <1>1
<1>7. Logs!Told(r, f, stack[i].since) <=> Logs!Told(r, f, from)
  OBVIOUS
<1> QED
  BY <1>1, <1>2, <1>4, <1>5, <1>6, <1>7 DEF Started

LEMMA SettledStays ==
  ASSUME logs \in Seq(Log), Appended, NEW r, NEW f, Settled(r, f),
         \A k \in Len(logs) + 1 .. Len(logs') : ~Tell(logs'[k], r, f),
         Logs!WillLog(r) => Logs!WillLog(r)', db'[r] = db[r],
         <<r, f>> \in unlogged => <<r, f>> \in unlogged'
  PROVE  Settled(r, f)'
<1>1. Logs!Logged(r, f)' = Logs!Logged(r, f)
  BY LoggedStays
<1> QED
  BY <1>1 DEF Settled

LEMMA SameLogs ==
  ASSUME LogTypes, logs' = logs
  PROVE  /\ Appended /\ Len(logs) \in Nat /\ Len(logs') \in Nat /\ Len(logs) <= Len(logs')
         /\ \A k \in Len(logs) + 1 .. Len(logs') : FALSE
<1>1. logs \in Seq(Log) /\ Len(logs) \in Nat
  BY DEF LogTypes
<1> QED
  BY <1>1 DEF Appended

LEMMA TellsPush ==
  ASSUME Logs!AuditLogConstants, LogTypes, Stacked, Tells, NEW op \in {"create", "write", "unlink"},
         NEW recs \in SUBSET Rec, NEW vals \in Logs!Values, NEW silent \in BOOLEAN,
         Logs!Push(op, recs, vals, silent), op = "write" => \A r \in recs : db[r] # None,
         db' = db, unlogged' = unlogged, excluded' = excluded, Appended,
         \A k \in Len(logs) + 1 .. Len(logs') : \A r, f : ~Tell(logs'[k], r, f)
  PROVE  Tells'
<1> SUFFICES ASSUME LogType = "full", ~excluded, NEW r \in Rec, NEW f \in Field \ Hidden
             PROVE  Settled(r, f)' /\ \A i \in DOMAIN stack' : Started(i, r, f)'
  BY DEF Tells
<1>1. /\ Len(stack) \in Nat
      /\ \A i \in 1 .. Len(stack) : stack'[i] = stack[i]
      /\ stack'[Len(stack) + 1] = NewFrame(op, recs, vals, silent)
      /\ DOMAIN stack = 1 .. Len(stack) /\ DOMAIN stack' = 1 .. Len(stack) + 1
  BY FramePushed
<1>2. /\ \A i \in 1 .. Len(stack) : Covers(i, r)' <=> Covers(i, r)
      /\ Logs!WillLog(r)' <=> Logs!WillLog(r) \/ (r \in recs /\ ~silent /\ op # "unlink")
  BY CoversPush
<1>3. logs \in Seq(Log) /\ stack \in Seq(Logs!Frame)
  BY DEF LogTypes
<1>4. Settled(r, f) /\ \A i \in 1 .. Len(stack) : Started(i, r, f)
  BY <1>1 DEF Tells
<1>5. Settled(r, f)'
  BY <1>2, <1>3, <1>4, SettledStays
<1>6. Logs!Logged(r, f)' = Logs!Logged(r, f)
  BY <1>3, LoggedStays
<1>7. ASSUME NEW i \in 1 .. Len(stack) PROVE Started(i, r, f)'
  <2> DEFINE from == stack[i].since
  <2>1. from \in Nat
    BY <1>3, FrameTyped
  <2>2. i \in Nat /\ i \in 1 .. i /\ \A j \in 1 .. i : stack'[j] = stack[j]
    BY <1>1
  <2>3. Started(i, r, f)
    BY <1>4
  <2> QED
    BY <1>3, <2>1, <2>2, <2>3, StartedStays
<1>8. ASSUME NEW n, n = Len(stack) + 1 PROVE Started(n, r, f)'
  <2> DEFINE c == stack'[n]
  <2>1. c.op = op /\ c.recs = recs /\ c.silent = silent /\ c.old = db
    BY <1>1, <1>8 DEF NewFrame
  <2>2. SUFFICES ASSUME c.op = "write", ~c.silent, r \in c.recs,
                        \A j \in 1 .. n - 1 : ~Covers(j, r)', <<r, f>> \notin unlogged'
                 PROVE  Logs!Logged(r, f)' = c.old[r][f]
    BY DEF Started
  <2>3. \A j \in 1 .. Len(stack) : j \in 1 .. n - 1
    BY <1>1, <1>8
  <2>4. ~Logs!WillLog(r)
    BY <1>1, <1>2, <2>2, <2>3 DEF Logs!WillLog, Covers
  <2> QED
    BY <1>4, <1>6, <2>1, <2>2, <2>4 DEF Settled
<1>9. \A i \in DOMAIN stack' : i \in 1 .. Len(stack) \/ i = Len(stack) + 1
  BY <1>1
<1> QED
  BY <1>5, <1>7, <1>8, <1>9

LEMMA TellsSame ==
  ASSUME LogTypes, Tells, stack' = stack, db' = db, unlogged' = unlogged,
         excluded' = excluded, Appended,
         \A k \in Len(logs) + 1 .. Len(logs') : \A r, f : ~Tell(logs'[k], r, f)
  PROVE  Tells'
<1> SUFFICES ASSUME LogType = "full", ~excluded, NEW r \in Rec, NEW f \in Field \ Hidden
             PROVE  Settled(r, f)' /\ \A i \in DOMAIN stack' : Started(i, r, f)'
  BY DEF Tells
<1>1. logs \in Seq(Log) /\ stack \in Seq(Logs!Frame)
  BY DEF LogTypes
<1>2. Settled(r, f)'
  BY <1>1, SettledStays DEF Tells, Logs!WillLog
<1>3. ASSUME NEW i \in DOMAIN stack PROVE Started(i, r, f)'
  <2> DEFINE from == stack[i].since
  <2>1. from \in Nat /\ i \in Nat /\ i \in 1 .. i
    BY <1>1, FrameTyped
  <2>2. Started(i, r, f)
    BY DEF Tells
  <2> QED
    BY <1>1, <2>1, <2>2, StartedStays
<1> QED
  BY <1>2, <1>3

LEMMA StackedSame ==
  ASSUME LogTypes, Stacked, stack' = stack, db' = db, used' = used, guard' = guard, Appended
  PROVE  Stacked'
<1>1. logs \in Seq(Log) /\ stack \in Seq(Logs!Frame)
  BY DEF LogTypes
<1>2. Len(logs) \in Nat /\ Len(logs') \in Nat /\ Len(logs) <= Len(logs')
  BY <1>1 DEF Appended
<1>3. ASSUME NEW i \in DOMAIN stack PROVE FrameOK(i)'
  <2>1. i \in Nat /\ i \in 1 .. i /\ stack[i].since \in Nat
    BY <1>1, FrameTyped
  <2>2. FrameOK(i)
    BY DEF Stacked
  <2> QED
    BY <1>2, <2>1, <2>2, FrameStays
<1> QED
  BY <1>3 DEF Stacked

LEMMA LogsInvCreate ==
  ASSUME Logs!AuditLogConstants, LogInv, NEW r \in Rec, NEW vals \in Logs!Values, Logs!create(r,
         vals)
  PROVE  LogInv'
<1>1. /\ r \notin used /\ Logs!Push("create", {r}, vals, FALSE) /\ used' = used \cup {r}
      /\ db' = db /\ guard' = guard /\ logs' = logs /\ excluded' = excluded
      /\ unlogged' = unlogged
  BY DEF Logs!create
<1>2. LogTypes /\ Stacked /\ Tells /\ {r} \in SUBSET Rec
  BY DEF LogInv
<1>3. /\ Appended /\ Len(logs) \in Nat /\ Len(logs') \in Nat /\ Len(logs) <= Len(logs')
      /\ \A k \in Len(logs) + 1 .. Len(logs') : \A q, f : ~Tell(logs'[k], q, f)
  BY <1>1, <1>2, SameLogs
<1>4. db[r] = None
  BY <1>1, <1>2 DEF Stacked
<1>5. \A j \in 1 .. Len(stack) : {r} \cap stack[j].recs = {}
  <2>1. stack \in Seq(Logs!Frame)
    BY <1>2 DEF LogTypes
  <2>2. \A j \in 1 .. Len(stack) : stack[j].recs \subseteq used
    BY <1>2, <2>1 DEF Stacked, FrameOK
  <2> QED
    BY <1>1, <2>2
<1>6. LogTypes'
  <2>1. stack' \in Seq(Logs!Frame) /\ calls' \in 0 .. MaxLogCalls
    BY <1>1, <1>2, FramePushed
  <2> QED
    BY <1>1, <1>2, <2>1 DEF LogTypes
<1>7. Stacked'
  BY <1>1, <1>2, <1>3, <1>4, <1>5, StackedPush
<1>8. Tells'
  BY <1>1, <1>2, <1>3, TellsPush
<1> QED
  BY <1>6, <1>7, <1>8 DEF LogInv

LEMMA LogsInvWrite ==
  ASSUME Logs!AuditLogConstants, LogInv, NEW recs \in SUBSET Rec, NEW vals \in Logs!Values,
         Logs!write(recs, vals)
  PROVE  LogInv'
<1> DEFINE silent == LogType = "full" /\ Logs!Guarded(recs)
<1>1. /\ \A r \in recs : db[r] # None
      /\ Logs!Push("write", recs, vals, silent) /\ silent \in BOOLEAN
      /\ guard' = IF LogType = "full" /\ ~silent THEN guard \cup {recs} ELSE guard
      /\ db' = db /\ used' = used /\ logs' = logs /\ excluded' = excluded
      /\ unlogged' = unlogged
  BY DEF Logs!write
<1>2. LogTypes /\ Stacked /\ Tells
  BY DEF LogInv
<1>3. /\ Appended /\ Len(logs) \in Nat /\ Len(logs') \in Nat /\ Len(logs) <= Len(logs')
      /\ \A k \in Len(logs) + 1 .. Len(logs') : \A q, f : ~Tell(logs'[k], q, f)
  BY <1>1, <1>2, SameLogs
<1>4. recs \subseteq used' /\ guard \subseteq guard'
  BY <1>1, <1>2 DEF Stacked
<1>5. LogType = "full" => recs \in guard'
  BY <1>1 DEF Logs!Guarded
<1>6. silent => recs \in guard'
  BY <1>5
<1> HIDE DEF silent
<1>7. LogTypes'
  <2>1. stack' \in Seq(Logs!Frame) /\ calls' \in 0 .. MaxLogCalls
    BY <1>1, <1>2, FramePushed
  <2> QED
    BY <1>1, <1>2, <2>1 DEF LogTypes
<1>8. Stacked'
  BY <1>1, <1>2, <1>3, <1>4, <1>5, <1>6, StackedPush
<1>9. Tells'
  BY <1>1, <1>2, <1>3, TellsPush
<1> QED
  BY <1>7, <1>8, <1>9 DEF LogInv

LEMMA LogsInvUnlink ==
  ASSUME Logs!AuditLogConstants, LogInv, NEW recs \in SUBSET Rec, Logs!unlink(recs)
  PROVE  LogInv'
<1> DEFINE kept(r) == IF capture_record /\ LogType = "full" THEN db[r] ELSE <<>>
           lines == [r \in recs |-> Logs!_create_log_line_on_read(kept(r))]
<1>1. /\ \A r \in recs : db[r] # None
      /\ recs \cap Logs!Open = {}
      /\ Logs!Push("unlink", recs, <<>>, FALSE)
      /\ logs' = Logs!create_logs(recs, "unlink", lines)
      /\ db' = db /\ used' = used /\ guard' = guard /\ excluded' = excluded
      /\ unlogged' = unlogged
  BY DEF Logs!unlink
<1>2. LogTypes /\ Stacked /\ Tells
  BY DEF LogInv
<1>3. <<>> \in Logs!Values
  BY RowsAreValues
<1>4. lines \in [recs -> LogLines]
  <2>1. ASSUME NEW r \in recs PROVE Logs!_create_log_line_on_read(kept(r)) \in LogLines
    <3>1. kept(r) \in Logs!Values
      BY <1>1, <1>2, <1>3, RowsAreValues DEF LogTypes
    <3>2. DOMAIN kept(r) \in SUBSET Field
      BY <3>1, RowsAreValues
    <3> HIDE DEF kept
    <3> QED
      BY <1>3, <3>1, <3>2, LinesTyped DEF Logs!_create_log_line_on_read
  <2> QED
    BY <2>1
<1> HIDE DEF lines
<1>5. Created(recs, "unlink", lines)
  BY <1>1, <1>2, <1>4, LogsGrow
<1>6. Appended /\ \A k \in Len(logs) + 1 .. Len(logs') : \A q, f : ~Tell(logs'[k], q, f)
  BY <1>5 DEF Created, Tell
<1>7. Len(logs) \in Nat /\ Len(logs') \in Nat /\ Len(logs) <= Len(logs') /\ logs' \in Seq(Log)
  BY <1>2, <1>6 DEF Appended, LogTypes
<1>8. recs \subseteq used'
  BY <1>1, <1>2 DEF Stacked
<1>9. \A j \in 1 .. Len(stack) : recs \cap stack[j].recs = {}
  <2>1. stack \in Seq(Logs!Frame)
    BY <1>2 DEF LogTypes
  <2>2. DOMAIN stack = 1 .. Len(stack)
    BY <2>1
  <2> QED
    BY <1>1, <2>2 DEF Logs!Open
<1>10. LogTypes'
  <2>1. stack' \in Seq(Logs!Frame) /\ calls' \in 0 .. MaxLogCalls
    BY <1>1, <1>2, <1>3, FramePushed
  <2> QED
    BY <1>1, <1>2, <1>7, <2>1 DEF LogTypes
<1>11. Stacked'
  BY <1>1, <1>2, <1>3, <1>7, <1>8, <1>9, StackedPush
<1>12. Tells'
  BY <1>1, <1>2, <1>3, <1>6, TellsPush
<1> QED
  BY <1>10, <1>11, <1>12 DEF LogInv

LEMMA LogsInvRead ==
  ASSUME Logs!AuditLogConstants, LogInv, NEW recs \in SUBSET Rec, NEW fields \in SUBSET Field,
         Logs!read(recs, fields)
  PROVE  LogInv'
<1> DEFINE lines == [r \in recs |-> Logs!_create_log_line_on_read([f \in fields |-> db[r][f]])]
<1>1. /\ \A r \in recs : db[r] # None
      /\ calls < MaxLogCalls /\ calls' = calls + 1
      /\ logs' = IF stack # <<>> THEN logs ELSE Logs!create_logs(recs, "read", lines)
      /\ db' = db /\ used' = used /\ stack' = stack /\ guard' = guard
      /\ excluded' = excluded /\ unlogged' = unlogged
  BY DEF Logs!read
<1>2. LogTypes /\ Stacked /\ Tells
  BY DEF LogInv
<1>3. lines \in [recs -> LogLines]
  <2>1. ASSUME NEW r \in recs
        PROVE Logs!_create_log_line_on_read([f \in fields |-> db[r][f]]) \in LogLines
    <3> DEFINE v == [f \in fields |-> db[r][f]]
    <3>1. db[r] \in [Field -> Val]
      BY <1>1, <1>2 DEF LogTypes
    <3>2. v \in [fields -> Val] /\ DOMAIN v = fields
      BY <3>1
    <3> HIDE DEF v
    <3>3. v \in Logs!Values /\ <<>> \in Logs!Values
      BY <3>2, RowsAreValues
    <3>4. Logs!_create_log_line_on_read(v) \in LogLines
      BY <3>2, <3>3, LinesTyped DEF Logs!_create_log_line_on_read
    <3> QED
      BY <3>4 DEF v
  <2> QED
    BY <2>1
<1> HIDE DEF lines
<1>4. Appended /\ \A k \in Len(logs) + 1 .. Len(logs') : \A q, f : ~Tell(logs'[k], q, f)
  <2>1. CASE stack # <<>>
    BY <1>1, <1>2, <2>1, SameLogs
  <2>2. CASE stack = <<>>
    <3>1. Created(recs, "read", lines)
      BY <1>1, <1>2, <1>3, <2>2, LogsGrow
    <3> QED
      BY <3>1 DEF Created, Tell
  <2> QED
    BY <2>1, <2>2
<1>5. LogTypes'
  BY <1>1, <1>2, <1>4 DEF LogTypes, Appended, Logs!AuditLogConstants
<1>6. Stacked'
  BY <1>1, <1>2, <1>4, StackedSame
<1>7. Tells'
  BY <1>1, <1>2, <1>4, TellsSame
<1> QED
  BY <1>5, <1>6, <1>7 DEF LogInv

LEMMA LogsInvExport ==
  ASSUME Logs!AuditLogConstants, LogInv, NEW recs \in SUBSET Rec, Logs!export_data(recs)
  PROVE  LogInv'
<1> DEFINE e == [method |-> "export_data", res_id |-> recs, lines |-> <<>>]
<1>1. /\ calls < MaxLogCalls /\ calls' = calls + 1
      /\ logs' = IF excluded THEN logs ELSE Append(logs, e)
      /\ db' = db /\ used' = used /\ stack' = stack /\ guard' = guard
      /\ excluded' = excluded /\ unlogged' = unlogged
  BY DEF Logs!export_data
<1>2. LogTypes /\ Stacked /\ Tells
  BY DEF LogInv
<1>3. e \in Log /\ \A q, f : ~Tell(e, q, f)
  <2>1. <<>> \in [{} -> [old : Val, new : Val]] /\ DOMAIN <<>> = {}
    OBVIOUS
  <2>2. <<>> \in LogLines
    BY <2>1 DEF LogLines
  <2> QED
    BY <2>1, <2>2 DEF Log, Tell
<1> HIDE DEF e
<1>4. Appended /\ \A k \in Len(logs) + 1 .. Len(logs') : \A q, f : ~Tell(logs'[k], q, f)
  <2>1. CASE excluded
    BY <1>1, <1>2, <2>1, SameLogs
  <2>2. CASE ~excluded
    <3>1. logs \in Seq(Log) /\ Len(logs) \in Nat
      BY <1>2 DEF LogTypes
    <3>2. /\ logs' \in Seq(Log) /\ Len(logs') = Len(logs) + 1
          /\ \A i \in 1 .. Len(logs) : logs'[i] = logs[i]
          /\ logs'[Len(logs) + 1] = e
      BY <1>1, <1>3, <2>2, <3>1, AppendProperties
    <3> QED
      BY <1>3, <3>1, <3>2 DEF Appended
  <2> QED
    BY <2>1, <2>2
<1>5. LogTypes'
  BY <1>1, <1>2, <1>4 DEF LogTypes, Appended, Logs!AuditLogConstants
<1>6. Stacked'
  BY <1>1, <1>2, <1>4, StackedSame
<1>7. Tells'
  BY <1>1, <1>2, <1>4, TellsSame
<1> QED
  BY <1>5, <1>6, <1>7 DEF LogInv

-----------------------------------------------------------------------------
(* The original method takes effect *)

\* The innermost call and the ones below it.
LEMMA TopTyped ==
  ASSUME LogTypes, stack # <<>>
  PROVE  /\ Len(stack) \in Nat /\ Len(stack) \in 1 .. Len(stack)
         /\ DOMAIN stack = 1 .. Len(stack) /\ Logs!Top = stack[Len(stack)]
         /\ Logs!Top.op \in {"create", "write", "unlink"} /\ Logs!Top.recs \in SUBSET Rec
         /\ Logs!Top.vals \in Logs!Values /\ Logs!Top.old \in [Rec -> [Field -> Val] \cup {None}]
         /\ Logs!Top.since \in Nat /\ Logs!Top.silent \in BOOLEAN
<1>1. stack \in Seq(Logs!Frame)
  BY DEF LogTypes
<1>2. Len(stack) \in Nat /\ Len(stack) \in 1 .. Len(stack)
  BY <1>1
<1> QED
  BY <1>1, <1>2, FrameTyped DEF Logs!Top

LEMMA AppliedTyped ==
  ASSUME Logs!AuditLogConstants, LogTypes, stack # <<>>, NEW r \in Rec
  PROVE  /\ Logs!Applied(r) \in [Field -> Val] /\ Logs!Applied(r) # None
         /\ \A f \in Field :
              Logs!Applied(r)[f] = IF f \in DOMAIN Logs!Top.vals THEN Logs!Top.vals[f]
                                ELSE IF db[r] = None THEN False ELSE db[r][f]
<1>1. Logs!Top.vals \in Logs!Values
  BY TopTyped
<1>2. \A f \in DOMAIN Logs!Top.vals : Logs!Top.vals[f] \in Val
  BY <1>1, RowsAreValues
<1>3. db[r] # None => db[r] \in [Field -> Val]
  BY DEF LogTypes
<1>4. False \in Val /\ None \notin [Field -> Val]
  BY DEF Logs!AuditLogConstants
<1>5. \A f \in Field : (IF f \in DOMAIN Logs!Top.vals THEN Logs!Top.vals[f]
                        ELSE IF db[r] = None THEN False ELSE db[r][f]) \in Val
  BY <1>2, <1>3, <1>4
<1>6. Logs!Applied(r) \in [Field -> Val]
  BY <1>5 DEF Logs!Applied
<1> QED
  BY <1>4, <1>6 DEF Logs!Applied

LEMMA OriginStep ==
  ASSUME Logs!AuditLogConstants, LogTypes, Logs!origin
  PROVE  /\ stack # <<>> /\ stack' \in Seq(Logs!Frame) /\ Len(stack') = Len(stack)
         /\ DOMAIN stack' = DOMAIN stack /\ stack' # <<>>
         /\ \A i \in DOMAIN stack :
               /\ stack'[i].op = stack[i].op /\ stack'[i].recs = stack[i].recs
               /\ stack'[i].old = stack[i].old /\ stack'[i].since = stack[i].since
               /\ stack'[i].silent = stack[i].silent
               /\ stack'[i].done = IF i = Len(stack) THEN TRUE ELSE stack[i].done
         /\ db' \in [Rec -> [Field -> Val] \cup {None}]
         /\ \A r \in Rec : db'[r] = IF r \notin Logs!Top.recs THEN db[r]
                                    ELSE IF Logs!Top.op = "unlink" THEN None ELSE Logs!Applied(r)
<1>1. stack # <<>> /\ stack' = [stack EXCEPT ![Len(stack)].done = TRUE]
  BY DEF Logs!origin
<1>2. stack \in Seq(Logs!Frame) /\ Len(stack) \in 1 .. Len(stack) /\ DOMAIN stack = 1 .. Len(stack)
  BY <1>1, TopTyped DEF LogTypes
<1> DEFINE n == Len(stack)
           c == [stack[n] EXCEPT !.done = TRUE]
<1>3. stack[n] \in Logs!Frame
  BY <1>2
<1>4. c \in Logs!Frame /\ c.op = stack[n].op /\ c.recs = stack[n].recs /\ c.old = stack[n].old
      /\ c.since = stack[n].since /\ c.silent = stack[n].silent /\ c.done = TRUE
  BY <1>3 DEF Logs!Frame
<1>5. stack' = [stack EXCEPT ![n] = c]
  BY <1>1
<1> HIDE DEF c
<1>6. stack' \in Seq(Logs!Frame) /\ Len(stack') = Len(stack)
      /\ \A i \in 1 .. Len(stack) : stack'[i] = IF i = n THEN c ELSE stack[i]
  BY <1>2, <1>4, <1>5, ExceptSeq
<1>7. DOMAIN stack' = DOMAIN stack
  <2>1. DOMAIN stack' = 1 .. Len(stack')
    BY <1>6, LenProperties
  <2> QED
    BY <1>2, <1>6, <2>1
<1>8. \A r \in Rec : db'[r] = IF r \notin Logs!Top.recs THEN db[r]
                              ELSE IF Logs!Top.op = "unlink" THEN None ELSE Logs!Applied(r)
  BY DEF Logs!origin
<1>9. \A r \in Rec : Logs!Applied(r) \in [Field -> Val]
  BY <1>1, AppliedTyped
<1>10. db' \in [Rec -> [Field -> Val] \cup {None}]
  BY <1>9 DEF Logs!origin, LogTypes
<1> QED
  BY <1>1, <1>2, <1>4, <1>6, <1>7, <1>8, <1>10

LEMMA Below ==
  ASSUME NEW n \in Nat, NEW i \in 1 .. n
  PROVE  \A j \in 1 .. i - 1 : j \in 1 .. n /\ j # i /\ j \in 1 .. n - 1
OBVIOUS

LEMMA StackedOrigin ==
  ASSUME Logs!AuditLogConstants, LogTypes, Stacked, Logs!origin
  PROVE  Stacked'
<1> DEFINE n == Len(stack)
<1>1. /\ stack # <<>> /\ DOMAIN stack' = DOMAIN stack /\ stack' # <<>>
      /\ \A i \in DOMAIN stack :
               /\ stack'[i].op = stack[i].op /\ stack'[i].recs = stack[i].recs
               /\ stack'[i].old = stack[i].old /\ stack'[i].since = stack[i].since
               /\ stack'[i].silent = stack[i].silent
               /\ stack'[i].done = IF i = n THEN TRUE ELSE stack[i].done
      /\ \A r \in Rec : db'[r] = IF r \notin Logs!Top.recs THEN db[r]
                                 ELSE IF Logs!Top.op = "unlink" THEN None ELSE Logs!Applied(r)
  BY OriginStep
<1>2. n \in Nat /\ n \in DOMAIN stack /\ DOMAIN stack = 1 .. n /\ Logs!Top = stack[n]
      /\ Logs!Top.op \in {"create", "write", "unlink"} /\ Logs!Top.recs \subseteq Rec
  BY <1>1, TopTyped
<1>3. \A r \in Rec : Logs!Applied(r) # None
  BY <1>1, AppliedTyped
<1>4. used' = used /\ guard' = guard /\ logs' = logs
  BY DEF Logs!origin
<1>5. \A i \in DOMAIN stack : FrameOK(i) /\ stack[i].recs \subseteq Rec
  BY <1>2, FrameTyped DEF Stacked, LogTypes
<1>6. \A i \in 1 .. n - 1 : i \in DOMAIN stack /\ i # n
  BY <1>2, Below
<1>7. Logs!Top.op \in {"create", "unlink"} =>
        \A j \in 1 .. n - 1 : Logs!Top.recs \cap stack[j].recs = {}
  BY <1>2, <1>5 DEF FrameOK
<1>8. Logs!Top.op = "write" => \A r \in Logs!Top.recs : db[r] # None
  BY <1>2, <1>5 DEF FrameOK
<1>9. ASSUME NEW i \in DOMAIN stack PROVE FrameOK(i)'
  <2>1. FrameOK(i) /\ stack[i].recs \subseteq Rec /\ (i = n \/ i \in 1 .. n - 1)
    BY <1>2, <1>5
  <2>2. \A r \in stack[i].recs : db[r] # None /\ stack[i].op # "unlink" => db'[r] # None
    BY <1>1, <1>2, <1>3, <1>7, <2>1
  <2>3. stack[i].op = "create" => \A r \in stack[i].recs : stack'[i].done <=> db'[r] # None
    <3>1. CASE i = n
      BY <1>1, <1>2, <1>3, <2>1, <3>1
    <3>2. CASE i # n
      <4> SUFFICES ASSUME stack[i].op = "create", NEW r \in stack[i].recs
                   PROVE  stack'[i].done <=> db'[r] # None
        OBVIOUS
      <4>1. stack'[i].done = stack[i].done
        BY <1>1, <3>2
      <4>2. stack[i].done <=> db[r] # None
        BY <2>1 DEF FrameOK
      <4>3. db'[r] # None <=> db[r] # None
        <5>1. CASE r \notin Logs!Top.recs
          BY <1>1, <2>1, <5>1
        <5>2. CASE r \in Logs!Top.recs
          <6>1. Logs!Top.op = "write"
            BY <1>2, <1>7, <2>1, <3>2, <5>2
          <6> QED
            BY <1>1, <1>3, <1>8, <2>1, <5>2, <6>1
        <5> QED
          BY <5>1, <5>2
      <4> QED
        BY <4>1, <4>2, <4>3
    <3> QED
      BY <3>1, <3>2
  <2>4. \A j \in 1 .. i - 1 : stack'[j].recs = stack[j].recs
    <3>1. \A j \in 1 .. i - 1 : j \in DOMAIN stack
      BY <1>2, Below
    <3> QED
      BY <1>1, <3>1
  <2>5. stack[i].op = "write" => \A r \in stack[i].recs : db'[r] # None
    BY <2>1, <2>2 DEF FrameOK
  <2>6. /\ stack'[i].op = stack[i].op /\ stack'[i].recs = stack[i].recs
        /\ stack'[i].old = stack[i].old /\ stack'[i].since = stack[i].since
        /\ stack'[i].silent = stack[i].silent
    BY <1>1
  <2> QED
    BY <1>4, <2>1, <2>3, <2>4, <2>5, <2>6 DEF FrameOK
<1>10. \A r \in Rec : db'[r] # None => r \in used'
  <2>1. Logs!Top.recs \subseteq used
    BY <1>2, <1>5 DEF FrameOK
  <2> QED
    BY <1>1, <1>4, <2>1 DEF Stacked
<1> QED
  BY <1>1, <1>9, <1>10 DEF Stacked

LEMMA TellsOrigin ==
  ASSUME Logs!AuditLogConstants, LogTypes, Stacked, Tells, Logs!origin
  PROVE  Tells'
<1> SUFFICES ASSUME LogType = "full", ~excluded, NEW r \in Rec, NEW f \in Field \ Hidden
             PROVE  Settled(r, f)' /\ \A i \in DOMAIN stack' : Started(i, r, f)'
  BY DEF Tells, Logs!origin
<1> DEFINE n == Len(stack)
<1>1. /\ stack # <<>> /\ DOMAIN stack' = DOMAIN stack
      /\ \A i \in DOMAIN stack :
               /\ stack'[i].op = stack[i].op /\ stack'[i].recs = stack[i].recs
               /\ stack'[i].old = stack[i].old /\ stack'[i].since = stack[i].since
               /\ stack'[i].silent = stack[i].silent
      /\ db'[r] = IF r \notin Logs!Top.recs THEN db[r]
                  ELSE IF Logs!Top.op = "unlink" THEN None ELSE Logs!Applied(r)
  BY OriginStep
<1>2. n \in DOMAIN stack /\ DOMAIN stack = 1 .. n /\ n \in Nat /\ Logs!Top = stack[n]
      /\ Logs!Top.op \in {"create", "write", "unlink"} /\ Logs!Top.vals \in Logs!Values
  BY <1>1, TopTyped
<1>3. logs' = logs /\ logs \in Seq(Log)
  BY DEF Logs!origin, LogTypes
<1>4. Logs!Logged(r, f)' = Logs!Logged(r, f)
  BY <1>3 DEF Logs!Logged, Logs!Told_at
<1>5. Logs!WillLog(r)' <=> Logs!WillLog(r)
  BY <1>1 DEF Logs!WillLog
<1>6. unlogged' = unlogged \cup
          {p \in Logs!Top.recs \X DOMAIN Logs!Top.vals :
              /\ db[p[1]] # None /\ db[p[1]][p[2]] # Logs!Top.vals[p[2]]
              /\ Logs!Top.recs \in guard /\ ~Logs!WillLog(p[1])}
  BY DEF Logs!origin
<1>7. Settled(r, f)'
  <2> SUFFICES ASSUME ~Logs!WillLog(r), db'[r] # None, <<r, f>> \notin unlogged'
               PROVE  Logs!Logged(r, f) = db'[r][f]
    BY <1>4, <1>5 DEF Settled
  <2>1. <<r, f>> \notin unlogged
    BY <1>6
  <2>2. Settled(r, f)
    BY DEF Tells
  <2>3. CASE r \notin Logs!Top.recs
    BY <1>1, <2>1, <2>2, <2>3 DEF Settled
  <2>4. CASE r \in Logs!Top.recs
    <3>1. Logs!Top.op # "unlink" /\ db'[r] = Logs!Applied(r)
      BY <1>1, <2>4
    <3>2. Logs!Top.silent
      BY <1>2, <2>4, <3>1 DEF Logs!WillLog
    <3>3. FrameOK(n)
      BY <1>2 DEF Stacked
    <3>4. Logs!Top.recs \in guard /\ Logs!Top.op = "write"
      BY <1>2, <3>2, <3>3 DEF FrameOK
    <3>5. db[r] # None
      BY <1>2, <2>4, <3>3, <3>4 DEF FrameOK
    <3>6. Logs!Applied(r)[f] = IF f \in DOMAIN Logs!Top.vals THEN Logs!Top.vals[f] ELSE db[r][f]
      BY <1>1, <3>5, AppliedTyped
    <3>7. f \in DOMAIN Logs!Top.vals => db[r][f] = Logs!Top.vals[f]
      <4> SUFFICES ASSUME f \in DOMAIN Logs!Top.vals, db[r][f] # Logs!Top.vals[f] PROVE FALSE
        OBVIOUS
      <4> DEFINE p == <<r, f>>
      <4>1. p \in Logs!Top.recs \X DOMAIN Logs!Top.vals /\ p[1] = r /\ p[2] = f
        BY <2>4
      <4>2. p \in unlogged'
        BY <1>6, <3>4, <3>5, <4>1
      <4> QED
        BY <4>2
    <3> QED
      BY <2>1, <2>2, <3>1, <3>5, <3>6, <3>7 DEF Settled
  <2> QED
    BY <2>3, <2>4
<1>8. ASSUME NEW i \in DOMAIN stack PROVE Started(i, r, f)'
  <2> DEFINE from == stack[i].since
  <2>1. Started(i, r, f)
    BY DEF Tells
  <2>2. \A j \in 1 .. i - 1 : j \in DOMAIN stack
    BY <1>2
  <2>3. \A j \in 1 .. i - 1 : Covers(j, r)' <=> Covers(j, r)
    BY <1>1, <2>2 DEF Covers
  <2>4. Logs!Told(r, f, stack[i].since)' <=> Logs!Told(r, f, stack[i].since)
    BY <1>1, <1>3 DEF Logs!Told
  <2>5. <<r, f>> \notin unlogged' => <<r, f>> \notin unlogged
    BY <1>6
  <2>6. stack'[i].old[r][f] = stack[i].old[r][f]
    BY <1>1
  <2> QED
    BY <1>1, <1>4, <2>1, <2>3, <2>4, <2>5, <2>6 DEF Started
<1> QED
  BY <1>1, <1>7, <1>8

-----------------------------------------------------------------------------
(* A call ends *)

ReturnLines == [r \in Logs!Top.recs |->
                  IF Logs!Top.op = "write"
                  THEN Logs!_create_log_line_on_write(Logs!Old(Logs!Top, r), Logs!New(Logs!Top, r))
                  ELSE Logs!_create_log_line_on_create(Logs!New(Logs!Top, r))]

LEMMA ReturnStep ==
  ASSUME LogTypes, Logs!return
  PROVE  /\ stack # <<>> /\ Logs!Top.done /\ stack' \in Seq(Logs!Frame)
         /\ DOMAIN stack' = 1 .. Len(stack) - 1
         /\ \A i \in 1 .. Len(stack) - 1 : stack'[i] = stack[i]
         /\ guard' = IF \E i \in 1 .. Len(stack) - 1 : stack[i].op = "write" THEN guard ELSE {}
         /\ db' = db /\ used' = used /\ excluded' = excluded /\ calls' = calls
         /\ Logs!Top.silent \/ Logs!Top.op = "unlink" => logs' = logs /\ unlogged' = unlogged
         /\ ~(Logs!Top.silent \/ Logs!Top.op = "unlink") =>
               /\ logs' = Logs!create_logs(Logs!Top.recs, Logs!Top.op, ReturnLines)
               /\ unlogged' = {p \in Rec \X Field :
                     IF p[1] \in Logs!Top.recs /\ p[2] \in DOMAIN ReturnLines[p[1]] THEN FALSE
                     ELSE \/ p \in unlogged
                          \/ p[1] \in Logs!Top.recs /\ Logs!Told(p[1], p[2], Logs!Top.since)}
<1> DEFINE n == Len(stack)
           rest == Front(stack)
<1>1. stack # <<>> /\ Logs!Top.done /\ stack' = rest
  BY LogsOperators DEF Logs!return
<1>2. stack \in Seq(Logs!Frame) /\ n \in Nat /\ n \in 1 .. n /\ DOMAIN stack = 1 .. n
  BY <1>1, TopTyped DEF LogTypes
<1>3. /\ rest \in Seq(Logs!Frame) /\ DOMAIN rest = 1 .. n - 1
      /\ \A i \in 1 .. n - 1 : rest[i] = stack[i]
  <2>1. \A i \in 1 .. n - 1 : stack[i] \in Logs!Frame
    BY <1>2, Below
  <2>2. /\ SubSeq(stack, 1, n - 1) \in Seq(Logs!Frame)
        /\ Len(SubSeq(stack, 1, n - 1)) = IF 1 <= n - 1 THEN (n - 1) - 1 + 1 ELSE 0
        /\ \A i \in 1 .. (n - 1) - 1 + 1 : SubSeq(stack, 1, n - 1)[i] = stack[1 + i - 1]
    <3> HIDE DEF n
    <3>1. 1 \in Int /\ n - 1 \in Int
      BY <1>2
    <3> QED
      BY <2>1, <3>1, SubSeqProperties
  <2>3. rest = SubSeq(stack, 1, n - 1)
    BY DEF Front
  <2>4. DOMAIN rest = 1 .. Len(rest)
    BY <2>2, <2>3, LenProperties
  <2> HIDE DEF n, rest
  <2>5. Len(rest) = n - 1
    BY <1>2, <2>2, <2>3
  <2>6. \A i \in 1 .. n - 1 : i \in 1 .. (n - 1) - 1 + 1 /\ 1 + i - 1 = i
    BY <1>2
  <2> QED
    BY <2>2, <2>3, <2>4, <2>5, <2>6
<1>4. guard' = IF \E i \in DOMAIN rest : rest[i].op = "write" THEN guard ELSE {}
  BY LogsOperators DEF Logs!return
<1>5. guard' = IF \E i \in 1 .. n - 1 : stack[i].op = "write" THEN guard ELSE {}
  <2> HIDE DEF n, rest
  <2> QED
    BY <1>3, <1>4
<1>6. /\ db' = db /\ used' = used /\ excluded' = excluded /\ calls' = calls
      /\ Logs!Top.silent \/ Logs!Top.op = "unlink" => logs' = logs /\ unlogged' = unlogged
  BY DEF Logs!return
<1>7. ~(Logs!Top.silent \/ Logs!Top.op = "unlink") =>
               /\ logs' = Logs!create_logs(Logs!Top.recs, Logs!Top.op, ReturnLines)
               /\ unlogged' = {p \in Rec \X Field :
                     IF p[1] \in Logs!Top.recs /\ p[2] \in DOMAIN ReturnLines[p[1]] THEN FALSE
                     ELSE \/ p \in unlogged
                          \/ p[1] \in Logs!Top.recs /\ Logs!Told(p[1], p[2], Logs!Top.since)}
  BY DEF Logs!return, ReturnLines
<1> HIDE DEF n, rest
<1>8. /\ stack' \in Seq(Logs!Frame) /\ DOMAIN stack' = 1 .. n - 1
      /\ \A i \in 1 .. n - 1 : stack'[i] = stack[i]
  BY <1>1, <1>3
<1> USE DEF n
<1> QED
  BY <1>1, <1>5, <1>6, <1>7, <1>8

\* The lines of the log of a creation or of a write that is not guarded.
LEMMA ReturnLinesTyped ==
  ASSUME Logs!AuditLogConstants, LogTypes, Stacked, stack # <<>>, Logs!Top.done,
         Logs!Top.op # "unlink"
  PROVE  /\ ReturnLines \in [Logs!Top.recs -> LogLines]
         /\ LogType = "full" => \A r \in Logs!Top.recs, f \in Field \ Hidden :
               /\ db[r] # None
               /\ f \in DOMAIN ReturnLines[r] => ReturnLines[r][f].new = db[r][f]
               /\ f \notin DOMAIN ReturnLines[r] =>
                     Logs!Top.op = "write" /\ Logs!Top.old[r][f] = db[r][f]
<1>1. /\ Len(stack) \in DOMAIN stack /\ Logs!Top = stack[Len(stack)]
      /\ Logs!Top.op \in {"create", "write"} /\ Logs!Top.recs \in SUBSET Rec
      /\ Logs!Top.vals \in Logs!Values /\ Logs!Top.old \in [Rec -> [Field -> Val] \cup {None}]
  BY TopTyped
<1>2. FrameOK(Len(stack))
  BY <1>1 DEF Stacked
<1>3. \A r \in Logs!Top.recs : db[r] # None
  BY <1>1, <1>2 DEF FrameOK
<1>4. Logs!Top.op = "write" => \A r \in Logs!Top.recs : Logs!Top.old[r] # None
  BY <1>1, <1>2 DEF FrameOK
<1>5. \A r \in Logs!Top.recs : db[r] \in [Field -> Val]
  BY <1>1, <1>3 DEF LogTypes
<1>6. Logs!Top.op = "write" => \A r \in Logs!Top.recs : Logs!Top.old[r] \in [Field -> Val]
  BY <1>1, <1>4
<1>7. False \in Val
  BY DEF Logs!AuditLogConstants
<1>8. \A r \in Logs!Top.recs : Logs!New(Logs!Top, r) \in Logs!Values
  BY <1>1, <1>5, RowsAreValues DEF Logs!New
<1>9. ASSUME Logs!Top.op = "write", NEW r \in Logs!Top.recs PROVE Logs!Old(Logs!Top,
             r) \in Logs!Values
  <2>1. DOMAIN Logs!Top.vals \in SUBSET Field
    BY <1>1, RowsAreValues
  <2>2. [f \in DOMAIN Logs!Top.vals |-> False] \in [DOMAIN Logs!Top.vals -> Val]
    BY <1>7
  <2> QED
    BY <1>6, <1>9, <2>1, <2>2, RowsAreValues DEF Logs!Old
<1>10. ASSUME NEW r \in Logs!Top.recs PROVE ReturnLines[r] \in LogLines
  <2> DEFINE new == Logs!New(Logs!Top, r)
             old == Logs!Old(Logs!Top, r)
             changed == Logs!DictDiffer_changed(new, old)
  <2>1. ReturnLines[r] = IF Logs!Top.op = "write" THEN Logs!Lines(changed, old, new)
                         ELSE Logs!Lines(DOMAIN new, <<>>, new)
    BY DEF ReturnLines, Logs!_create_log_line_on_write, Logs!_create_log_line_on_create
  <2>2. new \in Logs!Values /\ <<>> \in Logs!Values /\ DOMAIN new \in SUBSET Field
    BY <1>8, RowsAreValues
  <2>3. Logs!Top.op = "write" => old \in Logs!Values
    BY <1>9
  <2>4. changed \in SUBSET Field
    BY <2>2 DEF Logs!DictDiffer_changed
  <2> HIDE DEF new, old, changed
  <2>5. Logs!Top.op = "write" => Logs!Lines(changed, old, new) \in LogLines
    BY <2>2, <2>3, <2>4, LinesTyped
  <2>6. Logs!Lines(DOMAIN new, <<>>, new) \in LogLines
    BY <2>2, LinesTyped
  <2> QED
    BY <2>1, <2>5, <2>6
<1>11. ASSUME LogType = "full", NEW r \in Logs!Top.recs, NEW f \in Field \ Hidden
       PROVE  /\ f \in DOMAIN ReturnLines[r] => ReturnLines[r][f].new = db[r][f]
              /\ f \notin DOMAIN ReturnLines[r] =>
                     Logs!Top.op = "write" /\ Logs!Top.old[r][f] = db[r][f]
  <2>1. Logs!New(Logs!Top, r) = db[r] /\ DOMAIN db[r] = Field
    BY <1>5, <1>11 DEF Logs!New
  <2>2. CASE Logs!Top.op = "write"
    <3>1. Logs!Old(Logs!Top, r) = Logs!Top.old[r] /\ DOMAIN Logs!Top.old[r] = Field
      BY <1>6, <1>11, <2>2 DEF Logs!Old
    <3> DEFINE changed == Logs!DictDiffer_changed(db[r], Logs!Top.old[r])
    <3>2. \A g \in Field : g \in changed <=> db[r][g] # Logs!Top.old[r][g]
      BY <2>1, <3>1 DEF Logs!DictDiffer_changed
    <3>3. ReturnLines[r] = Logs!Lines(changed, Logs!Top.old[r], db[r])
      BY <2>1, <2>2, <3>1 DEF ReturnLines, Logs!_create_log_line_on_write
    <3> HIDE DEF changed
    <3>4. f \in DOMAIN ReturnLines[r] <=> f \in changed
      BY <3>3 DEF Logs!Lines
    <3>5. f \in changed => ReturnLines[r][f].new = db[r][f]
      BY <2>1, <3>3 DEF Logs!Lines
    <3> QED
      BY <2>2, <3>2, <3>4, <3>5
  <2>3. CASE Logs!Top.op # "write"
    <3>1. ReturnLines[r] = Logs!Lines(Field, <<>>, db[r])
      BY <2>1, <2>3 DEF ReturnLines, Logs!_create_log_line_on_create
    <3>2. f \in DOMAIN ReturnLines[r]
      BY <3>1 DEF Logs!Lines
    <3>3. ReturnLines[r][f].new = db[r][f]
      BY <2>1, <3>1 DEF Logs!Lines
    <3> QED
      BY <3>2, <3>3
  <2> QED
    BY <2>2, <2>3
<1>12. ReturnLines \in [Logs!Top.recs -> LogLines]
  BY <1>10 DEF ReturnLines
<1> QED
  BY <1>3, <1>11, <1>12

LEMMA ReturnAppends ==
  ASSUME Logs!AuditLogConstants, LogTypes, Stacked, Logs!return
  PROVE  /\ Appended
         /\ ~(Logs!Top.silent \/ Logs!Top.op = "unlink") =>
              Created(Logs!Top.recs, Logs!Top.op, ReturnLines)
<1>1. stack # <<>> /\ Logs!Top.done
  BY ReturnStep
<1>2. Logs!Top.op \in {"create", "write", "unlink"} /\ Logs!Top.recs \in SUBSET Rec
  BY <1>1, TopTyped
<1>3. CASE Logs!Top.silent \/ Logs!Top.op = "unlink"
  BY <1>3, ReturnStep, SameLogs
<1>4. CASE ~(Logs!Top.silent \/ Logs!Top.op = "unlink")
  <2>1. ReturnLines \in [Logs!Top.recs -> LogLines]
    BY <1>1, <1>4, ReturnLinesTyped
  <2>2. logs' = Logs!create_logs(Logs!Top.recs, Logs!Top.op, ReturnLines)
    BY <1>4, ReturnStep
  <2>3. Created(Logs!Top.recs, Logs!Top.op, ReturnLines)
    BY <1>2, <1>4, <2>1, <2>2, LogsGrow
  <2> QED
    BY <2>3, <1>4 DEF Created
<1> QED
  BY <1>3, <1>4

LEMMA StackedReturn ==
  ASSUME Logs!AuditLogConstants, LogTypes, Stacked, Logs!return
  PROVE  Stacked'
<1> DEFINE n == Len(stack)
<1>1. /\ DOMAIN stack' = 1 .. n - 1 /\ \A i \in 1 .. n - 1 : stack'[i] = stack[i]
      /\ guard' = IF \E i \in 1 .. n - 1 : stack[i].op = "write" THEN guard ELSE {}
      /\ db' = db /\ used' = used /\ stack # <<>> /\ stack' \in Seq(Logs!Frame)
  BY ReturnStep
<1>2. Appended /\ logs \in Seq(Log) /\ stack \in Seq(Logs!Frame)
  BY ReturnAppends DEF LogTypes
<1>3. Len(logs) \in Nat /\ Len(logs') \in Nat /\ Len(logs) <= Len(logs')
  BY <1>2 DEF Appended
<1>4. n \in Nat /\ DOMAIN stack = 1 .. n
  BY <1>1, TopTyped
<1>5. ASSUME NEW i \in 1 .. n - 1 PROVE FrameOK(i)'
  <2> HIDE DEF n
  <2>1. i \in 1 .. n /\ i \in Nat
    BY <1>4
  <2>2. FrameOK(i) /\ stack[i].since \in Nat
    BY <1>2, <1>4, <2>1, FrameTyped DEF Stacked
  <2>3. stack'[i] = stack[i] /\ \A j \in 1 .. i - 1 : stack'[j] = stack[j]
    BY <1>1, <1>4
  <2>4. stack[i].op = "write" => guard' = guard
    BY <1>1
  <2>5. stack[i].since <= Len(logs')
    BY <1>3, <2>2 DEF FrameOK
  <2> QED
    BY <1>1, <2>2, <2>3, <2>4, <2>5 DEF FrameOK
<1>6. \A r \in Rec : db'[r] # None => r \in used'
  BY <1>1 DEF Stacked
<1>7. stack' = <<>> => guard' = {}
  <2> SUFFICES ASSUME stack' = <<>> PROVE ~\E i \in 1 .. n - 1 : stack[i].op = "write"
    BY <1>1
  <2>1. 1 .. n - 1 = {}
    BY <1>1
  <2> QED
    BY <2>1
<1> QED
  BY <1>1, <1>5, <1>6, <1>7 DEF Stacked

LEMMA TellsReturn ==
  ASSUME Logs!AuditLogConstants, LogTypes, Stacked, Tells, Logs!return
  PROVE  Tells'
<1> DEFINE n == Len(stack)
           T == Logs!Top
           lines == ReturnLines
<1>1. /\ stack # <<>> /\ T.done
      /\ DOMAIN stack' = 1 .. n - 1 /\ \A i \in 1 .. n - 1 : stack'[i] = stack[i]
      /\ db' = db /\ excluded' = excluded
      /\ T.silent \/ T.op = "unlink" => logs' = logs /\ unlogged' = unlogged
      /\ ~(T.silent \/ T.op = "unlink") =>
            unlogged' = {p \in Rec \X Field :
                  IF p[1] \in T.recs /\ p[2] \in DOMAIN lines[p[1]] THEN FALSE
                  ELSE \/ p \in unlogged
                       \/ p[1] \in T.recs /\ Logs!Told(p[1], p[2], T.since)}
  BY ReturnStep
<1> SUFFICES ASSUME LogType = "full", ~excluded, NEW r \in Rec, NEW f \in Field \ Hidden
             PROVE  Settled(r, f)' /\ \A i \in DOMAIN stack' : Started(i, r, f)'
  BY <1>1 DEF Tells
<1>2. /\ n \in Nat /\ n \in 1 .. n /\ DOMAIN stack = 1 .. n /\ T = stack[n]
      /\ T.op \in {"create", "write", "unlink"} /\ T.recs \in SUBSET Rec /\ T.since \in Nat
  BY <1>1, TopTyped
<1>3. /\ logs \in Seq(Log) /\ stack \in Seq(Logs!Frame) /\ Appended
      /\ ~(T.silent \/ T.op = "unlink") => Created(T.recs, T.op, lines)
  BY ReturnAppends DEF LogTypes
<1>4. Len(logs) \in Nat /\ Len(logs') \in Nat
  BY <1>3 DEF Appended
<1>5. Settled(r, f) /\ \A i \in 1 .. n : Started(i, r, f) /\ FrameOK(i)
  BY <1>2 DEF Tells, Stacked
<1>6. \A i \in 1 .. n - 1 : Covers(i, r)' <=> Covers(i, r)
  BY <1>1 DEF Covers
<1>7. Logs!WillLog(r) <=> Covers(n, r) \/ \E i \in 1 .. n - 1 : Covers(i, r)
  <2>1. \A i : i \in 1 .. n <=> i = n \/ i \in 1 .. n - 1
    BY <1>2
  <2> QED
    BY <1>2, <2>1 DEF Logs!WillLog, Covers
<1>8. Logs!WillLog(r)' <=> \E i \in 1 .. n - 1 : Covers(i, r)
  <2>1. Logs!WillLog(r)' <=> \E i \in DOMAIN stack' : Covers(i, r)'
    BY DEF Logs!WillLog, Covers
  <2> QED
    BY <1>1, <1>6, <2>1
<1>9. \A i \in 1 .. n - 1 : /\ i \in Nat /\ i \in 1 .. i /\ i \in 1 .. n
                            /\ \A j \in 1 .. i : stack'[j] = stack[j]
  <2> HIDE DEF n
  <2>1. \A i \in 1 .. n - 1 : i \in Nat /\ i \in 1 .. i /\ i \in 1 .. n
    BY <1>2
  <2>2. \A i \in 1 .. n - 1 : \A j \in 1 .. i : j \in 1 .. n - 1
    BY <1>2
  <2> QED
    BY <1>1, <2>1, <2>2
\* The frames that remain, when nothing is told about the field.
<1>10. ASSUME \A k \in Len(logs) + 1 .. Len(logs') : ~Tell(logs'[k], r, f),
              <<r, f>> \notin unlogged' => <<r, f>> \notin unlogged
       PROVE  \A i \in DOMAIN stack' : Started(i, r, f)'
  <2> SUFFICES ASSUME NEW i \in 1 .. n - 1 PROVE Started(i, r, f)'
    BY <1>1
  <2> DEFINE from == stack[i].since
  <2>1. i \in Nat /\ i \in 1 .. i /\ i \in 1 .. n /\ \A j \in 1 .. i : stack'[j] = stack[j]
    BY <1>9
  <2>2. from \in Nat /\ Started(i, r, f)
    BY <1>3, <1>5, <2>1, FrameTyped
  <2> QED
    BY <1>3, <1>10, <2>1, <2>2, StartedStays
<1>11. CASE T.silent \/ T.op = "unlink"
  <2>1. logs' = logs /\ unlogged' = unlogged
    BY <1>1, <1>11
  <2>2. \A k \in Len(logs) + 1 .. Len(logs') : ~Tell(logs'[k], r, f)
    BY <1>4, <2>1
  <2>3. Logs!WillLog(r) => Logs!WillLog(r)'
    BY <1>2, <1>7, <1>8, <1>11 DEF Covers
  <2>4. Settled(r, f)'
    BY <1>1, <1>3, <1>5, <2>1, <2>2, <2>3, SettledStays
  <2> QED
    BY <1>10, <2>1, <2>2, <2>4
<1>12. CASE ~(T.silent \/ T.op = "unlink")
  <2>1. /\ Created(T.recs, T.op, lines)
        /\ \A p \in Rec \X Field : p \in unlogged' <=>
              /\ ~(p[1] \in T.recs /\ p[2] \in DOMAIN lines[p[1]])
              /\ p \in unlogged \/ (p[1] \in T.recs /\ Logs!Told(p[1], p[2], T.since))
    BY <1>1, <1>3, <1>12
  <2>2. <<r, f>> \in unlogged' <=>
              /\ ~(r \in T.recs /\ f \in DOMAIN lines[r])
              /\ <<r, f>> \in unlogged \/ (r \in T.recs /\ Logs!Told(r, f, T.since))
    <3>1. <<r, f>> \in Rec \X Field /\ <<r, f>>[1] = r /\ <<r, f>>[2] = f
      OBVIOUS
    <3> QED
      BY <2>1, <3>1
  <2>3. r \in T.recs =>
             /\ db[r] # None
             /\ f \in DOMAIN lines[r] => lines[r][f].new = db[r][f]
             /\ f \notin DOMAIN lines[r] => T.op = "write" /\ T.old[r][f] = db[r][f]
    BY <1>1, <1>12, ReturnLinesTyped
  <2>4. \A k \in Len(logs) + 1 .. Len(logs') :
           /\ logs'[k].method = T.op /\ logs'[k].res_id \in T.recs
           /\ logs'[k].lines = lines[logs'[k].res_id]
    BY <2>1 DEF Created
  <2>5. CASE r \notin T.recs
    <3>1. \A k \in Len(logs) + 1 .. Len(logs') : ~Tell(logs'[k], r, f)
      BY <2>4, <2>5 DEF Tell
    <3>2. <<r, f>> \in unlogged' <=> <<r, f>> \in unlogged
      BY <2>2, <2>5
    <3>3. Logs!WillLog(r) => Logs!WillLog(r)'
      BY <1>2, <1>7, <1>8, <2>5 DEF Covers
    <3>4. Settled(r, f)'
      BY <1>1, <1>3, <1>5, <3>1, <3>2, <3>3, SettledStays
    <3> QED
      BY <1>10, <3>1, <3>2, <3>4
  <2>6. CASE r \in T.recs /\ f \in DOMAIN lines[r]
    <3>1. \A k \in Len(logs) + 1 .. Len(logs') :
             Tell(logs'[k], r, f) => logs'[k].lines[f].new = db[r][f]
      BY <2>3, <2>4, <2>6 DEF Tell
    <3>2. PICK k \in Len(logs) + 1 .. Len(logs') : logs'[k].res_id = r
      BY <2>1, <2>6 DEF Created
    <3>3. Tell(logs'[k], r, f)
      BY <1>2, <1>12, <2>4, <2>6, <3>2 DEF Tell
    <3>4. Logs!Logged(r, f)' = db[r][f]
      BY <1>3, <3>1, <3>3, LoggedAnew
    <3>5. Settled(r, f)'
      BY <1>1, <3>4 DEF Settled
    <3>6. ASSUME NEW i \in 1 .. n - 1 PROVE Started(i, r, f)'
      <4> DEFINE from == stack'[i].since
      <4>1. from \in Nat /\ from <= Len(logs)
        <5>1. i \in 1 .. n /\ stack'[i] = stack[i]
          BY <1>1, <1>9
        <5> QED
          BY <1>3, <1>5, <5>1, FrameTyped DEF FrameOK
      <4> HIDE DEF from
      <4>2. k \in from + 1 .. Len(logs')
        BY <1>4, <3>2, <4>1
      <4>3. logs'[k].res_id = r /\ f \in DOMAIN logs'[k].lines
        BY <3>3 DEF Tell
      <4>4. \E m \in from + 1 .. Len(logs') : logs'[m].res_id = r /\ f \in DOMAIN logs'[m].lines
        BY <4>2, <4>3
      <4>5. Logs!Told(r, f, stack[i].since)'
        BY <4>4 DEF Logs!Told, from
      <4> QED
        BY <4>5 DEF Started
    <3> QED
      BY <1>1, <3>5, <3>6
  <2>7. CASE r \in T.recs /\ f \notin DOMAIN lines[r]
    <3>1. \A k \in Len(logs) + 1 .. Len(logs') : ~Tell(logs'[k], r, f)
      BY <2>4, <2>7 DEF Tell
    <3>2. <<r, f>> \notin unlogged' => <<r, f>> \notin unlogged /\ ~Logs!Told(r, f, T.since)
      BY <2>2, <2>7
    <3>3. Logs!Logged(r, f)' = Logs!Logged(r, f)
      BY <1>3, <3>1, LoggedStays
    <3>4. Settled(r, f)'
      <4> SUFFICES ASSUME ~Logs!WillLog(r)', <<r, f>> \notin unlogged'
                   PROVE  Logs!Logged(r, f) = db[r][f]
        BY <1>1, <3>3 DEF Settled
      <4>1. \A j \in 1 .. n - 1 : ~Covers(j, r)
        BY <1>8
      <4>2. Started(n, r, f)
        BY <1>2, <1>5
      <4>3. /\ stack[n].op = "write" /\ ~stack[n].silent /\ r \in stack[n].recs
            /\ stack[n].old[r][f] = db[r][f]
        BY <1>2, <1>12, <2>3, <2>7
      <4>4. ~Logs!Told(r, f, stack[n].since) /\ <<r, f>> \notin unlogged
        BY <1>2, <3>2
      <4> HIDE DEF n
      <4> QED
        BY <4>1, <4>2, <4>3, <4>4 DEF Started
    <3> QED
      BY <1>10, <3>1, <3>2, <3>4
  <2> QED
    BY <2>5, <2>6, <2>7
<1> QED
  BY <1>11, <1>12

LEMMA LogsInvOrigin == ASSUME Logs!AuditLogConstants, LogInv, Logs!origin PROVE LogInv'
<1>1. LogTypes /\ Stacked /\ Tells
  BY DEF LogInv
<1>2. LogTypes'
  <2>1. stack' \in Seq(Logs!Frame) /\ db' \in [Rec -> [Field -> Val] \cup {None}] /\ stack # <<>>
    BY <1>1, OriginStep
  <2>2. DOMAIN Logs!Top.vals \subseteq Field /\ Logs!Top.recs \subseteq Rec
    BY <1>1, <2>1, TopTyped, RowsAreValues
  <2>3. unlogged' \subseteq Rec \X Field
    BY <1>1, <2>2 DEF Logs!origin, LogTypes
  <2> QED
    BY <1>1, <2>1, <2>3 DEF LogTypes, Logs!origin
<1> QED
  BY <1>1, <1>2, StackedOrigin, TellsOrigin DEF LogInv

LEMMA LogsInvReturn == ASSUME Logs!AuditLogConstants, LogInv, Logs!return PROVE LogInv'
<1>1. LogTypes /\ Stacked /\ Tells
  BY DEF LogInv
<1>2. LogTypes'
  <2>1. /\ stack' \in Seq(Logs!Frame) /\ guard' \subseteq guard
        /\ db' = db /\ used' = used /\ excluded' = excluded /\ calls' = calls
    BY <1>1, ReturnStep
  <2>2. logs' \in Seq(Log)
    BY <1>1, ReturnAppends DEF Appended
  <2>3. unlogged' \subseteq Rec \X Field
    <3>1. CASE Logs!Top.silent \/ Logs!Top.op = "unlink"
      BY <1>1, <3>1, ReturnStep DEF LogTypes
    <3>2. CASE ~(Logs!Top.silent \/ Logs!Top.op = "unlink")
      <4>1. unlogged' = {p \in Rec \X Field :
                     IF p[1] \in Logs!Top.recs /\ p[2] \in DOMAIN ReturnLines[p[1]] THEN FALSE
                     ELSE \/ p \in unlogged
                          \/ p[1] \in Logs!Top.recs /\ Logs!Told(p[1], p[2], Logs!Top.since)}
        BY <1>1, <3>2, ReturnStep
      <4> QED
        BY <4>1
    <3> QED
      BY <3>1, <3>2
  <2> QED
    BY <1>1, <2>1, <2>2, <2>3 DEF LogTypes
<1> QED
  BY <1>1, <1>2, StackedReturn, TellsReturn DEF LogInv

LEMMA LogsInvOtherUser == ASSUME LogInv, Logs!other_user PROVE LogInv'
<1>1. /\ excluded' = TRUE /\ db' = db /\ used' = used /\ stack' = stack /\ guard' = guard
      /\ logs' = logs /\ unlogged' = unlogged /\ calls' = calls
  BY DEF Logs!other_user
<1>2. LogTypes'
  BY <1>1 DEF LogInv, LogTypes
<1>3. Stacked'
  BY <1>1, SameLogs, StackedSame DEF LogInv
<1>4. Tells'
  BY <1>1 DEF Tells
<1> QED
  BY <1>2, <1>3, <1>4 DEF LogInv

LEMMA LogsInvUnchanged == ASSUME LogInv, UNCHANGED Logs!auditLogVars PROVE LogInv'
<1>1. /\ excluded' = excluded /\ db' = db /\ used' = used /\ stack' = stack /\ guard' = guard
      /\ logs' = logs /\ unlogged' = unlogged /\ calls' = calls
  BY DEF Logs!auditLogVars
<1>2. LogTypes'
  BY <1>1 DEF LogInv, LogTypes
<1>3. Stacked'
  BY <1>1, SameLogs, StackedSame DEF LogInv
<1>4. Tells'
  BY <1>1, SameLogs, TellsSame DEF LogInv
<1> QED
  BY <1>2, <1>3, <1>4 DEF LogInv

LEMMA LogsInvInit == ASSUME Logs!AuditLogConstants, Logs!Init PROVE LogInv
<1>1. LogTypes
  <2>1. db \in [Rec -> [Field -> Val] \cup {None}]
    BY DEF Logs!Init, Logs!AuditLogConstants
  <2>2. stack \in Seq(Logs!Frame) /\ logs \in Seq(Log)
    BY DEF Logs!Init
  <2>3. used \subseteq Rec /\ calls \in 0 .. MaxLogCalls
    BY DEF Logs!Init, Logs!AuditLogConstants
  <2> QED
    BY <2>1, <2>2, <2>3 DEF Logs!Init, LogTypes
<1>2. DOMAIN stack = {} /\ DOMAIN logs = {}
  BY DEF Logs!Init
<1>3. \A r \in Rec : db[r] # None => r \in used /\ \A f \in Field : db[r][f] = False
  BY DEF Logs!Init
<1>4. Stacked
  BY <1>2, <1>3 DEF Stacked, Logs!Init
<1>5. \A r, f : Logs!Logged(r, f) = False
  BY <1>2 DEF Logs!Logged, Logs!Told_at
<1>6. Tells
  BY <1>2, <1>3, <1>5 DEF Tells, Settled
<1> QED
  BY <1>1, <1>4, <1>6 DEF LogInv

LEMMA LogsInvNext == ASSUME Logs!AuditLogConstants, LogInv, [Logs!Next]_(Logs!auditLogVars)
                     PROVE  LogInv'
<1>1. ASSUME NEW r \in Rec, NEW vals \in Logs!Values, Logs!create(r, vals) PROVE LogInv'
  BY <1>1, LogsInvCreate
<1>2. ASSUME NEW recs \in (SUBSET Rec) \ {{}}, NEW vals \in Logs!Values \ {<<>>}, Logs!write(recs,
             vals)
      PROVE  LogInv'
  BY <1>2, LogsInvWrite
<1>3. ASSUME NEW recs \in (SUBSET Rec) \ {{}}, Logs!unlink(recs) PROVE LogInv'
  BY <1>3, LogsInvUnlink
<1>4. ASSUME NEW recs \in (SUBSET Rec) \ {{}}, NEW fields \in SUBSET Field, Logs!read(recs, fields)
      PROVE  LogInv'
  BY <1>4, LogsInvRead
<1>5. ASSUME NEW recs \in (SUBSET Rec) \ {{}}, Logs!export_data(recs) PROVE LogInv'
  BY <1>5, LogsInvExport
<1> QED
  BY <1>1, <1>2, <1>3, <1>4, <1>5, LogsInvOrigin, LogsInvReturn, LogsInvOtherUser,
     LogsInvUnchanged DEF Logs!Next

\* auditlog/models/auditlog_rule.py, create_logs: in every reachable state the frames of
\* nested calls hold what the database held when they began, the guard covers the records
\* of the writes on the stack, and the log tells what is written apart from what they owe.
THEOREM LogInvariant == ASSUME Logs!AuditLogConstants PROVE Logs!Spec => []LogInv
<1>1. Logs!Init => LogInv
  BY LogsInvInit
<1>2. LogInv /\ [Logs!Next]_(Logs!auditLogVars) => LogInv'
  BY LogsInvNext
<1> QED
  BY <1>1, <1>2, PTL DEF Logs!Spec

LEMMA LogsTypesFollow == LogInv => Logs!TypeOK
<1> SUFFICES ASSUME LogInv PROVE Logs!TypeOK
  OBVIOUS
<1>1. LogTypes /\ Stacked
  BY DEF LogInv
<1>2. DOMAIN stack = 1 .. Len(stack) /\ DOMAIN logs = 1 .. Len(logs)
  BY <1>1 DEF LogTypes
<1>3. \A i \in DOMAIN stack : stack[i] \in Logs!Frame
  BY <1>1, <1>2, FrameTyped DEF LogTypes
<1>4. \A i \in DOMAIN stack : stack[i].op = "write" /\ LogType = "full"
                                => stack[i].recs \in guard
  BY <1>1 DEF Stacked, FrameOK
<1>5. \A i \in DOMAIN logs : DOMAIN logs[i].lines \subseteq Field \ Hidden
  <2> SUFFICES ASSUME NEW i \in DOMAIN logs PROVE DOMAIN logs[i].lines \subseteq Field \ Hidden
    OBVIOUS
  <2>1. logs[i] \in Log
    BY <1>1, <1>2 DEF LogTypes
  <2>2. logs[i].lines \in LogLines
    BY <2>1 DEF Log
  <2> QED
    BY <2>2 DEF LogLines
<1>6. used = {r \in Rec : db[r] # None} \cup used
  BY <1>1 DEF Stacked
<1> QED
  BY <1>1, <1>3, <1>4, <1>5, <1>6 DEF Logs!TypeOK, LogTypes, Stacked

LEMMA TellsEnough == LogInv => Logs!LogsTellTheValues
<1> SUFFICES ASSUME LogInv, stack = <<>>, LogType = "full", ~excluded,
                    NEW r \in Rec, NEW f \in Field \ Hidden, db[r] # None,
                    <<r, f>> \notin unlogged
             PROVE  Logs!Logged(r, f) = db[r][f]
  BY DEF Logs!LogsTellTheValues
<1>1. ~Logs!WillLog(r)
  BY DEF Logs!WillLog
<1> QED
  BY <1>1 DEF LogInv, Tells, Settled

-----------------------------------------------------------------------------
(* The pages of BrandFilter *)

\* An instance has the operators of the library under names of its own.
LEMMA FilterOperators ==
  ASSUME NEW S
  PROVE  /\ Filter!IsFiniteSet(S) <=> IsFiniteSet(S)
         /\ Filter!Cardinality(S) = Cardinality(S)
         /\ Filter!SetToSeq(S) = SetToSeq(S)
         /\ \A R : Filter!Injection(S, R) = Injection(S, R)
<1>1. Filter!IsFiniteSet(S) <=> IsFiniteSet(S)
  BY DEF Filter!IsFiniteSet, IsFiniteSet
<1>2. Filter!Cardinality(S) = Cardinality(S)
  BY DEF Filter!Cardinality, Cardinality
<1>3. Filter!SetToSeq(S) = SetToSeq(S)
  BY <1>2 DEF Filter!SetToSeq, SetToSeq, Filter!IsInjective, IsInjective
<1>4. \A R : Filter!Injection(S, R) = Injection(S, R)
  BY DEF Filter!Injection, Injection, Filter!IsInjective, IsInjective
<1> QED
  BY <1>1, <1>2, <1>3, <1>4

Answers == [html : SUBSET Brand, has_more : BOOLEAN, next_offset : Nat]
Calls == [id : Nat, place : Filter!Place, first : BOOLEAN, offset : Nat, served : BOOLEAN,
          answer : Answers]
Pages == [mode : Filter!Mode \cup {"none"}, selected : SUBSET Brand, exclude : SUBSET Brand,
          letters : SUBSET Letter]

CallTyped(c) == /\ c \in Calls /\ c.id \in 1 .. answered
                /\ c.first => c.place \in Letter
                /\ \A b \in c.answer.html : c.place \in Letter => letter[b] = c.place
FilterTypes ==
    /\ public \subseteq Brand /\ sold \subseteq Brand /\ page \in Pages
    /\ items \in [Filter!Place -> [Brand -> Nat]] /\ buttons \in [Filter!Place -> Filter!Button]
    /\ \A l \in Letter, b \in Brand : items[l][b] > 0 => letter[b] = l
    /\ loaded \subseteq Letter /\ shown \subseteq Letter /\ doubled \subseteq Letter
    /\ moved \in BOOLEAN /\ visits \in 0 .. MaxVisits /\ answered \in 0 .. MaxBrandCalls
    /\ catalogue \in 0 .. MaxBrandChanges
    /\ \A c \in rpcs : CallTyped(c)

\* The brands of a place, beside the ones that the page came with.
Rest(p) == IF p = "list" THEN Filter!Available \ page.exclude ELSE Filter!OfLetter(Filter!Available, p)
Base(p) == IF p = "list" THEN page.exclude ELSE {}

\* A call under way is the first one of its panel, or the one of a button that waits.
CallOK(c) == /\ c.first => c.offset = 0 /\ c.place \notin loaded
             /\ ~c.first => /\ buttons[c.place].visible /\ buttons[c.place].disabled
                            /\ c.offset = buttons[c.place].offset
CallsOK == /\ \A c \in rpcs : c.place \notin doubled => CallOK(c)
           /\ \A c, d \in rpcs : c.place = d.place /\ c.place \notin doubled => c = d
ServedOK == ~moved => \A c \in rpcs : c.served => c.answer = Filter!Answer(c)

\* A button is heard once, in a place that has been loaded.
ButtonOK(p) == buttons[p].visible => buttons[p].listeners = 1 /\ Filter!InPage(p)
UnloadedOK(p) == p \in Letter \ loaded => items[p] = Filter!Show({}) /\ buttons[p] = Filter!NoButton

\* Each brand before the offset of the button is shown once, every one without a button.
ShownOK(p) == \A b \in Brand :
    items[p][b] = IF \/ b \in Base(p)
                     \/ /\ b \in Rest(p)
                        /\ buttons[p].visible => Filter!Position(Rest(p), b) <= buttons[p].offset
                  THEN 1 ELSE 0
PlaceOK(p) == ButtonOK(p) /\ UnloadedOK(p) /\ (~moved /\ Filter!InPage(p) => ShownOK(p))
PlacesOK == \A p \in Filter!Place \ doubled : PlaceOK(p)
ExcludeOK == page.mode \in {"all", "limited"} /\ ~moved => page.exclude \subseteq Filter!Available

FilterInv == FilterTypes /\ CallsOK /\ ServedOK /\ PlacesOK /\ ExcludeOK

-----------------------------------------------------------------------------
LEMMA PositionBounds ==
  ASSUME Filter!BrandConstants, NEW brands \in SUBSET Brand, NEW b \in brands
  PROVE  Filter!Position(brands, b) \in 1 .. Cardinality(brands) /\ Cardinality(brands) \in Nat
<1> DEFINE before == {c \in brands : rank[c] <= rank[b]}
<1>1. IsFiniteSet(brands) /\ IsFiniteSet(before)
  BY FS_Subset, FilterOperators DEF Filter!BrandConstants
<1>2. Cardinality(brands) \in Nat /\ Cardinality(before) \in Nat
  BY <1>1, FS_CardinalityType
<1>3. Cardinality(before) <= Cardinality(brands)
  BY <1>1, FS_Subset
<1>4. b \in before
  BY FilterOperators DEF Filter!BrandConstants, Injection
<1>5. Cardinality(before) # 0
  BY <1>1, <1>4, FS_EmptySet
<1> QED
  BY <1>2, <1>3, <1>5, FilterOperators DEF Filter!Position

LEMMA SliceTyped ==
  ASSUME Filter!BrandConstants, NEW brands \in SUBSET Brand, NEW offset \in Nat, NEW limit \in Nat
  PROVE  /\ Filter!Slice(brands, offset, limit) \in Answers
         /\ Filter!Slice(brands, offset, limit).html \subseteq brands
         /\ Filter!Slice(brands, offset, limit).next_offset = offset + limit
<1>1. IsFiniteSet(brands)
  BY FS_Subset, FilterOperators DEF Filter!BrandConstants
<1>2. Cardinality(brands) \in Nat
  BY <1>1, FS_CardinalityType
<1> QED
  BY <1>2 DEF Filter!Slice, Answers

LEMMA AvailableTyped ==
  ASSUME Filter!BrandConstants, public \subseteq Brand, NEW selected
  PROVE  Filter!_get_available_brands(selected) \subseteq Brand
BY DEF Filter!_get_available_brands

\* What a place shows after the next page of its brands.
LEMMA NextPage ==
  ASSUME Filter!BrandConstants, NEW brands \in SUBSET Brand, NEW offset \in Nat,
         NEW limit \in Nat \ {0},
         NEW b \in Brand
  PROVE  LET a == Filter!Slice(brands, offset, limit) IN
         /\ b \in a.html <=> b \in brands /\ ~(Filter!Position(brands, b) <= offset)
                               /\ (a.has_more => Filter!Position(brands, b) <= offset + limit)
         /\ b \in brands => Filter!Position(brands, b) \in Nat \ {0}
<1>1. b \in brands =>
        Filter!Position(brands, b) \in 1 .. Cardinality(brands) /\ Cardinality(brands) \in Nat
  BY PositionBounds
<1>2. Cardinality(brands) \in Nat
  BY FS_Subset, FS_CardinalityType, FilterOperators DEF Filter!BrandConstants
<1>3. Filter!Slice(brands, offset, limit).has_more <=> offset + limit < Cardinality(brands)
  BY FilterOperators DEF Filter!Slice
<1>4. b \in Filter!Slice(brands, offset, limit).html <=>
         b \in brands /\ Filter!Position(brands, b) \in offset + 1 .. offset + limit
  BY DEF Filter!Slice
<1> QED
  BY <1>1, <1>2, <1>3, <1>4

LEMMA AnswerTyped ==
  ASSUME Filter!BrandConstants, FilterTypes, NEW c \in rpcs
  PROVE  /\ Filter!Answer(c) \in Answers
         /\ \A b \in Filter!Answer(c).html : c.place \in Letter => letter[b] = c.place
<1>1. c \in Calls
  BY DEF FilterTypes, CallTyped
<1>2. c.offset \in Nat /\ c.place \in Filter!Place
  BY <1>1 DEF Calls
<1>3. /\ Filter!Available \ page.exclude \in SUBSET Brand
      /\ Filter!OfLetter(Filter!Available, c.place) \in SUBSET Brand
      /\ Filter!Available \in SUBSET Brand
  BY AvailableTyped DEF Filter!Available, FilterTypes, Filter!OfLetter
<1>4. BRAND_LIMIT \in Nat /\ BRAND_LETTER_LIMIT \in Nat /\ "list" \notin Letter
  BY DEF Filter!BrandConstants
<1>5. Filter!Answer(c) =
        IF c.place = "list"
        THEN Filter!Slice(Filter!Available \ page.exclude, c.offset, BRAND_LIMIT)
        ELSE Filter!Slice(Filter!OfLetter(Filter!Available, c.place), c.offset, BRAND_LETTER_LIMIT)
  BY DEF Filter!Answer, Filter!brand_filter_load_more, Filter!brand_filter_load_letter,
     Filter!Available
<1>6. c.place \in Letter =>
        Filter!Answer(c).html \subseteq Filter!OfLetter(Filter!Available, c.place)
  BY <1>2, <1>3, <1>4, <1>5, SliceTyped
<1>7. Filter!Answer(c) \in Answers
  <2>1. \A B \in SUBSET Brand : \A offset, limit \in Nat :
          Filter!Slice(B, offset, limit) \in Answers
    BY SliceTyped
  <2>2. Filter!Slice(Filter!Available \ page.exclude, c.offset, BRAND_LIMIT) \in Answers
    BY <1>2, <1>3, <1>4, <2>1, Zenon
  <2>3. Filter!Slice(Filter!OfLetter(Filter!Available, c.place), c.offset, BRAND_LETTER_LIMIT) \in Answers
    BY <1>2, <1>3, <1>4, <2>1, Zenon
  <2> QED
    BY <1>5, <2>2, <2>3, Zenon
<1> QED
  BY <1>6, <1>7 DEF Filter!OfLetter

\* An answer is the next page of the rest of its place.
LEMMA AnswerIsPage ==
  ASSUME Filter!BrandConstants, FilterTypes, NEW c \in rpcs
  PROVE  /\ c.place \in Filter!Place /\ c.offset \in Nat /\ Rest(c.place) \in SUBSET Brand
         /\ \E limit \in Nat \ {0} : Filter!Answer(c) = Filter!Slice(Rest(c.place), c.offset, limit)
<1>1. c \in Calls
  BY DEF FilterTypes, CallTyped
<1>2. c.offset \in Nat /\ c.place \in Filter!Place
  BY <1>1 DEF Calls
<1>3. Rest(c.place) \in SUBSET Brand
  BY AvailableTyped DEF Filter!Available, FilterTypes, Filter!OfLetter, Rest
<1>4. Filter!Answer(c) = Filter!Slice(Rest(c.place), c.offset, IF c.place = "list" THEN BRAND_LIMIT
                                                 ELSE BRAND_LETTER_LIMIT)
  BY DEF Filter!Answer, Filter!brand_filter_load_more, Filter!brand_filter_load_letter,
     Filter!Available, Rest
<1> QED
  BY <1>2, <1>3, <1>4 DEF Filter!BrandConstants

-----------------------------------------------------------------------------
\* The places where nothing has changed are as they were.
LEMMA PlaceStays ==
  ASSUME NEW p \in Filter!Place, PlaceOK(p), UNCHANGED <<public, sold, page, moved>>,
         items'[p] = items[p],
         \/ buttons'[p] = buttons[p]
         \/ buttons[p].visible /\ buttons'[p] = [buttons[p] EXCEPT !.disabled = TRUE],
         p \in loaded' <=> p \in loaded, FilterTypes
  PROVE  PlaceOK(p)'
<1>1. buttons[p] \in Filter!Button
  BY DEF FilterTypes
<1>2. /\ buttons'[p].visible = buttons[p].visible /\ buttons'[p].offset = buttons[p].offset
      /\ buttons'[p].listeners = buttons[p].listeners
  BY <1>1 DEF Filter!Button
<1>3. Filter!InPage(p)' = Filter!InPage(p) /\ Rest(p)' = Rest(p) /\ Base(p)' = Base(p)
  BY DEF Filter!InPage, Rest, Base, Filter!Available, Filter!_get_available_brands, Filter!OfLetter
<1>4. ButtonOK(p)'
  BY <1>2, <1>3 DEF PlaceOK, ButtonOK
<1>5. UnloadedOK(p)'
  BY <1>1 DEF PlaceOK, UnloadedOK, Filter!NoButton
<1>6. ASSUME ~moved', Filter!InPage(p)' PROVE ShownOK(p)'
  <2>1. ShownOK(p)
    BY <1>3, <1>6 DEF PlaceOK
  <2> QED
    BY <2>1, <1>2, <1>3 DEF ShownOK, Filter!Position
<1> QED
  BY <1>4, <1>5, <1>6 DEF PlaceOK

LEMMA ExcludeStays ==
  ASSUME ExcludeOK, UNCHANGED <<public, sold, page, moved>>
  PROVE  ExcludeOK'
BY DEF ExcludeOK, Filter!Available, Filter!_get_available_brands

LEMMA AnswerStays ==
  ASSUME UNCHANGED <<public, sold, page>>, NEW c, NEW d, c.place = d.place, c.offset = d.offset
  PROVE  Filter!Answer(d)' = Filter!Answer(c)
BY DEF Filter!Answer, Filter!brand_filter_load_more, Filter!brand_filter_load_letter,
   Filter!_get_available_brands,
       Filter!OfLetter, Filter!Slice, Filter!Position

LEMMA CallIsTyped ==
  ASSUME Filter!BrandConstants, NEW p \in Filter!Place, NEW first \in BOOLEAN,
         first => p \in Letter,
         NEW offset \in Nat, NEW id \in Nat
  PROVE  /\ Filter!Call(p, first, offset, id) \in Calls
         /\ Filter!Call(p, first, offset, id).answer.html = {}
BY DEF Filter!Call, Calls, Answers, Filter!NoAnswer

LEMMA FilterInvToggle ==
  ASSUME Filter!BrandConstants, FilterInv, NEW l \in Letter, Filter!toggle(l)
  PROVE  FilterInv'
<1> DEFINE new == Filter!Call(l, TRUE, 0, answered + 1)
<1>1. /\ UNCHANGED <<public, sold, page, items, buttons, loaded, visits, catalogue, moved>>
      /\ shown' \subseteq Letter
  BY DEF Filter!toggle, FilterInv, FilterTypes
<1>2. \/ UNCHANGED <<rpcs, answered, doubled>>
      \/ /\ l \notin loaded /\ answered < MaxBrandCalls /\ answered' = answered + 1
         /\ rpcs' = rpcs \cup {new}
         /\ doubled' = IF \E c \in rpcs : c.place = l THEN doubled \cup {l} ELSE doubled
  BY DEF Filter!toggle
<1>3. /\ new \in Calls /\ new.place = l /\ new.first /\ new.offset = 0 /\ ~new.served
      /\ new.id = answered + 1 /\ new.answer.html = {} /\ l \in Filter!Place
  <2>1. answered + 1 \in Nat /\ 0 \in Nat /\ l \in Filter!Place
    BY DEF FilterInv, FilterTypes, Filter!Place
  <2>2. new \in Calls /\ new.answer.html = {}
    BY <2>1, CallIsTyped
  <2>3. new.place = l /\ new.first /\ new.offset = 0 /\ ~new.served /\ new.id = answered + 1
    BY DEF Filter!Call
  <2> QED
    BY <2>1, <2>2, <2>3
<1> HIDE DEF new
<1>4. FilterTypes'
  <2>1. answered \in Nat /\ MaxBrandCalls \in Nat
    BY DEF FilterInv, FilterTypes, Filter!BrandConstants
  <2>2. answered' \in 0 .. MaxBrandCalls /\ answered <= answered'
    BY <1>2, <2>1 DEF FilterInv, FilterTypes
  <2>3. \A c \in rpcs' : CallTyped(c)'
    <3> SUFFICES ASSUME NEW c \in rpcs' PROVE CallTyped(c)'
      OBVIOUS
    <3>1. CASE c \in rpcs
      BY <3>1, <2>1, <2>2 DEF FilterInv, FilterTypes, CallTyped
    <3>2. CASE c = new /\ answered' = answered + 1
      BY <3>2, <1>3, <2>1, <2>2 DEF CallTyped
    <3> QED
      BY <3>1, <3>2, <1>2
  <2>4. doubled' \subseteq Letter
    BY <1>2 DEF FilterInv, FilterTypes
  <2> QED
    BY <1>1, <2>2, <2>3, <2>4 DEF FilterInv, FilterTypes
<1>5. CallsOK'
  <2>1. CASE UNCHANGED <<rpcs, answered, doubled>>
    BY <2>1, <1>1 DEF FilterInv, CallsOK, CallOK
  <2>2. CASE /\ l \notin loaded
             /\ rpcs' = rpcs \cup {new}
             /\ doubled' = IF \E c \in rpcs : c.place = l THEN doubled \cup {l} ELSE doubled
    <3>1. \A c \in rpcs' : c.place \notin doubled' => c.place \notin doubled
      BY <2>2
    <3>2. \A c \in rpcs' : c.place \notin doubled' => CallOK(c)'
      BY <3>1, <2>2, <1>1, <1>3 DEF FilterInv, CallsOK, CallOK
    <3>3. ASSUME NEW c \in rpcs', NEW d \in rpcs', c.place = d.place, c.place \notin doubled'
          PROVE  c = d
      <4>1. CASE c.place = l
        <5>1. ~ \E e \in rpcs : e.place = l
          BY <4>1, <3>3, <2>2
        <5> QED
          BY <4>1, <5>1, <3>3, <2>2
      <4>2. CASE c.place # l
        BY <4>2, <3>1, <3>3, <2>2, <1>3 DEF FilterInv, CallsOK
      <4> QED
        BY <4>1, <4>2
    <3> QED
      BY <3>2, <3>3 DEF CallsOK
  <2> QED
    BY <1>2, <2>1, <2>2
<1>6. ServedOK'
  <2> SUFFICES ASSUME ~moved', NEW c \in rpcs', c.served PROVE c.answer = Filter!Answer(c)'
    BY DEF ServedOK
  <2>1. c \in rpcs
    BY <1>2, <1>3
  <2> QED
    BY <2>1, <1>1, AnswerStays DEF FilterInv, ServedOK
<1>7. PlacesOK'
  <2> SUFFICES ASSUME NEW p \in Filter!Place \ doubled' PROVE PlaceOK(p)'
    BY DEF PlacesOK
  <2>1. p \notin doubled
    BY <1>2
  <2> QED
    BY <2>1, <1>1, PlaceStays DEF FilterInv, PlacesOK
<1> QED
  BY <1>1, <1>4, <1>5, <1>6, <1>7, ExcludeStays DEF FilterInv

LEMMA FilterInvClick ==
  ASSUME Filter!BrandConstants, FilterInv, NEW p \in Filter!Place, Filter!click(p)
  PROVE  FilterInv'
<1> DEFINE b == buttons[p]
           new == {Filter!Call(p, FALSE, b.offset, answered + i) : i \in 1 .. b.listeners}
<1>1. /\ UNCHANGED <<public, sold, page, items, loaded, shown, visits, catalogue, moved, doubled>>
      /\ b.visible /\ ~b.disabled /\ buttons' = [buttons EXCEPT ![p].disabled = TRUE]
      /\ rpcs' = rpcs \cup new
      /\ answered' = answered + b.listeners /\ answered + b.listeners <= MaxBrandCalls
  BY DEF Filter!click
<1>2. /\ b \in Filter!Button /\ buttons \in [Filter!Place -> Filter!Button] /\ answered \in Nat
      /\ MaxBrandCalls \in Nat
  BY DEF FilterInv, FilterTypes, Filter!BrandConstants
<1>3. b.offset \in Nat /\ b.listeners \in Nat
  BY <1>2 DEF Filter!Button
<1>4. \A c \in new : /\ c \in Calls /\ c.place = p /\ ~c.first /\ c.offset = b.offset
                     /\ ~c.served /\ c.id \in 1 .. answered' /\ c.answer.html = {}
  <2> SUFFICES ASSUME NEW i \in 1 .. b.listeners,
                      NEW c, c = Filter!Call(p, FALSE, b.offset, answered + i)
               PROVE  /\ c \in Calls /\ c.place = p /\ ~c.first /\ c.offset = b.offset
                      /\ ~c.served /\ c.id \in 1 .. answered' /\ c.answer.html = {}
    OBVIOUS
  <2>1. c \in Calls /\ c.answer.html = {}
    <3>1. answered + i \in Nat
      BY <1>2, <1>3
    <3> QED
      BY <1>3, <3>1, CallIsTyped
  <2>2. c.place = p /\ ~c.first /\ c.offset = b.offset /\ ~c.served /\ c.id = answered + i
    BY DEF Filter!Call
  <2>3. answered + i \in 1 .. answered'
    BY <1>1, <1>2, <1>3
  <2> QED
    BY <2>1, <2>2, <2>3
<1>5. b.listeners = 1 => \A c, d \in new : c = d
  OBVIOUS
<1>6. /\ \A q \in Filter!Place \ {p} : buttons'[q] = buttons[q]
      /\ buttons'[p] = [b EXCEPT !.disabled = TRUE]
      /\ buttons' \in [Filter!Place -> Filter!Button]
  BY <1>1, <1>2 DEF Filter!Button
<1> HIDE DEF b, new
<1>7. FilterTypes'
  <2>1. answered' \in 0 .. MaxBrandCalls /\ answered <= answered'
    BY <1>1, <1>2, <1>3
  <2>2. \A c \in rpcs' : CallTyped(c)'
    <3> SUFFICES ASSUME NEW c \in rpcs' PROVE CallTyped(c)'
      OBVIOUS
    <3>1. CASE c \in rpcs
      BY <3>1, <1>2, <2>1 DEF FilterInv, FilterTypes, CallTyped
    <3>2. CASE c \in new
      BY <3>2, <1>4 DEF CallTyped
    <3> QED
      BY <3>1, <3>2, <1>1
  <2> QED
    BY <1>1, <1>6, <2>1, <2>2 DEF FilterInv, FilterTypes
<1>8. p \notin doubled => b.listeners = 1 /\ Filter!InPage(p)
  BY <1>1 DEF FilterInv, PlacesOK, PlaceOK, ButtonOK, b
<1>9. p \notin doubled => \A c \in rpcs : c.place # p
  <2> SUFFICES ASSUME p \notin doubled, NEW c \in rpcs, c.place = p PROVE FALSE
    OBVIOUS
  <2>1. CallOK(c)
    BY DEF FilterInv, CallsOK
  <2>2. CASE c.first
    <3>1. p \in Letter /\ p \notin loaded
      BY <2>1, <2>2 DEF CallOK, FilterInv, FilterTypes, CallTyped
    <3> QED
      BY <3>1, <1>8 DEF Filter!InPage, Filter!BrandConstants
  <2>3. CASE ~c.first
    BY <2>1, <2>3, <1>1 DEF CallOK, b
  <2> QED
    BY <2>2, <2>3
<1>10. CallsOK'
  <2>1. ASSUME NEW c \in rpcs', c.place \notin doubled PROVE CallOK(c)'
    <3>1. CASE c \in new
      BY <3>1, <1>4, <1>6, <1>1, <1>2 DEF CallOK, Filter!Button
    <3>2. CASE c \in rpcs
      <4>1. CallOK(c) /\ c.place # p /\ c.place \in Filter!Place
        BY <3>2, <2>1, <1>9 DEF FilterInv, CallsOK, FilterTypes, CallTyped, Calls
      <4> QED
        BY <4>1, <1>6, <1>1 DEF CallOK
    <3> QED
      BY <3>1, <3>2, <1>1
  <2>2. ASSUME NEW c \in rpcs', NEW d \in rpcs', c.place = d.place, c.place \notin doubled
        PROVE  c = d
    <3>1. CASE c.place = p
      <4>1. c \in new /\ d \in new
        BY <3>1, <2>2, <1>9, <1>1
      <4> QED
        BY <4>1, <3>1, <2>2, <1>5, <1>8
    <3>2. CASE c.place # p
      <4>1. c \in rpcs /\ d \in rpcs
        BY <3>2, <2>2, <1>4, <1>1
      <4> QED
        BY <4>1, <2>2 DEF FilterInv, CallsOK
    <3> QED
      BY <3>1, <3>2
  <2> QED
    BY <2>1, <2>2, <1>1 DEF CallsOK
<1>11. ServedOK'
  <2> SUFFICES ASSUME ~moved', NEW c \in rpcs', c.served PROVE c.answer = Filter!Answer(c)'
    BY DEF ServedOK
  <2>1. c \in rpcs
    BY <1>1, <1>4
  <2> QED
    BY <2>1, <1>1, AnswerStays DEF FilterInv, ServedOK
<1>12. PlacesOK'
  <2> SUFFICES ASSUME NEW q \in Filter!Place \ doubled' PROVE PlaceOK(q)'
    BY DEF PlacesOK
  <2>1. PlaceOK(q) /\ items'[q] = items[q]
    BY <1>1 DEF FilterInv, PlacesOK
  <2>2. \/ buttons'[q] = buttons[q]
        \/ buttons[q].visible /\ buttons'[q] = [buttons[q] EXCEPT !.disabled = TRUE]
    BY <1>6, <1>1 DEF b
  <2> QED
    BY <2>1, <2>2, <1>1, PlaceStays DEF FilterInv
<1> QED
  BY <1>1, <1>7, <1>10, <1>11, <1>12, ExcludeStays DEF FilterInv

LEMMA FilterInvServe ==
  ASSUME Filter!BrandConstants, FilterInv, NEW c \in rpcs, Filter!serve(c)
  PROVE  FilterInv'
<1> DEFINE d == [c EXCEPT !.served = TRUE, !.answer = Filter!Answer(c)]
<1>1. /\ UNCHANGED <<public, sold, page, items, buttons, loaded, shown, visits, answered, catalogue,
                     moved, doubled>>
      /\ rpcs' = (rpcs \ {c}) \cup {d}
  BY DEF Filter!serve
<1>2. c \in Calls /\ CallTyped(c)
  BY DEF FilterInv, FilterTypes, CallTyped
<1>3. /\ Filter!Answer(c) \in Answers
      /\ \A b \in Filter!Answer(c).html : c.place \in Letter => letter[b] = c.place
  BY AnswerTyped DEF FilterInv
<1>4. /\ d.id = c.id /\ d.place = c.place /\ d.first = c.first /\ d.offset = c.offset
      /\ d.answer = Filter!Answer(c) /\ d \in Calls
  BY <1>2, <1>3 DEF Calls
<1> HIDE DEF d
<1>5. FilterTypes'
  <2>1. \A e \in rpcs' : CallTyped(e)'
    <3> SUFFICES ASSUME NEW e \in rpcs' PROVE CallTyped(e)'
      OBVIOUS
    <3>1. CASE e \in rpcs
      BY <3>1, <1>1 DEF FilterInv, FilterTypes, CallTyped
    <3>2. CASE e = d
      BY <3>2, <1>1, <1>2, <1>3, <1>4 DEF CallTyped
    <3> QED
      BY <3>1, <3>2, <1>1
  <2> QED
    BY <1>1, <2>1 DEF FilterInv, FilterTypes
<1>6. CallsOK'
  <2>1. ASSUME NEW e \in rpcs', e.place \notin doubled PROVE CallOK(e)'
    <3>1. CASE e \in rpcs
      BY <3>1, <2>1, <1>1 DEF CallOK, FilterInv, CallsOK
    <3>2. CASE e = d
      <4>1. CallOK(c)
        BY <3>2, <2>1, <1>4 DEF FilterInv, CallsOK
      <4> QED
        BY <4>1, <3>2, <1>1, <1>4 DEF CallOK
    <3> QED
      BY <3>1, <3>2, <1>1
  <2>2. ASSUME NEW e \in rpcs', NEW f \in rpcs', e.place = f.place, e.place \notin doubled
        PROVE  e = f
    <3>1. (e \in rpcs /\ e # c) \/ e = d
      BY <1>1
    <3>2. (f \in rpcs /\ f # c) \/ f = d
      BY <1>1
    <3> QED
      BY <3>1, <3>2, <2>2, <1>4 DEF FilterInv, CallsOK
  <2> QED
    BY <2>1, <2>2, <1>1 DEF CallsOK
<1>7. ServedOK'
  <2> SUFFICES ASSUME ~moved', NEW e \in rpcs', e.served PROVE e.answer = Filter!Answer(e)'
    BY DEF ServedOK
  <2>1. CASE e \in rpcs
    BY <2>1, <1>1, AnswerStays DEF FilterInv, ServedOK
  <2>2. CASE e = d
    BY <2>2, <1>1, <1>4, AnswerStays
  <2> QED
    BY <2>1, <2>2, <1>1
<1>8. PlacesOK'
  <2> SUFFICES ASSUME NEW q \in Filter!Place \ doubled' PROVE PlaceOK(q)'
    BY DEF PlacesOK
  <2> QED
    BY <1>1, PlaceStays DEF FilterInv, PlacesOK
<1> QED
  BY <1>1, <1>5, <1>6, <1>7, <1>8, ExcludeStays DEF FilterInv

\* Fewer calls under way.
LEMMA FewerCalls ==
  ASSUME FilterInv, rpcs' \subseteq rpcs,
         UNCHANGED <<public, sold, page, buttons, loaded, moved, doubled>>
  PROVE  CallsOK' /\ ServedOK'
<1>1. CallsOK'
  BY DEF FilterInv, CallsOK, CallOK
<1>2. ServedOK'
  <2> SUFFICES ASSUME ~moved', NEW e \in rpcs', e.served PROVE e.answer = Filter!Answer(e)'
    BY DEF ServedOK
  <2> QED
    BY AnswerStays DEF FilterInv, ServedOK
<1> QED
  BY <1>1, <1>2

LEMMA FilterInvNoAnswer ==
  ASSUME Filter!BrandConstants, FilterInv, NEW c \in rpcs, Filter!no_answer(c)
  PROVE  FilterInv'
<1>1. /\ UNCHANGED <<public, sold, page, items, buttons, loaded, shown, visits, answered, catalogue,
                     moved, doubled>>
      /\ rpcs' \subseteq rpcs
  BY DEF Filter!no_answer
<1>2. FilterTypes'
  BY <1>1 DEF FilterInv, FilterTypes, CallTyped
<1>3. PlacesOK'
  <2> SUFFICES ASSUME NEW q \in Filter!Place \ doubled' PROVE PlaceOK(q)'
    BY DEF PlacesOK
  <2> QED
    BY <1>1, PlaceStays DEF FilterInv, PlacesOK
<1> QED
  BY <1>1, <1>2, <1>3, FewerCalls, ExcludeStays DEF FilterInv

LEMMA FilterInvUnchanged ==
  ASSUME FilterInv, UNCHANGED Filter!brandVars
  PROVE  FilterInv'
<1>1. /\ UNCHANGED <<public, sold, page, items, buttons, loaded, shown, visits, answered, catalogue,
                     moved, doubled>>
      /\ rpcs' \subseteq rpcs
  BY DEF Filter!brandVars
<1>2. FilterTypes'
  BY <1>1 DEF FilterInv, FilterTypes, CallTyped
<1>3. PlacesOK'
  <2> SUFFICES ASSUME NEW q \in Filter!Place \ doubled' PROVE PlaceOK(q)'
    BY DEF PlacesOK
  <2> QED
    BY <1>1, PlaceStays DEF FilterInv, PlacesOK
<1> QED
  BY <1>1, <1>2, <1>3, FewerCalls, ExcludeStays DEF FilterInv

\* Nothing is said of the brands in a page older than the catalogue.
LEMMA FilterInvChange ==
  ASSUME Filter!BrandConstants, FilterInv, NEW b \in Brand, Filter!change(b)
  PROVE  FilterInv'
<1>1. /\ UNCHANGED <<page, items, buttons, loaded, shown, rpcs, visits, answered, doubled>>
      /\ catalogue < MaxBrandChanges /\ catalogue' = catalogue + 1 /\ moved'
      /\ moved' \in BOOLEAN
  BY DEF Filter!change
<1>2. public' \subseteq Brand /\ sold' \subseteq Brand
  BY DEF Filter!change, FilterInv, FilterTypes
<1>3. FilterTypes'
  <2>1. catalogue' \in 0 .. MaxBrandChanges
    BY <1>1 DEF FilterInv, FilterTypes, Filter!BrandConstants
  <2>2. \A c \in rpcs' : CallTyped(c)'
    BY <1>1 DEF FilterInv, FilterTypes, CallTyped
  <2> QED
    BY <1>1, <1>2, <2>1, <2>2 DEF FilterInv, FilterTypes
<1>4. CallsOK'
  BY <1>1 DEF FilterInv, CallsOK, CallOK
<1>5. PlacesOK'
  BY <1>1 DEF FilterInv, PlacesOK, PlaceOK, ButtonOK, UnloadedOK, Filter!InPage
<1> QED
  BY <1>1, <1>3, <1>4, <1>5 DEF FilterInv, ServedOK, ExcludeOK

LEMMA FilterInvInit == ASSUME Filter!BrandConstants, Filter!Init PROVE FilterInv
<1>1. \A p \in Filter!Place : items[p] = Filter!Show({}) /\ buttons[p] = Filter!NoButton
  BY DEF Filter!Init
<1>2. /\ Filter!Show({}) \in [Brand -> Nat] /\ Filter!NoButton \in Filter!Button
      /\ \A b \in Brand : Filter!Show({})[b] = 0
  BY DEF Filter!Show, Filter!NoButton, Filter!Button
<1>3. FilterTypes
  <2>1. items \in [Filter!Place -> [Brand -> Nat]] /\ buttons \in [Filter!Place -> Filter!Button]
    BY <1>2 DEF Filter!Init
  <2>2. \A l \in Letter, b \in Brand : ~(items[l][b] > 0)
    BY <1>1, <1>2 DEF Filter!Place
  <2>3. page \in Pages
    BY DEF Filter!Init, Pages
  <2>4. /\ visits \in 0 .. MaxVisits /\ answered \in 0 .. MaxBrandCalls
        /\ catalogue \in 0 .. MaxBrandChanges
    BY DEF Filter!Init, Filter!BrandConstants
  <2>5. \A l \in Letter, b \in Brand : items[l][b] > 0 => letter[b] = l
    BY <2>2
  <2>6. /\ public \subseteq Brand /\ sold \subseteq Brand /\ moved \in BOOLEAN
        /\ loaded \subseteq Letter /\ shown \subseteq Letter /\ doubled \subseteq Letter
        /\ rpcs = {}
    BY DEF Filter!Init
  <2> QED
    BY <2>1, <2>3, <2>4, <2>5, <2>6 DEF FilterTypes
<1>4. CallsOK /\ ServedOK /\ ExcludeOK
  BY DEF CallsOK, ServedOK, ExcludeOK, Filter!Init, Filter!Mode
<1>5. \A p \in Filter!Place : ~Filter!InPage(p)
  BY DEF Filter!InPage, Filter!Init
<1>6. PlacesOK
  BY <1>1, <1>5 DEF PlacesOK, PlaceOK, ButtonOK, UnloadedOK, Filter!NoButton
<1> QED
  BY <1>3, <1>4, <1>6 DEF FilterInv

\* The answer to a call is shown beside what its place showed.
LEMMA AnswerShown ==
  ASSUME Filter!BrandConstants, FilterInv, NEW c \in rpcs, Filter!answered(c),
         c.place \notin doubled
  PROVE  PlaceOK(c.place)'
<1> DEFINE p == c.place
           a == c.answer
<1>1. /\ CallTyped(c) /\ c \in Calls /\ p \in Filter!Place /\ c.first \in BOOLEAN /\ a \in Answers
  BY DEF FilterInv, FilterTypes, CallTyped, Calls
<1>2. CallOK(c) /\ PlaceOK(p) /\ c.served
  BY <1>1 DEF FilterInv, CallsOK, PlacesOK, Filter!answered
<1>3. buttons \in [Filter!Place -> Filter!Button] /\ items \in [Filter!Place -> [Brand -> Nat]]
  BY DEF FilterInv, FilterTypes
<1>4. /\ buttons'[p]
           = IF c.first THEN Filter!FirstLoaded(buttons[p], a) ELSE Filter!MoreLoaded(buttons[p], a)
      /\ \A b \in Brand :
           items'[p][b] = Filter!Show(a.html)[b] + (IF c.first THEN 0 ELSE items[p][b])
      /\ loaded' = IF c.first THEN loaded \cup {p} ELSE loaded
      /\ UNCHANGED <<public, sold, page, moved>>
  BY <1>1, <1>3 DEF Filter!answered
<1>5. Filter!InPage(p)
         => Filter!InPage(p)'
  BY <1>4 DEF Filter!InPage
<1>6. Rest(p)' = Rest(p) /\ Base(p)' = Base(p)
  BY <1>4 DEF Rest, Base, Filter!Available, Filter!_get_available_brands, Filter!OfLetter
<1>7. /\ buttons'[p].visible = a.has_more
      /\ a.has_more => buttons'[p].offset = a.next_offset /\ buttons'[p].listeners = 1
      /\ p \in Letter => p \in loaded'
      /\ Filter!InPage(p)'
  <2>1. CASE c.first
    <3>1. p \in Letter /\ p \notin loaded
      BY <1>1, <1>2, <2>1 DEF CallTyped, CallOK
    <3>2. buttons[p] = Filter!NoButton
      BY <1>2, <3>1 DEF PlaceOK, UnloadedOK
    <3>3. buttons'[p] = Filter!FirstLoaded(Filter!NoButton, a)
      BY <1>4, <2>1, <3>2
    <3>4. Filter!InPage(p)'
      BY <1>4, <2>1, <3>1 DEF Filter!InPage, Filter!BrandConstants
    <3>5. CASE a.has_more
      <4>1. buttons'[p].visible /\ buttons'[p].offset = a.next_offset /\ buttons'[p].listeners = 1
        BY <3>3, <3>5 DEF Filter!FirstLoaded, Filter!NoButton
      <4> QED
        BY <4>1, <1>1, <1>4, <2>1, <3>3, <3>4, <3>5 DEF Filter!FirstLoaded, Filter!NoButton, Answers
    <3>6. CASE ~a.has_more
      <4>1. buttons'[p] = Filter!NoButton
        BY <3>3, <3>6 DEF Filter!FirstLoaded
      <4> QED
        <5>1. a.has_more = FALSE
          BY <1>1, <3>6 DEF Answers
        <5>2. buttons'[p].visible = FALSE
          BY <4>1 DEF Filter!NoButton
        <5> QED
          BY <5>1, <5>2, <3>4, <1>4, <2>1
    <3> QED
      BY <3>5, <3>6
  <2>2. CASE ~c.first
    <3>1. /\ buttons[p].visible /\ buttons[p].listeners = 1 /\ Filter!InPage(p)
          /\ buttons[p] \in Filter!Button
      BY <1>1, <1>2, <1>3, <2>2 DEF CallOK, PlaceOK, ButtonOK
    <3>2. p \in Letter => p \in loaded
      BY <3>1 DEF Filter!InPage, Filter!BrandConstants
    <3>3. buttons'[p] = Filter!MoreLoaded(buttons[p], a)
      BY <1>4, <2>2
    <3> QED
      BY <1>1, <1>4, <1>5, <2>2, <3>1, <3>2, <3>3 DEF Filter!MoreLoaded, Filter!Button, Answers
  <2> QED
    BY <2>1, <2>2
<1>8. ButtonOK(p)' /\ UnloadedOK(p)'
  BY <1>7 DEF ButtonOK, UnloadedOK
<1>9. ASSUME ~moved' PROVE ShownOK(p)'
  <2> SUFFICES ASSUME NEW b \in Brand
               PROVE  items'[p][b] = IF \/ b \in Base(p)
                                        \/ /\ b \in Rest(p)
                                           /\ a.has_more =>
                                                Filter!Position(Rest(p), b) <= a.next_offset
                                     THEN 1 ELSE 0
    BY <1>6, <1>7 DEF ShownOK, Filter!Position
  <2>1. a = Filter!Answer(c)
    BY <1>2, <1>4, <1>9 DEF FilterInv, ServedOK
  <2>2. PICK limit \in Nat \ {0} : Filter!Answer(c) = Filter!Slice(Rest(p), c.offset, limit)
    BY AnswerIsPage DEF FilterInv
  <2>3. Rest(p) \in SUBSET Brand /\ c.offset \in Nat
    BY AnswerIsPage DEF FilterInv
  <2>4. a.next_offset = c.offset + limit
    BY <2>1, <2>2 DEF Filter!Slice
  <2>5. /\ b \in a.html <=> b \in Rest(p) /\ ~(Filter!Position(Rest(p), b) <= c.offset)
                              /\ (a.has_more => Filter!Position(Rest(p), b) <= c.offset + limit)
        /\ b \in Rest(p) => Filter!Position(Rest(p), b) \in Nat \ {0}
    BY <2>1, <2>2, <2>3, NextPage
  <2>6. Filter!Show(a.html)[b] = IF b \in a.html THEN 1 ELSE 0
    BY DEF Filter!Show
  <2>7. b \in Rest(p) => b \notin Base(p)
    BY DEF Rest, Base
  <2>8. CASE c.first
    <3>1. p \in Letter /\ c.offset = 0
      BY <1>1, <1>2, <2>8 DEF CallTyped, CallOK
    <3>2. b \notin Base(p)
      BY <3>1 DEF Base, Filter!BrandConstants
    <3>3. items'[p][b] = IF b \in a.html THEN 1 ELSE 0
      BY <1>4, <2>6, <2>8
    <3> QED
      BY <3>1, <3>2, <3>3, <2>4, <2>5
  <2>9. CASE ~c.first
    <3>1. /\ buttons[p].visible /\ buttons[p].offset = c.offset /\ Filter!InPage(p)
      BY <1>2, <2>9 DEF CallOK, PlaceOK, ButtonOK
    <3>2. ShownOK(p)
      BY <1>2, <1>4, <1>9, <3>1 DEF PlaceOK
    <3>3. items[p][b]
            = IF b \in Base(p) \/ (b \in Rest(p) /\ Filter!Position(Rest(p), b) <= c.offset)
                        THEN 1 ELSE 0
      BY <3>1, <3>2 DEF ShownOK
    <3>4. items'[p][b] = (IF b \in a.html THEN 1 ELSE 0) + items[p][b]
      BY <1>4, <2>6, <2>9
    <3> QED
      BY <3>3, <3>4, <2>3, <2>4, <2>5, <2>7
  <2> QED
    BY <2>8, <2>9
<1> QED
  BY <1>8, <1>9 DEF PlaceOK

LEMMA FilterInvAnswered ==
  ASSUME Filter!BrandConstants, FilterInv, NEW c \in rpcs, Filter!answered(c)
  PROVE  FilterInv'
<1> DEFINE p == c.place
           a == c.answer
<1>1. /\ CallTyped(c) /\ c \in Calls /\ p \in Filter!Place /\ c.first \in BOOLEAN /\ a \in Answers
      /\ p \notin doubled => CallOK(c)
  BY DEF FilterInv, FilterTypes, CallTyped, Calls, CallsOK
<1>2. buttons \in [Filter!Place -> Filter!Button] /\ items \in [Filter!Place -> [Brand -> Nat]]
  BY DEF FilterInv, FilterTypes
<1>3. /\ UNCHANGED <<public, sold, page, shown, visits, answered, catalogue, moved, doubled>>
      /\ rpcs' = rpcs \ {c}
      /\ loaded' = IF c.first THEN loaded \cup {p} ELSE loaded
  BY DEF Filter!answered
<1>4. /\ \A q \in Filter!Place \ {p} : items'[q] = items[q] /\ buttons'[q] = buttons[q]
                                /\ (q \in loaded' <=> q \in loaded)
      /\ DOMAIN items' = Filter!Place /\ DOMAIN buttons' = Filter!Place
  BY <1>2 DEF Filter!answered
<1>5. FilterTypes'
  <2>1. buttons' \in [Filter!Place -> Filter!Button]
    <3>1. buttons[p] \in Filter!Button
      BY <1>1, <1>2
    <3>2. /\ Filter!FirstLoaded(buttons[p], a) \in Filter!Button
          /\ Filter!MoreLoaded(buttons[p], a) \in Filter!Button
      <4>1. a.next_offset \in Nat /\ a.has_more \in BOOLEAN
        BY <1>1 DEF Answers
      <4>2. Filter!FirstLoaded(buttons[p], a) \in Filter!Button
        <5> DEFINE x == [buttons[p] EXCEPT !.offset = a.next_offset]
                   y == [x EXCEPT !.visible = TRUE]
        <5>1. y \in Filter!Button
          BY <3>1, <4>1 DEF Filter!Button
        <5>2. buttons[p].listeners + 1 \in Nat
          BY <3>1 DEF Filter!Button
        <5>3. [y EXCEPT !.listeners = buttons[p].listeners + 1] \in Filter!Button
          <6> HIDE DEF y
          <6> QED
            BY <5>1, <5>2 DEF Filter!Button
        <5> QED
          BY <5>3, <3>1 DEF Filter!FirstLoaded
      <4>3. Filter!MoreLoaded(buttons[p], a) \in Filter!Button
        BY <3>1, <4>1 DEF Filter!MoreLoaded, Filter!Button
      <4> QED
        BY <4>2, <4>3
    <3> QED
      BY <1>2, <3>2 DEF Filter!answered
  <2>2. items'[p] = [b \in Brand |-> Filter!Show(a.html)[b] + (IF c.first THEN 0 ELSE items[p][b])]
    BY <1>1, <1>2 DEF Filter!answered
  <2>3. items' \in [Filter!Place -> [Brand -> Nat]]
    <3>1. \A b \in Brand : Filter!Show(a.html)[b] \in Nat /\ items[p][b] \in Nat
      BY <1>1, <1>2 DEF Filter!Show
    <3>2. items'[p] \in [Brand -> Nat]
      BY <2>2, <3>1
    <3>3. items' = [items EXCEPT ![p] = items'[p]]
      BY <1>1, <1>2 DEF Filter!answered
    <3> QED
      BY <1>2, <3>2, <3>3
  <2>4. \A l \in Letter, b \in Brand : items'[l][b] > 0 => letter[b] = l
    <3> SUFFICES ASSUME NEW l \in Letter, NEW b \in Brand, items'[l][b] > 0 PROVE letter[b] = l
      OBVIOUS
    <3>1. CASE l # p
      <4>1. items'[l] = items[l]
        BY <3>1, <1>4 DEF Filter!Place
      <4> QED
        BY <4>1 DEF FilterInv, FilterTypes
    <3>2. CASE l = p
      <4>1. b \in a.html \/ items[p][b] > 0
        BY <3>2, <2>2, <1>1, <1>2 DEF Filter!Show
      <4> QED
        BY <4>1, <3>2, <1>1 DEF CallTyped, FilterInv, FilterTypes
    <3> QED
      BY <3>1, <3>2
  <2>5. loaded' \subseteq Letter
    BY <1>1, <1>3 DEF CallTyped, FilterInv, FilterTypes
  <2>6. \A d \in rpcs' : CallTyped(d)'
    BY <1>3 DEF FilterInv, FilterTypes, CallTyped
  <2> QED
    BY <1>3, <2>1, <2>3, <2>4, <2>5, <2>6 DEF FilterInv, FilterTypes
<1>6. CallsOK'
  <2>1. ASSUME NEW d \in rpcs', d.place \notin doubled PROVE CallOK(d)'
    <3>1. d \in rpcs /\ d # c /\ d.place # p /\ CallOK(d)
      BY <2>1, <1>3 DEF FilterInv, CallsOK
    <3>2. d.place \in Filter!Place
      BY <3>1 DEF FilterInv, FilterTypes, CallTyped, Calls
    <3> QED
      BY <3>1, <3>2, <1>4 DEF CallOK
  <2> QED
    BY <2>1, <1>3 DEF FilterInv, CallsOK
<1>7. ServedOK'
  <2> SUFFICES ASSUME ~moved', NEW e \in rpcs', e.served PROVE e.answer = Filter!Answer(e)'
    BY DEF ServedOK
  <2> QED
    BY <1>3, AnswerStays DEF FilterInv, ServedOK
<1>8. PlacesOK'
  <2> SUFFICES ASSUME NEW q \in Filter!Place \ doubled PROVE PlaceOK(q)'
    BY <1>3 DEF PlacesOK
  <2>1. CASE q = p
    BY <2>1, AnswerShown
  <2>2. CASE q # p
    BY <2>2, <1>3, <1>4, PlaceStays DEF FilterInv, PlacesOK
  <2> QED
    BY <2>1, <2>2
<1> QED
  BY <1>3, <1>5, <1>6, <1>7, <1>8, ExcludeStays DEF FilterInv

\* What the page comes with: without a button the list is complete.
LEMMA PageValues ==
  ASSUME Filter!BrandConstants, FilterTypes, NEW mode \in Filter!Mode,
         NEW selected \in SUBSET Brand,
         NEW v, v = Filter!_get_brand_filter_values(mode, selected)
  PROVE  /\ v.brands \subseteq Filter!_get_available_brands(selected)
         /\ Filter!_get_available_brands(selected) \subseteq Brand
         /\ v.letters \subseteq Letter
         /\ v.has_more => mode = "limited"
         /\ mode \in {"all", "limited"} /\ ~v.has_more =>
               v.brands = Filter!_get_available_brands(selected)
<1> DEFINE brands == Filter!_get_available_brands(selected)
           visible == Filter!Slice(brands, 0, BRAND_LIMIT).html \cup (brands \cap selected)
<1>1. brands \subseteq Brand
  BY AvailableTyped DEF FilterTypes
<1>2. visible \subseteq brands
  BY DEF Filter!Slice
<1>3. {letter[b] : b \in brands} \subseteq Letter
  BY <1>1 DEF Filter!BrandConstants
<1> HIDE DEF visible, brands
<1>4. CASE mode = "limited"
  <2> DEFINE more == brands \ visible # {}
  <2>1. v = [brands |-> visible, has_more |-> more, letters |-> {}]
    BY <1>4 DEF Filter!_get_brand_filter_values, brands, visible
  <2> HIDE DEF more
  <2>2. v.brands = visible /\ v.letters = {} /\ v.has_more = more
    BY <2>1
  <2>3. ~more => brands \ visible = {}
    BY DEF more
  <2> QED
    BY <1>4, <2>2, <2>3, <1>1, <1>2 DEF brands
<1>5. CASE mode = "letters"
  <2>1. v = [brands |-> {}, has_more |-> FALSE, letters |-> {letter[b] : b \in brands}]
    BY <1>5 DEF Filter!_get_brand_filter_values, brands
  <2>2. v.brands = {} /\ v.letters = {letter[b] : b \in brands} /\ ~v.has_more
    BY <2>1
  <2> QED
    BY <1>5, <2>2, <1>1, <1>3 DEF brands
<1>6. CASE mode = "all"
  <2>1. v = [brands |-> brands, has_more |-> FALSE, letters |-> {}]
    BY <1>6 DEF Filter!_get_brand_filter_values, brands
  <2>2. v.brands = brands /\ v.letters = {} /\ ~v.has_more
    BY <2>1
  <2> QED
    BY <1>6, <2>2, <1>1 DEF brands
<1> QED
  BY <1>4, <1>5, <1>6 DEF Filter!Mode

LEMMA FilterInvShop ==
  ASSUME Filter!BrandConstants, FilterInv, NEW mode \in Filter!Mode, NEW selected \in SUBSET Brand,
         Filter!shop(mode, selected)
  PROVE  FilterInv'
<1> DEFINE v == Filter!_get_brand_filter_values(mode, selected)
           open == v.letters \cap {letter[b] : b \in selected}
           ids == SetToSeq(open)
           n == Cardinality(open)
           first == [Filter!NoButton EXCEPT !.visible = TRUE, !.listeners = 1]
<1>1. /\ visits < MaxVisits /\ visits' = visits + 1
      /\ answered + Len(ids) <= MaxBrandCalls /\ answered' = answered + Len(ids)
      /\ page' = [mode |-> mode, selected |-> selected, exclude |-> v.brands,
                  letters |-> v.letters]
      /\ items' = [p \in Filter!Place |-> Filter!Show(IF p = "list" THEN v.brands ELSE {})]
      /\ buttons' = [p \in Filter!Place |-> IF p = "list" /\ v.has_more THEN first ELSE Filter!NoButton]
      /\ rpcs' = {Filter!Call(ids[i], TRUE, 0, answered + i) : i \in DOMAIN ids}
      /\ loaded' = {} /\ shown' = open /\ ~moved' /\ moved' \in BOOLEAN /\ doubled' = {}
      /\ UNCHANGED <<public, sold, catalogue>>
  <2>1. Filter!SetToSeq(open) = ids
    BY FilterOperators
  <2> HIDE DEF v, first, ids
  <2> QED
    BY <2>1 DEF Filter!shop, v, first
<1>2. /\ v.brands \subseteq Filter!_get_available_brands(selected)
      /\ Filter!_get_available_brands(selected) \subseteq Brand
      /\ v.letters \subseteq Letter
      /\ v.has_more => mode = "limited"
      /\ mode \in {"all", "limited"} /\ ~v.has_more =>
           v.brands = Filter!_get_available_brands(selected)
  BY PageValues DEF FilterInv
<1>3. /\ first \in Filter!Button /\ first.visible /\ first.offset = 0 /\ first.listeners = 1
      /\ Filter!NoButton \in Filter!Button
  <2>1. Filter!NoButton \in Filter!Button /\ Filter!NoButton.offset = 0
    BY DEF Filter!NoButton, Filter!Button
  <2> DEFINE x == [Filter!NoButton EXCEPT !.visible = TRUE]
  <2>2. x \in Filter!Button /\ x.visible /\ x.offset = 0
    BY <2>1 DEF Filter!Button
  <2>3. first = [x EXCEPT !.listeners = 1]
    OBVIOUS
  <2> HIDE DEF x, first
  <2> QED
    BY <2>1, <2>2, <2>3 DEF Filter!Button
<1> HIDE DEF v, first
<1>4. open \subseteq Letter /\ IsFiniteSet(open)
  BY <1>2, FS_Subset, FilterOperators DEF Filter!BrandConstants
<1>5. /\ n \in Nat /\ ids \in [1 .. n -> open]
      /\ \A i, j \in 1 .. n : ids[i] = ids[j] => i = j
  BY <1>4, ListsEach
<1> HIDE DEF open, ids, n
<1>6. DOMAIN ids = 1 .. n /\ Len(ids) = n
  BY <1>5
<1>7. Filter!Available' = Filter!_get_available_brands(selected)
  <2>1. page'.selected = selected
    BY <1>1
  <2> QED
    BY <2>1, <1>1 DEF Filter!Available, Filter!_get_available_brands
<1>8. /\ page'.mode = mode /\ page'.exclude = v.brands
      /\ page' \in Pages
  <2>1. page'.mode = mode /\ page'.exclude = v.brands
    BY <1>1
  <2>2. v.brands \in SUBSET Brand /\ v.letters \in SUBSET Letter
    BY <1>2
  <2>3. page' \in Pages
    BY <2>2, <1>1 DEF Pages
  <2> QED
    BY <2>1, <2>3
<1>9. \A c \in rpcs' : /\ c \in Calls /\ c.place \in Letter /\ c.first /\ c.offset = 0 /\ ~c.served
                       /\ c.id \in 1 .. answered' /\ c.answer.html = {}
                       /\ \E i \in 1 .. n : c = Filter!Call(ids[i], TRUE, 0, answered + i)
  <2> SUFFICES ASSUME NEW i \in 1 .. n, NEW c, c = Filter!Call(ids[i], TRUE, 0, answered + i)
               PROVE  /\ c \in Calls /\ c.place \in Letter /\ c.first /\ c.offset = 0
                      /\ ~c.served /\ c.id \in 1 .. answered' /\ c.answer.html = {}
    BY <1>1, <1>6
  <2>1. answered \in Nat
    BY DEF FilterInv, FilterTypes, Filter!BrandConstants
  <2>2. ids[i] \in Letter /\ ids[i] \in Filter!Place
    BY <1>4, <1>5 DEF Filter!Place
  <2>3. answered + i \in Nat /\ answered + i \in 1 .. answered'
    BY <2>1, <1>1, <1>5, <1>6
  <2>4. c \in Calls /\ c.answer.html = {}
    BY <2>2, <2>3, CallIsTyped
  <2>5. c.place = ids[i] /\ c.first /\ c.offset = 0 /\ ~c.served /\ c.id = answered + i
    BY DEF Filter!Call
  <2> QED
    BY <2>2, <2>3, <2>4, <2>5
<1>10. FilterTypes'
  <2>1. \A c \in rpcs' : CallTyped(c)'
    BY <1>9 DEF CallTyped
  <2>2. items' \in [Filter!Place -> [Brand -> Nat]]
    BY <1>1 DEF Filter!Show
  <2>3. \A l \in Letter, b \in Brand : ~(items'[l][b] > 0)
    <3> SUFFICES ASSUME NEW l \in Letter, NEW b \in Brand PROVE ~(items'[l][b] > 0)
      OBVIOUS
    <3>1. l # "list" /\ l \in Filter!Place
      BY DEF Filter!BrandConstants, Filter!Place
    <3>2. items'[l] = Filter!Show({})
      BY <3>1, <1>1
    <3> QED
      BY <3>2 DEF Filter!Show
  <2>4. buttons' \in [Filter!Place -> Filter!Button]
    BY <1>1, <1>3
  <2>5. visits' \in 0 .. MaxVisits /\ answered' \in 0 .. MaxBrandCalls
    BY <1>1, <1>5, <1>6 DEF FilterInv, FilterTypes, Filter!BrandConstants
  <2>6. shown' \subseteq Letter
    BY <1>1, <1>4
  <2> QED
    BY <1>1, <1>8, <2>1, <2>2, <2>3, <2>4, <2>5, <2>6 DEF FilterInv, FilterTypes
<1>11. CallsOK'
  <2>1. \A c \in rpcs' : CallOK(c)'
    BY <1>1, <1>9 DEF CallOK
  <2>2. ASSUME NEW c \in rpcs', NEW d \in rpcs', c.place = d.place PROVE c = d
    <3>1. PICK i \in 1 .. n : c = Filter!Call(ids[i], TRUE, 0, answered + i)
      BY <1>9
    <3>2. PICK j \in 1 .. n : d = Filter!Call(ids[j], TRUE, 0, answered + j)
      BY <1>9
    <3>3. ids[i] = ids[j]
      BY <2>2, <3>1, <3>2 DEF Filter!Call
    <3>4. i = j
      BY <3>3, <1>5
    <3> QED
      BY <3>1, <3>2, <3>4
  <2> QED
    BY <2>1, <2>2 DEF CallsOK
<1>12. ServedOK'
  BY <1>9 DEF ServedOK
<1>13. ExcludeOK'
  BY <1>2, <1>7, <1>8 DEF ExcludeOK
<1>14. PlacesOK'
  <2> SUFFICES ASSUME NEW p \in Filter!Place PROVE PlaceOK(p)'
    BY DEF PlacesOK
  <2>1. CASE p # "list"
    <3>1. ~Filter!InPage(p)' /\ buttons'[p] = Filter!NoButton /\ items'[p] = Filter!Show({})
      BY <2>1, <1>1 DEF Filter!InPage
    <3> QED
      BY <3>1 DEF PlaceOK, ButtonOK, UnloadedOK, Filter!NoButton
  <2>2. CASE p = "list"
    <3>1. /\ buttons'[p] = IF v.has_more THEN first ELSE Filter!NoButton
          /\ items'[p] = Filter!Show(v.brands)
      BY <2>2, <1>1 DEF Filter!Place
    <3>2. /\ Filter!InPage(p)' <=> mode \in {"all", "limited"}
          /\ Rest(p)' = Filter!_get_available_brands(selected) \ v.brands
          /\ Base(p)' = v.brands
      BY <2>2, <1>7, <1>8 DEF Filter!InPage, Rest, Base
    <3>3. buttons'[p].visible <=> v.has_more
      BY <3>1, <1>3 DEF Filter!NoButton
    <3>4. buttons'[p].visible => buttons'[p].listeners = 1 /\ buttons'[p].offset = 0
      BY <3>1, <3>3, <1>3
    <3>5. ButtonOK(p)' /\ UnloadedOK(p)'
      BY <2>2, <3>2, <3>3, <3>4, <1>2 DEF ButtonOK, UnloadedOK, Filter!BrandConstants
    <3>6. ASSUME Filter!InPage(p)' PROVE ShownOK(p)'
      <4> SUFFICES ASSUME NEW b \in Brand
                   PROVE  items'[p][b] =
                            IF \/ b \in Base(p)'
                               \/ /\ b \in Rest(p)'
                                  /\ buttons'[p].visible =>
                                       Filter!Position(Rest(p)', b) <= buttons'[p].offset
                            THEN 1 ELSE 0
        BY DEF ShownOK, Filter!Position
      <4>1. items'[p][b] = IF b \in v.brands THEN 1 ELSE 0
        BY <3>1 DEF Filter!Show
      <4>2. ~v.has_more => b \notin Rest(p)'
        BY <3>2, <3>6, <1>2
      <4>3. b \in Rest(p)' => Filter!Position(Rest(p)', b) \in Nat \ {0}
        BY <3>2, <1>2, PositionBounds
      <4> QED
        BY <4>1, <4>2, <4>3, <3>2, <3>3, <3>4
    <3> QED
      BY <3>5, <3>6 DEF PlaceOK
  <2> QED
    BY <2>1, <2>2
<1> QED
  BY <1>10, <1>11, <1>12, <1>13, <1>14 DEF FilterInv

LEMMA FilterInvNext == ASSUME Filter!BrandConstants, FilterInv, Filter!Next PROVE FilterInv'
<1>1. CASE \E mode \in Filter!Mode, selected \in SUBSET Brand : Filter!shop(mode, selected)
  BY <1>1, FilterInvShop
<1>2. CASE \E l \in Letter : Filter!toggle(l)
  BY <1>2, FilterInvToggle
<1>3. CASE \E p \in Filter!Place : Filter!click(p)
  BY <1>3, FilterInvClick
<1>4. CASE \E c \in rpcs : Filter!serve(c) \/ Filter!answered(c) \/ Filter!no_answer(c)
  BY <1>4, FilterInvServe, FilterInvAnswered, FilterInvNoAnswer
<1>5. CASE \E b \in Brand : Filter!change(b)
  BY <1>5, FilterInvChange
<1> QED
  BY <1>1, <1>2, <1>3, <1>4, <1>5, Zenon DEF Filter!Next

\* website_sale_brand_filter.esm.js, _onLoadMore, and brand_filter_load_more: the brands that
\* a place shows are those before the offset of its button, and an answer has the next ones,
\* as long as neither the list of brands has moved nor a button has two listeners.
THEOREM FilterInvariant == ASSUME Filter!BrandConstants PROVE Filter!Spec => []FilterInv
<1>1. Filter!Init => FilterInv
  BY FilterInvInit
<1>2. FilterInv /\ [Filter!Next]_(Filter!brandVars) => FilterInv'
  BY FilterInvNext, FilterInvUnchanged
<1> QED
  BY <1>1, <1>2, PTL DEF Filter!Spec

LEMMA FilterTypesFollow == ASSUME FilterInv PROVE Filter!TypeOK
<1>1. \A c \in rpcs : /\ c.id \in 1 .. answered /\ c.place \in Filter!Place /\ c.offset \in Nat
                      /\ c.first => c.place \in Letter
  BY DEF FilterInv, FilterTypes, CallTyped, Calls
<1>2. /\ page.mode \in Filter!Mode \cup {"none"} /\ page.selected \cup page.exclude \subseteq Brand
      /\ page.letters \subseteq Letter
  BY DEF FilterInv, FilterTypes, Pages
<1> QED
  BY <1>1, <1>2 DEF FilterInv, FilterTypes, Filter!TypeOK

\* Without a button every brand of a place is shown, and always once at most.
LEMMA ShownOnce == ASSUME Filter!BrandConstants, FilterInv PROVE Filter!BrandsShownOnce
<1> SUFFICES ASSUME ~moved, NEW p \in Filter!Place, Filter!InPage(p), p \notin doubled
             PROVE  /\ \A b \in Brand : items[p][b] <= 1
                    /\ ~buttons[p].visible => {b \in Brand : items[p][b] > 0} = Filter!Whole(p)
  BY DEF Filter!BrandsShownOnce
<1>1. ShownOK(p)
  BY DEF FilterInv, PlacesOK, PlaceOK
<1>2. \A b \in Brand : items[p][b] <= 1
  BY <1>1 DEF ShownOK
<1>3. Filter!Whole(p) \subseteq Brand
  BY AvailableTyped DEF FilterInv, FilterTypes, Filter!Whole, Filter!Available, Filter!OfLetter
<1>4. Filter!Whole(p) = Base(p) \cup Rest(p)
  <2>1. CASE p = "list"
    <3>1. page.exclude \subseteq Filter!Available
      BY <2>1 DEF FilterInv, ExcludeOK, Filter!InPage
    <3> QED
      BY <2>1, <3>1 DEF Filter!Whole, Base, Rest
  <2>2. CASE p # "list"
    BY <2>2 DEF Filter!Whole, Base, Rest
  <2> QED
    BY <2>1, <2>2
<1>5. ASSUME ~buttons[p].visible PROVE {b \in Brand : items[p][b] > 0} = Filter!Whole(p)
  <2>1. \A b \in Brand : items[p][b] = IF b \in Filter!Whole(p) THEN 1 ELSE 0
    BY <1>1, <1>4, <1>5 DEF ShownOK
  <2> QED
    BY <2>1, <1>3
<1> QED
  BY <1>2, <1>5

-----------------------------------------------------------------------------
(* The imports of StatementImport *)

LEMMA LeastNumber ==
  ASSUME NEW S \in SUBSET Nat, S # {}
  PROVE  \E n \in S : \A m \in S : n <= m
<1> DEFINE R == OpToRel(<, Nat)
<1>1. PICK n \in S : \A m \in S : ~(<<m, n>> \in R)
  <2>1. IsWellFoundedOn(R, Nat)
    BY NatLessThanWellFounded
  <2> HIDE DEF R
  <2> QED
    BY <2>1, WFMin
<1>2. \A m \in S : ~(m < n)
  BY <1>1 DEF OpToRel
<1> QED
  BY <1>2

\* What a line adds to the sum.
Amount(lines, n) == IF n \in DOMAIN lines THEN lines[n].amount ELSE 0
Sums(g, lines, n) == g = [i \in 0 .. n |-> IF i = 0 THEN 0 ELSE g[i - 1] + Amount(lines, i)]

LEMMA SumsExist == ASSUME NEW lines, NEW n \in Nat PROVE \E g : Sums(g, lines, n)
<1> DEFINE S == {m \in Nat : ~ \E g : Sums(g, lines, m)}
<1> SUFFICES ASSUME S # {} PROVE FALSE
  OBVIOUS
<1>1. PICK m \in S : \A k \in S : m <= k
  BY LeastNumber
<1>2. m # 0
  <2> SUFFICES \E g : Sums(g, lines, 0)
    BY <1>1
  <2> DEFINE g == [i \in 0 .. 0 |-> 0]
  <2>1. g = [i \in 0 .. 0 |-> IF i = 0 THEN 0 ELSE g[i - 1] + Amount(lines, i)]
    OBVIOUS
  <2> QED
    BY <2>1 DEF Sums
<1>3. m - 1 \in Nat /\ m - 1 \notin S /\ m \in Nat
  BY <1>1, <1>2
<1>4. PICK g : Sums(g, lines, m - 1)
  BY <1>3
<1> DEFINE h == [i \in 0 .. m |-> IF i = m THEN g[m - 1] + Amount(lines, m) ELSE g[i]]
<1>5. h = [i \in 0 .. m |-> IF i = 0 THEN 0 ELSE h[i - 1] + Amount(lines, i)]
  <2>1. \A i \in 0 .. m - 1 : g[i] = IF i = 0 THEN 0 ELSE g[i - 1] + Amount(lines, i)
    BY <1>4 DEF Sums
  <2> SUFFICES ASSUME NEW i \in 0 .. m
               PROVE  h[i] = IF i = 0 THEN 0 ELSE h[i - 1] + Amount(lines, i)
    OBVIOUS
  <2>2. CASE i = m
    BY <2>2, <1>2, <1>3
  <2>3. CASE i # m
    <3>1. i \in 0 .. m - 1 /\ (i # 0 => i - 1 \in 0 .. m /\ i - 1 # m)
      BY <2>3, <1>3
    <3> QED
      BY <3>1, <2>1, <2>3
  <2> QED
    BY <2>2, <2>3
<1> QED
  BY <1>1, <1>5 DEF Sums

LEMMA SumsAgree ==
  ASSUME NEW lines, NEW n \in Nat, NEW m \in Nat, n <= m, NEW g, NEW h,
         Sums(g, lines, n), Sums(h, lines, m), NEW i \in 0 .. n
  PROVE  g[i] = h[i]
<1> DEFINE S == {k \in 0 .. n : g[k] # h[k]}
<1> SUFFICES ASSUME S # {} PROVE FALSE
  OBVIOUS
<1>1. PICK k \in S : \A j \in S : k <= j
  <2>1. S \in SUBSET Nat
    OBVIOUS
  <2> HIDE DEF S
  <2> QED
    BY <2>1, LeastNumber
<1>2. /\ \A j \in 0 .. n : g[j] = IF j = 0 THEN 0 ELSE g[j - 1] + Amount(lines, j)
      /\ \A j \in 0 .. m : h[j] = IF j = 0 THEN 0 ELSE h[j - 1] + Amount(lines, j)
  BY DEF Sums
<1>3. k \in 0 .. n /\ k \in 0 .. m /\ k \in Nat
  BY <1>1
<1>4. k # 0
  BY <1>1, <1>2, <1>3
<1>5. k - 1 \in 0 .. n /\ k - 1 \notin S
  BY <1>1, <1>3, <1>4
<1>6. g[k - 1] = h[k - 1]
  BY <1>5
<1> QED
  BY <1>1, <1>2, <1>3, <1>4, <1>6

\* The sum of the lines is computed position by position.
LEMMA TotalStep ==
  ASSUME NEW lines
  PROVE  /\ Importing!Total(lines)[0] = 0
         /\ \A n \in Nat : n # 0 =>
               Importing!Total(lines)[n] = Importing!Total(lines)[n - 1] + Amount(lines, n)
<1> DEFINE G(n) == CHOOSE g : Sums(g, lines, n)
           F == [n \in Nat |-> G(n)[n]]
<1>1. \A n \in Nat : Sums(G(n), lines, n)
  BY SumsExist
<1>2. \A n \in Nat : G(n)[n] = IF n = 0 THEN 0 ELSE G(n)[n - 1] + Amount(lines, n)
  <2> SUFFICES ASSUME NEW n \in Nat
               PROVE  G(n)[n] = IF n = 0 THEN 0 ELSE G(n)[n - 1] + Amount(lines, n)
    OBVIOUS
  <2>1. Sums(G(n), lines, n)
    BY <1>1
  <2> HIDE DEF G
  <2> QED
    BY <2>1 DEF Sums
<1>3. \A n \in Nat : n # 0 => G(n)[n - 1] = G(n - 1)[n - 1]
  <2> SUFFICES ASSUME NEW n \in Nat, n # 0 PROVE G(n)[n - 1] = G(n - 1)[n - 1]
    OBVIOUS
  <2>1. n - 1 \in Nat /\ n - 1 <= n /\ n - 1 \in 0 .. n - 1
    OBVIOUS
  <2>2. Sums(G(n), lines, n) /\ Sums(G(n - 1), lines, n - 1)
    BY <2>1, <1>1
  <2> HIDE DEF G
  <2> QED
    BY <2>1, <2>2, SumsAgree
<1>4. F = [n \in Nat |-> IF n = 0 THEN 0 ELSE F[n - 1] + Amount(lines, n)]
  <2>1. \A n \in Nat : n # 0 => n - 1 \in Nat
    OBVIOUS
  <2>2. \A n \in Nat : G(n)[n] = IF n = 0 THEN 0 ELSE G(n - 1)[n - 1] + Amount(lines, n)
    BY <1>2, <1>3
  <2> HIDE DEF G
  <2>3. \A n \in Nat : F[n] = G(n)[n]
    OBVIOUS
  <2>4. \A n \in Nat : F[n] = IF n = 0 THEN 0 ELSE F[n - 1] + Amount(lines, n)
    BY <2>1, <2>2, <2>3
  <2> QED
    BY <2>4
<1>5. \E f : f = [n \in Nat |-> IF n = 0 THEN 0 ELSE f[n - 1] + Amount(lines, n)]
  BY <1>4
<1>6. Importing!Total(lines) = CHOOSE f :
        f = [n \in Nat |-> IF n = 0 THEN 0 ELSE f[n - 1] + Amount(lines, n)]
  BY DEF Importing!Total, Amount
<1>7. Importing!Total(lines)
        = [n \in Nat |-> IF n = 0 THEN 0 ELSE Importing!Total(lines)[n - 1] + Amount(lines, n)]
  BY <1>5, <1>6
<1> QED
  BY <1>7

Amounts(lines) == \A j \in DOMAIN lines : lines[j].amount \in Int

LEMMA TotalTyped ==
  ASSUME NEW lines, Amounts(lines), NEW n \in Nat
  PROVE  Importing!Total(lines)[n] \in Int
<1> DEFINE S == {k \in Nat : Importing!Total(lines)[k] \notin Int}
<1> SUFFICES ASSUME S # {} PROVE FALSE
  OBVIOUS
<1>1. PICK k \in S : \A j \in S : k <= j
  BY LeastNumber
<1>2. k # 0
  BY <1>1, TotalStep
<1>3. k - 1 \in Nat /\ k - 1 \notin S
  BY <1>1, <1>2
<1>4. Amount(lines, k) \in Int
  BY DEF Amounts, Amount
<1> QED
  BY <1>1, <1>2, <1>3, <1>4, TotalStep

\* No line adds to the sum after the last one.
LEMMA TotalBeyond ==
  ASSUME NEW lines, Amounts(lines), NEW m \in Nat, \A j \in DOMAIN lines : j \in Nat /\ j <= m,
         NEW n \in Nat, m <= n
  PROVE  Importing!Total(lines)[n] = Importing!Total(lines)[m]
<1> DEFINE S == {k \in Nat : m <= k /\ Importing!Total(lines)[k] # Importing!Total(lines)[m]}
<1> SUFFICES ASSUME S # {} PROVE FALSE
  OBVIOUS
<1>1. PICK k \in S : \A j \in S : k <= j
  <2>1. S \in SUBSET Nat
    OBVIOUS
  <2> HIDE DEF S
  <2> QED
    BY <2>1, LeastNumber
<1>2. k \in Nat /\ m <= k /\ k # m /\ Importing!Total(lines)[k] # Importing!Total(lines)[m]
  BY <1>1
<1>3. k - 1 \in Nat /\ m <= k - 1 /\ k - 1 \notin S
  BY <1>1, <1>2
<1>4. Importing!Total(lines)[k - 1] = Importing!Total(lines)[m]
  BY <1>3
<1>5. Amount(lines, k) = 0
  <2>1. k \notin DOMAIN lines
    BY <1>2
  <2> QED
    BY <2>1 DEF Amount
<1>6. Importing!Total(lines)[k] = Importing!Total(lines)[k - 1] + Amount(lines, k)
  BY <1>2, TotalStep
<1>7. Importing!Total(lines)[m] \in Int
  BY TotalTyped
<1> QED
  BY <1>2, <1>4, <1>5, <1>6, <1>7

LEMMA LastOne ==
  ASSUME NEW n \in Nat, NEW D \in SUBSET (1 .. n)
  PROVE  /\ Importing!Max({0} \cup D) \in Nat /\ Importing!Max({0} \cup D) <= n
         /\ \A j \in D : j <= Importing!Max({0} \cup D)
<1> DEFINE E == {0} \cup D
           S == {k \in Nat : \A j \in E : j <= k}
<1>1. n \in S /\ S \in SUBSET Nat
  OBVIOUS
<1>2. PICK k \in S : \A j \in S : k <= j
  <2> HIDE DEF S
  <2> QED
    BY <1>1, LeastNumber
<1>3. k \in Nat /\ \A j \in E : j <= k
  BY <1>2
<1>4. k \in E
  <2> SUFFICES ASSUME k \notin E PROVE FALSE
    OBVIOUS
  <2>1. k # 0
    OBVIOUS
  <2>2. k - 1 \in Nat
    BY <2>1, <1>3
  <2>3. \A j \in E : j \in Nat /\ j <= k /\ j # k
    BY <1>3
  <2>4. \A j \in E : j <= k - 1
    BY <2>3, <1>3
  <2>5. k - 1 \in S
    BY <2>2, <2>4
  <2> HIDE DEF S
  <2> QED
    BY <1>2, <1>3, <2>5
<1>5. \E j \in E : \A l \in E : j >= l
  BY <1>3, <1>4
<1>6. Importing!Max(E) \in E /\ \A l \in E : Importing!Max(E) >= l
  BY <1>5 DEF Importing!Max
<1>7. \A j \in E : j \in Nat /\ j <= n
  OBVIOUS
<1> QED
  BY <1>6, <1>7

LEMMA SumIs ==
  ASSUME NEW lines, Amounts(lines), NEW n \in Nat, DOMAIN lines \subseteq 1 .. n
  PROVE  Importing!Sum(lines) = Importing!Total(lines)[n] /\ Importing!Sum(lines) \in Int
<1> DEFINE m == Importing!Max({0} \cup DOMAIN lines)
<1>1. m \in Nat /\ m <= n /\ \A j \in DOMAIN lines : j <= m
  BY LastOne
<1>2. \A j \in DOMAIN lines : j \in Nat
  OBVIOUS
<1>3. Importing!Sum(lines) = Importing!Total(lines)[m]
  BY DEF Importing!Sum
<1> HIDE DEF m
<1> QED
  BY <1>1, <1>2, <1>3, TotalBeyond, TotalTyped

\* The lines that are kept and those that are left out make the sum of all.
LEMMA SumSplits ==
  ASSUME NEW lines, Amounts(lines), NEW n \in Nat, DOMAIN lines = 1 .. n,
         NEW D \in SUBSET (1 .. n)
  PROVE  /\ Importing!Sum(Importing!Restrict(lines, D)) \in Int
         /\ Importing!Sum(Importing!Restrict(lines, (1 .. n) \ D)) \in Int
         /\ Importing!Sum(Importing!Restrict(lines, D)) + Importing!Sum(Importing!Restrict(lines, (1 .. n) \ D)) = Importing!Sum(lines)
<1> DEFINE a == Importing!Restrict(lines, D)
           b == Importing!Restrict(lines, (1 .. n) \ D)
<1>1. /\ DOMAIN a = D /\ DOMAIN b = (1 .. n) \ D
      /\ \A j \in D : a[j] = lines[j]
      /\ \A j \in (1 .. n) \ D : b[j] = lines[j]
  BY DEF Importing!Restrict
<1> HIDE DEF a, b
<1>2. Amounts(a) /\ Amounts(b)
  BY <1>1 DEF Amounts
<1>3. /\ Importing!Sum(a) = Importing!Total(a)[n] /\ Importing!Sum(a) \in Int
      /\ Importing!Sum(b) = Importing!Total(b)[n] /\ Importing!Sum(b) \in Int
      /\ Importing!Sum(lines) = Importing!Total(lines)[n]
  <2>1. DOMAIN a \subseteq 1 .. n /\ DOMAIN b \subseteq 1 .. n /\ DOMAIN lines \subseteq 1 .. n
    BY <1>1
  <2> QED
    BY <2>1, <1>2, SumIs
<1>4. Importing!Total(a)[n] + Importing!Total(b)[n] = Importing!Total(lines)[n]
  <2> DEFINE S == {k \in Nat :
                    Importing!Total(a)[k] + Importing!Total(b)[k] # Importing!Total(lines)[k]}
  <2> SUFFICES ASSUME S # {} PROVE FALSE
    OBVIOUS
  <2>1. PICK k \in S : \A j \in S : k <= j
    BY LeastNumber
  <2>2. k # 0
    BY <2>1, TotalStep
  <2>3. k - 1 \in Nat /\ k - 1 \notin S /\ k \in Nat
    BY <2>1, <2>2
  <2>4. Amount(a, k) + Amount(b, k) = Amount(lines, k)
    <3>1. \A j \in 1 .. n : lines[j].amount \in Int
      BY DEF Amounts
    <3> QED
      BY <1>1, <3>1 DEF Amount
  <2>5. /\ Importing!Total(a)[k - 1] \in Int /\ Importing!Total(b)[k - 1] \in Int
        /\ Importing!Total(lines)[k - 1] \in Int
        /\ Amount(a, k) \in Int /\ Amount(b, k) \in Int /\ Amount(lines, k) \in Int
    <3>1. Amount(a, k) \in Int /\ Amount(b, k) \in Int /\ Amount(lines, k) \in Int
      BY <1>2 DEF Amount, Amounts
    <3> QED
      BY <3>1, <1>2, <2>3, TotalTyped
  <2>6. /\ Importing!Total(a)[k] = Importing!Total(a)[k - 1] + Amount(a, k)
        /\ Importing!Total(b)[k] = Importing!Total(b)[k - 1] + Amount(b, k)
        /\ Importing!Total(lines)[k] = Importing!Total(lines)[k - 1] + Amount(lines, k)
    BY <2>2, <2>3, TotalStep
  <2>7. Importing!Total(a)[k - 1] + Importing!Total(b)[k - 1] = Importing!Total(lines)[k - 1]
    BY <2>3
  <2>8. Importing!Total(a)[k] + Importing!Total(b)[k] # Importing!Total(lines)[k]
    BY <2>1
  <2> HIDE DEF S
  <2> QED
    BY <2>4, <2>5, <2>6, <2>7, <2>8
<1> QED
  BY <1>3, <1>4 DEF a, b

\* Only the amounts count.
LEMMA SumSame ==
  ASSUME NEW lines, Amounts(lines), NEW n \in Nat, DOMAIN lines = 1 .. n,
         NEW more, DOMAIN more = 1 .. n, \A j \in 1 .. n : more[j].amount = lines[j].amount
  PROVE  Importing!Sum(more) = Importing!Sum(lines)
<1>1. Amounts(more)
  BY DEF Amounts
<1>2. /\ Importing!Sum(more) = Importing!Total(more)[n]
      /\ Importing!Sum(lines) = Importing!Total(lines)[n]
  BY <1>1, SumIs
<1>3. Importing!Total(more)[n] = Importing!Total(lines)[n]
  <2> DEFINE S == {k \in Nat : Importing!Total(more)[k] # Importing!Total(lines)[k]}
  <2> SUFFICES ASSUME S # {} PROVE FALSE
    OBVIOUS
  <2>1. PICK k \in S : \A j \in S : k <= j
    BY LeastNumber
  <2>2. k # 0
    BY <2>1, TotalStep
  <2>3. k - 1 \in Nat /\ k - 1 \notin S /\ k \in Nat
    BY <2>1, <2>2
  <2>4. Amount(more, k) = Amount(lines, k)
    BY DEF Amount
  <2> QED
    BY <2>1, <2>2, <2>3, <2>4, TotalStep
<1> QED
  BY <1>2, <1>3
-----------------------------------------------------------------------------
\* What a statement that is stored is like.
Stored(st) ==
    /\ Importing!Statement(st)
    /\ st.balance_start # None =>
         st.balance_start + Importing!Sum(st.line_ids) = st.balance_end_real
StoredOnes(s) == Importing!IsSequence(s) /\ \A st \in Importing!Range(s) : Stored(st)

LEMMA Concat ==
  ASSUME NEW a, NEW b, Importing!IsSequence(a), Importing!IsSequence(b)
  PROVE  /\ Importing!IsSequence(a \o b)
         /\ Importing!Range(a \o b) = Importing!Range(a) \cup Importing!Range(b)
<1> DEFINE R == Importing!Range(a) \cup Importing!Range(b)
<1>1. a \in Seq(R) /\ b \in Seq(R)
  BY DEF Importing!IsSequence
<1>2. /\ a \o b \in Seq(R) /\ Len(a \o b) = Len(a) + Len(b) /\ Len(a) \in Nat /\ Len(b) \in Nat
      /\ \A i \in 1 .. Len(a) + Len(b) : (a \o b)[i] = IF i <= Len(a) THEN a[i] ELSE b[i - Len(a)]
      /\ DOMAIN a = 1 .. Len(a) /\ DOMAIN b = 1 .. Len(b)
  BY <1>1, ConcatProperties, LenProperties
<1>3. DOMAIN (a \o b) = 1 .. Len(a) + Len(b)
  BY <1>2, LenProperties
<1> DEFINE c == a \o b
<1> HIDE DEF c
<1>4. Importing!Range(c) \subseteq R
  <2> HIDE DEF R
  <2> QED
    BY <1>2, LenProperties DEF Importing!Range, c
<1>5. \A x \in Importing!Range(a) : x \in Importing!Range(c)
  <2> SUFFICES ASSUME NEW i \in DOMAIN a PROVE a[i] \in Importing!Range(c)
    BY DEF Importing!Range
  <2>1. i \in DOMAIN c /\ c[i] = a[i]
    BY <1>2, <1>3 DEF c
  <2> QED
    BY <2>1 DEF Importing!Range
<1>6. \A x \in Importing!Range(b) : x \in Importing!Range(c)
  <2> SUFFICES ASSUME NEW i \in DOMAIN b PROVE b[i] \in Importing!Range(c)
    BY DEF Importing!Range
  <2>1. Len(a) + i \in DOMAIN c /\ ~(Len(a) + i <= Len(a)) /\ (Len(a) + i) - Len(a) = i
    BY <1>2, <1>3 DEF c
  <2>2. c[Len(a) + i] = b[i]
    BY <2>1, <1>2, <1>3 DEF c
  <2> QED
    BY <2>1, <2>2 DEF Importing!Range
<1>7. Importing!Range(c) = R
  BY <1>4, <1>5, <1>6
<1> QED
  BY <1>2, <1>7 DEF c, Importing!IsSequence

LEMMA KeysConcat ==
  ASSUME NEW a, NEW b, Importing!IsSequence(a), Importing!IsSequence(b)
  PROVE  Importing!Keys(a \o b) = Importing!Keys(a) \cup Importing!Keys(b)
<1> DEFINE ids(st) == {st.line_ids[j].unique_import_id : j \in DOMAIN st.line_ids}
<1>1. \A s : Importing!Keys(s) = (UNION {ids(st) : st \in Importing!Range(s)}) \ {None}
  BY DEF Importing!Keys, Importing!Range
<1>2. Importing!Range(a \o b) = Importing!Range(a) \cup Importing!Range(b)
  BY Concat
<1> HIDE DEF ids
<1> QED
  BY <1>1, <1>2

LEMMA StoredConcat ==
  ASSUME NEW a, NEW b, StoredOnes(a), StoredOnes(b)
  PROVE  StoredOnes(a \o b)
BY Concat DEF StoredOnes

LEMMA NoneStored == StoredOnes(<<>>) /\ Importing!Keys(<<>>) = {} /\ Importing!IsSequence(<<>>)
BY DEF StoredOnes, Importing!IsSequence, Importing!Range, Importing!Keys

LEMMA OneStored ==
  ASSUME NEW st
  PROVE  /\ Importing!IsSequence(<<st>>) /\ Importing!Range(<<st>>) = {st}
         /\ Stored(st) => StoredOnes(<<st>>)
         /\ Importing!Keys(<<st>>)
              = {st.line_ids[j].unique_import_id : j \in DOMAIN st.line_ids} \ {None}
<1>1. <<st>> \in Seq({st}) /\ DOMAIN <<st>> = {1} /\ <<st>>[1] = st
  OBVIOUS
<1>2. Importing!Range(<<st>>) = {st}
  BY <1>1 DEF Importing!Range
<1>3. Importing!Keys(<<st>>) = {st.line_ids[j].unique_import_id : j \in DOMAIN st.line_ids} \ {None}
  <2> DEFINE one == <<st>>
             ids(x) == {x.line_ids[j].unique_import_id : j \in DOMAIN x.line_ids}
  <2>1. Importing!Keys(one) = (UNION {ids(one[i]) : i \in DOMAIN one}) \ {None}
    BY DEF Importing!Keys
  <2>2. DOMAIN one = {1} /\ one[1] = st
    BY <1>1
  <2> HIDE DEF one, ids
  <2>3. Importing!Keys(one) = ids(st) \ {None}
    BY <2>1, <2>2
  <2> QED
    BY <2>3 DEF one, ids
<1> QED
  BY <1>1, <1>2, <1>3 DEF Importing!IsSequence, StoredOnes
-----------------------------------------------------------------------------
\* The completed values of a statement, before known lines are left out.
Ids(st) == {st.line_ids[j].unique_import_id : j \in DOMAIN st.line_ids}
Complete(st) ==
    /\ DOMAIN st = {"journal_id", "balance_start", "balance_end_real", "line_ids"}
    /\ st.journal_id \in Journal /\ st.balance_start \in Int \cup {None}
    /\ st.balance_end_real \in Int
    /\ \E n \in Nat : DOMAIN st.line_ids = 1 .. n
    /\ \A j \in DOMAIN st.line_ids : Importing!Line(st.line_ids[j])
    /\ st.balance_start # None =>
         st.balance_start + Importing!Sum(st.line_ids) = st.balance_end_real

LEMMA Completed ==
  ASSUME NEW st, Importing!Parsed(st), NEW journal \in Journal, NEW account, NEW c,
         c = [journal_id |-> journal, balance_start |-> st.balance_start,
              balance_end_real |-> st.balance_end_real,
              line_ids |-> [j \in DOMAIN st.transactions |->
                 [unique_import_id |-> Importing!unique_import_id(st.transactions[j], journal, account),
                  amount |-> st.transactions[j].amount]]]
  PROVE  /\ Complete(c)
         /\ Ids(c) = {Importing!unique_import_id(t, journal, account) :
                t \in Importing!Range(st.transactions)}
<1> DEFINE ts == st.transactions
           id(t) == Importing!unique_import_id(t, journal, account)
           ls == [j \in DOMAIN ts |-> [unique_import_id |-> id(ts[j]), amount |-> ts[j].amount]]
           n == Len(ts)
<1>1. /\ st.balance_start \in Int \cup {None} /\ st.balance_end_real \in Int
      /\ ts \in Seq(Importing!Range(ts)) /\ \A t \in Importing!Range(ts) : t.amount \in Int
      /\ st.balance_start # None => st.balance_start + Importing!Sum(ts) = st.balance_end_real
  BY DEF Importing!Parsed, Importing!IsSequence
<1>2. /\ DOMAIN c = {"journal_id", "balance_start", "balance_end_real", "line_ids"}
      /\ c.journal_id = journal /\ c.balance_start = st.balance_start
      /\ c.balance_end_real = st.balance_end_real /\ c.line_ids = ls
  <2>1. c = [journal_id |-> journal, balance_start |-> st.balance_start,
             balance_end_real |-> st.balance_end_real, line_ids |-> ls]
    OBVIOUS
  <2> HIDE DEF ls
  <2> QED
    BY <2>1
<1>3. n \in Nat /\ DOMAIN ts = 1 .. n
  BY <1>1, LenProperties
<1>4. Amounts(ts)
  BY <1>1 DEF Amounts, Importing!Range
<1>5. /\ DOMAIN ls = DOMAIN ts
      /\ \A j \in DOMAIN ts : /\ ls[j].unique_import_id = id(ts[j])
                              /\ ls[j].amount = ts[j].amount
                              /\ DOMAIN ls[j] = {"unique_import_id", "amount"}
  <2> HIDE DEF id, ts
  <2> QED
    OBVIOUS
<1> HIDE DEF ls, ts, id, n
<1>6. Importing!Sum(ls) = Importing!Sum(ts)
  BY <1>3, <1>4, <1>5, SumSame
<1>7. \A j \in DOMAIN ls : Importing!Line(ls[j])
  BY <1>4, <1>5 DEF Importing!Line, Amounts
<1>8. Complete(c)
  BY <1>1, <1>2, <1>3, <1>5, <1>6, <1>7 DEF Complete
<1>9. Ids(c) = {id(t) : t \in Importing!Range(ts)}
  <2>1. Ids(c) = {ls[j].unique_import_id : j \in DOMAIN ls}
    BY <1>2 DEF Ids
  <2>2. Ids(c) = {id(ts[j]) : j \in DOMAIN ts}
    BY <2>1, <1>5
  <2>3. Importing!Range(ts) = {ts[j] : j \in DOMAIN ts}
    BY DEF Importing!Range
  <2> QED
    BY <2>2, <2>3
<1> QED
  BY <1>8, <1>9 DEF ts, id

\* The statement that is created from such values: consistent, and with all the lines
\* that are not known.
LEMMA CreatedOne ==
  ASSUME NEW st, Complete(st), NEW present, None \notin Int
  PROVE  /\ StoredOnes(Importing!Created(st, present))
         /\ Ids(st) \ {None} \subseteq present \cup Importing!Keys(Importing!Created(st, present))
         /\ None \notin present /\ Importing!Created(st, present) = <<>> => None \notin Ids(st)
<1> DEFINE ls == st.line_ids
           new == Importing!Unknown(ls, present)
<1>1. PICK n \in Nat : DOMAIN ls = 1 .. n
  BY DEF Complete
<1>2. /\ new \in SUBSET (1 .. n)
      /\ \A j \in 1 .. n : j \in new <=> ls[j].unique_import_id \notin present
  BY <1>1 DEF Importing!Unknown
<1>3. CASE new = {}
  <2>1. Importing!Created(st, present) = <<>>
    BY <1>3 DEF Importing!Created, Importing!HasLines
  <2>2. \A x \in Ids(st) : x \in present
    BY <1>1, <1>2, <1>3 DEF Ids
  <2> QED
    BY <2>1, <2>2, NoneStored
<1>4. CASE new # {}
  <2> DEFINE kept == Importing!Restrict(ls, new)
             left == Importing!Restrict(ls, (1 .. n) \ new)
             s == [st EXCEPT !.line_ids = kept, !.balance_start = Importing!Opening(@, left)]
  <2>1. Importing!Created(st, present) = <<s>>
    BY <1>1, <1>4 DEF Importing!Created, Importing!HasLines
  <2>2. /\ DOMAIN s = {"journal_id", "balance_start", "balance_end_real", "line_ids"}
        /\ s.journal_id = st.journal_id /\ s.balance_end_real = st.balance_end_real
        /\ s.balance_start = Importing!Opening(st.balance_start, left) /\ s.line_ids = kept
    <3> HIDE DEF kept, left
    <3> QED
      BY DEF Complete
  <2>3. DOMAIN kept = new /\ \A j \in new : kept[j] = ls[j]
    BY DEF Importing!Restrict
  <2>4. Amounts(ls)
    BY DEF Complete, Importing!Line, Amounts
  <2>5. /\ Importing!Sum(kept) \in Int /\ Importing!Sum(left) \in Int
        /\ Importing!Sum(kept) + Importing!Sum(left) = Importing!Sum(ls)
    BY <1>1, <1>2, <2>4, SumSplits
  <2> HIDE DEF s, kept, left, new
  <2>6. /\ st.journal_id \in Journal /\ st.balance_start \in Int \cup {None}
        /\ st.balance_end_real \in Int /\ \A j \in DOMAIN ls : Importing!Line(ls[j])
        /\ st.balance_start # None => st.balance_start + Importing!Sum(ls) = st.balance_end_real
    BY DEF Complete
  <2>7. /\ st.balance_start = None => s.balance_start = None
        /\ st.balance_start # None =>
              s.balance_start = st.balance_start + Importing!Sum(left) /\ s.balance_start \in Int
    BY <2>2, <2>5, <2>6 DEF Importing!Opening
  <2>8. Importing!Statement(s)
    BY <1>1, <1>2, <1>4, <2>2, <2>3, <2>6, <2>7 DEF Importing!Statement
  <2>9. s.balance_start # None => s.balance_start + Importing!Sum(s.line_ids) = s.balance_end_real
    BY <2>2, <2>5, <2>6, <2>7
  <2>10. Importing!Keys(<<s>>) = {kept[j].unique_import_id : j \in new} \ {None}
    BY <2>2, <2>3, OneStored
  <2>11. \A x \in Ids(st) \ {None} : x \in present \cup Importing!Keys(<<s>>)
    <3> SUFFICES ASSUME NEW j \in 1 .. n, ls[j].unique_import_id # None
                 PROVE  ls[j].unique_import_id \in present \cup Importing!Keys(<<s>>)
      BY <1>1 DEF Ids
    <3> QED
      BY <1>2, <2>3, <2>10
  <2>12. <<s>> # <<>>
    OBVIOUS
  <2> QED
    BY <2>1, <2>8, <2>9, <2>11, <2>12, OneStored DEF Stored
<1> QED
  BY <1>3, <1>4
-----------------------------------------------------------------------------
\* The statements created from the first n completed values, each after the ones before.
Creation(g, stmts, before, n) ==
    g = [i \in 0 .. n |-> IF i = 0 THEN <<>>
                          ELSE g[i - 1] \o Importing!Created(stmts[i], Importing!Keys(before) \cup Importing!Keys(g[i - 1]))]

LEMMA CreationExists ==
  ASSUME NEW stmts, NEW before, NEW n \in Nat
  PROVE  \E g : Creation(g, stmts, before, n)
<1> DEFINE S == {m \in Nat : ~ \E g : Creation(g, stmts, before, m)}
           Next1(g, i) == g[i - 1] \o Importing!Created(stmts[i], Importing!Keys(before) \cup Importing!Keys(g[i - 1]))
<1> SUFFICES ASSUME S # {} PROVE FALSE
  OBVIOUS
<1>1. PICK m \in S : \A k \in S : m <= k
  BY LeastNumber
<1>2. m # 0
  <2> SUFFICES \E g : Creation(g, stmts, before, 0)
    BY <1>1
  <2> DEFINE g == [i \in 0 .. 0 |-> <<>>]
  <2>1. g = [i \in 0 .. 0 |-> IF i = 0 THEN <<>> ELSE Next1(g, i)]
    OBVIOUS
  <2> QED
    BY <2>1 DEF Creation
<1>3. m - 1 \in Nat /\ m - 1 \notin S /\ m \in Nat
  BY <1>1, <1>2
<1>4. PICK g : Creation(g, stmts, before, m - 1)
  BY <1>3
<1> DEFINE h == [i \in 0 .. m |-> IF i = m THEN Next1(g, m) ELSE g[i]]
<1>5. h = [i \in 0 .. m |-> IF i = 0 THEN <<>> ELSE Next1(h, i)]
  <2>1. \A i \in 0 .. m - 1 : g[i] = IF i = 0 THEN <<>> ELSE Next1(g, i)
    BY <1>4 DEF Creation
  <2> SUFFICES ASSUME NEW i \in 0 .. m
               PROVE  h[i] = IF i = 0 THEN <<>> ELSE Next1(h, i)
    OBVIOUS
  <2>2. CASE i = m
    <3>1. m - 1 \in 0 .. m /\ m - 1 # m /\ h[m - 1] = g[m - 1]
      BY <1>2, <1>3
    <3> QED
      BY <3>1, <2>2, <1>2, <1>3
  <2>3. CASE i # m
    <3>1. i \in 0 .. m - 1 /\ (i # 0 => i - 1 \in 0 .. m /\ i - 1 # m)
      BY <2>3, <1>3
    <3>2. h[i] = g[i] /\ (i # 0 => h[i - 1] = g[i - 1])
      BY <3>1, <2>3
    <3> QED
      BY <3>1, <3>2, <2>1
  <2> QED
    BY <2>2, <2>3
<1> QED
  BY <1>1, <1>5 DEF Creation

LEMMA EmptyConcat ==
  ASSUME NEW a, NEW b, Importing!IsSequence(a), Importing!IsSequence(b), a \o b = <<>>
  PROVE  a = <<>> /\ b = <<>>
<1>1. /\ a \in Seq(Importing!Range(a) \cup Importing!Range(b))
      /\ b \in Seq(Importing!Range(a) \cup Importing!Range(b))
  BY DEF Importing!IsSequence
<1>2. Len(a) + Len(b) = 0 /\ Len(a) \in Nat /\ Len(b) \in Nat
  BY <1>1, ConcatProperties, LenProperties, EmptySeq
<1>3. Len(a) = 0 /\ Len(b) = 0
  BY <1>2
<1> QED
  BY <1>1, <1>3, EmptySeq

\* Created statements are consistent, they and the database have all the identified
\* transactions, and there is one if a transaction is not identified.
LEMMA AllCreated ==
  ASSUME NEW stmts, NEW before, Importing!IsSequence(stmts),
         \A st \in Importing!Range(stmts) : Complete(st),
         None \notin Int, NEW new, new = Importing!_create_bank_statements(stmts, before)
  PROVE  /\ StoredOnes(new)
         /\ \A st \in Importing!Range(stmts) :
              Ids(st) \ {None} \subseteq Importing!Keys(before) \cup Importing!Keys(new)
         /\ new = <<>> => \A st \in Importing!Range(stmts) : None \notin Ids(st)
<1> DEFINE n == Len(stmts)
           g == CHOOSE g : Creation(g, stmts, before, n)
<1>1. n \in Nat /\ DOMAIN stmts = 1 .. n
  BY LenProperties DEF Importing!IsSequence
<1>2. Creation(g, stmts, before, n)
  <2> HIDE DEF n
  <2> QED
    BY <1>1, CreationExists
<1>3. new = g[n]
  BY DEF Importing!_create_bank_statements, Creation
<1> HIDE DEF g, n
<1>4. \A i \in 0 .. n :
         g[i] = IF i = 0 THEN <<>>
                ELSE g[i - 1] \o Importing!Created(stmts[i], Importing!Keys(before) \cup Importing!Keys(g[i - 1]))
  BY <1>2 DEF Creation
<1>5. \A i \in 1 .. n : Complete(stmts[i])
  BY <1>1 DEF Importing!Range
<1> DEFINE P(k) == /\ StoredOnes(g[k])
                   /\ \A i \in 1 .. k : /\ Ids(stmts[i]) \ {None} \subseteq Importing!Keys(before) \cup Importing!Keys(g[k])
                                        /\ g[k] = <<>> => None \notin Ids(stmts[i])
           S == {k \in 0 .. n : ~P(k)}
<1>6. S = {}
  <2> SUFFICES ASSUME S # {} PROVE FALSE
    OBVIOUS
  <2>1. PICK k \in S : \A j \in S : k <= j
    <3>1. S \in SUBSET Nat
      OBVIOUS
    <3> HIDE DEF S
    <3> QED
      BY <3>1, LeastNumber
  <2>2. k \in 0 .. n /\ ~P(k)
    BY <2>1
  <2>3. k # 0
    <3> SUFFICES P(0)
      BY <2>2
    <3>1. g[0] = <<>>
      <4>1. 0 \in 0 .. n
        BY <1>1
      <4> HIDE DEF S
      <4> QED
        BY <4>1, <1>4, Zenon
    <3>2. \A i \in 1 .. 0 : FALSE
      OBVIOUS
    <3> QED
      BY <3>1, <3>2, NoneStored
  <2>4. k - 1 \in 0 .. n /\ k - 1 \notin S /\ k \in 1 .. n
    BY <1>1, <2>1, <2>2, <2>3
  <2>5. P(k - 1)
    BY <2>4
  <2> DEFINE old == g[k - 1]
             present == Importing!Keys(before) \cup Importing!Keys(old)
             one == Importing!Created(stmts[k], present)
  <2>6. g[k] = old \o one
    BY <1>4, <2>2, <2>3
  <2>7. /\ StoredOnes(one) /\ Ids(stmts[k]) \ {None} \subseteq present \cup Importing!Keys(one)
        /\ one = <<>> => None \notin Ids(stmts[k])
    <3>1. None \notin present
      BY DEF Importing!Keys
    <3>2. Complete(stmts[k])
      BY <1>5, <2>4
    <3> HIDE DEF present
    <3> QED
      BY <3>1, <3>2, CreatedOne
  <2>8. StoredOnes(old)
    BY <2>5
  <2>9. \A i \in 1 .. k - 1 : /\ Ids(stmts[i]) \ {None} \subseteq Importing!Keys(before) \cup Importing!Keys(old)
                              /\ old = <<>> => None \notin Ids(stmts[i])
    BY <2>5
  <2> HIDE DEF old, one
  <2>10. StoredOnes(g[k]) /\ Importing!Keys(g[k]) = Importing!Keys(old) \cup Importing!Keys(one)
         /\ (g[k] = <<>> => old = <<>> /\ one = <<>>)
    BY <2>6, <2>7, <2>8, StoredConcat, KeysConcat, EmptyConcat DEF StoredOnes
  <2>11. \A i \in 1 .. k : i \in 1 .. k - 1 \/ i = k
    BY <2>4
  <2>12. \A i \in 1 .. k : /\ Ids(stmts[i]) \ {None} \subseteq Importing!Keys(before) \cup Importing!Keys(g[k])
                           /\ g[k] = <<>> => None \notin Ids(stmts[i])
    <3> SUFFICES ASSUME NEW i \in 1 .. k
                 PROVE  /\ Ids(stmts[i]) \ {None}
                             \subseteq Importing!Keys(before) \cup Importing!Keys(g[k])
                        /\ g[k] = <<>> => None \notin Ids(stmts[i])
      OBVIOUS
    <3>1. CASE i = k
      BY <3>1, <2>7, <2>10
    <3>2. CASE i \in 1 .. k - 1
      BY <3>2, <2>9, <2>10
    <3> QED
      BY <2>11, <3>1, <3>2
  <2> QED
    BY <2>2, <2>10, <2>12
<1>7. P(n)
  BY <1>1, <1>6
<1>8. \A st \in Importing!Range(stmts) : \E i \in 1 .. n : st = stmts[i]
  BY <1>1 DEF Importing!Range
<1> QED
  BY <1>3, <1>7, <1>8
-----------------------------------------------------------------------------
\* The ids that the transactions of a triplet have, as a journal imports it.
IdsOf(s, journal, account) ==
    {Importing!unique_import_id(t, journal, account) : t \in Importing!Range(s.transactions)}
TripletIds(x, from) ==
    UNION {IdsOf(s, Importing!_match_journal(x.currency, x.account, from), x.account) :
              s \in Importing!Range(x.statements)}

LEMMA AllCompleted ==
  ASSUME NEW stmts, Importing!IsSequence(stmts),
         \A st \in Importing!Range(stmts) : Importing!Parsed(st),
         NEW journal \in Journal, NEW account,
         NEW vals, vals = Importing!_complete_stmts_vals(stmts, journal, account)
  PROVE  /\ Importing!IsSequence(vals) /\ \A c \in Importing!Range(vals) : Complete(c)
         /\ \A st \in Importing!Range(stmts) : \E c \in Importing!Range(vals) :
              Ids(c) = IdsOf(st, journal, account)
<1> DEFINE n == Len(stmts)
           val(st) == [journal_id |-> journal, balance_start |-> st.balance_start,
                       balance_end_real |-> st.balance_end_real,
                       line_ids |-> [j \in DOMAIN st.transactions |->
              [unique_import_id |-> Importing!unique_import_id(st.transactions[j], journal, account),
               amount |-> st.transactions[j].amount]]]
<1>1. n \in Nat /\ DOMAIN stmts = 1 .. n
  BY LenProperties DEF Importing!IsSequence
<1>2. vals = [i \in DOMAIN stmts |-> val(stmts[i])]
  BY DEF Importing!_complete_stmts_vals
<1>3. \A st \in Importing!Range(stmts) :
         /\ Complete(val(st)) /\ Ids(val(st)) = IdsOf(st, journal, account)
  <2> SUFFICES ASSUME NEW st \in Importing!Range(stmts)
               PROVE  Complete(val(st)) /\ Ids(val(st)) = IdsOf(st, journal, account)
    OBVIOUS
  <2> QED
    BY Completed DEF IdsOf
<1> HIDE DEF val, n
<1>4. DOMAIN vals = 1 .. n /\ \A i \in 1 .. n :
        vals[i] = val(stmts[i]) /\ vals[i] \in Importing!Range(vals)
  BY <1>1, <1>2 DEF Importing!Range
<1>5. Importing!Range(vals) = {val(st) : st \in Importing!Range(stmts)}
  BY <1>1, <1>2 DEF Importing!Range
<1>6. vals \in Seq(Importing!Range(vals))
  BY <1>1, <1>2, <1>4, SeqDef
<1> QED
  BY <1>3, <1>5, <1>6 DEF Importing!IsSequence

\* What the import of a triplet creates, by what the transaction sees.
LEMMA TripletCreated ==
  ASSUME NEW x, Importing!IsSequence(x.statements),
         \A st \in Importing!Range(x.statements) : Importing!Parsed(st),
         None \notin Int, NEW from, Importing!_match_journal(x.currency, x.account, from) \in Journal,
         NEW before, NEW new,
         new = Importing!_create_bank_statements(
                  Importing!_complete_stmts_vals(x.statements, Importing!_match_journal(x.currency, x.account, from),
                                       x.account), before)
  PROVE  /\ StoredOnes(new)
         /\ TripletIds(x, from) \ {None} \subseteq Importing!Keys(before) \cup Importing!Keys(new)
         /\ new = <<>> => None \notin TripletIds(x, from)
<1> DEFINE j == Importing!_match_journal(x.currency, x.account, from)
           vals == Importing!_complete_stmts_vals(x.statements, j, x.account)
<1>1. /\ Importing!IsSequence(vals) /\ \A c \in Importing!Range(vals) : Complete(c)
      /\ \A st \in Importing!Range(x.statements) :
            \E c \in Importing!Range(vals) : Ids(c) = IdsOf(st, j, x.account)
  BY AllCompleted
<1>2. TripletIds(x, from) = UNION {IdsOf(s, j, x.account) : s \in Importing!Range(x.statements)}
  BY DEF TripletIds
<1>3. new = Importing!_create_bank_statements(vals, before)
  OBVIOUS
<1> HIDE DEF j, vals
<1>4. /\ StoredOnes(new)
      /\ \A c \in Importing!Range(vals) :
           Ids(c) \ {None} \subseteq Importing!Keys(before) \cup Importing!Keys(new)
      /\ new = <<>> => \A c \in Importing!Range(vals) : None \notin Ids(c)
  BY <1>1, <1>3, AllCreated
<1>5. \A id \in TripletIds(x, from) : \E c \in Importing!Range(vals) : id \in Ids(c)
  BY <1>1, <1>2
<1> QED
  BY <1>4, <1>5

\* A triplet without transactions has no ids.
LEMMA NothingParsed ==
  ASSUME NEW x, Importing!IsSequence(x.statements), ~Importing!_check_parsed_data(x.statements),
         NEW from
  PROVE  TripletIds(x, from) = {}
<1>1. \A st \in Importing!Range(x.statements) : st.transactions = <<>>
  BY DEF Importing!_check_parsed_data, Importing!Range
<1>2. Importing!Range(<<>>) = {}
  BY DEF Importing!Range
<1>3. \A st \in Importing!Range(x.statements) : \A journal : IdsOf(st, journal, x.account) = {}
  BY <1>1, <1>2 DEF IdsOf
<1> QED
  BY <1>3 DEF TripletIds

LEMMA MatchTyped ==
  ASSUME Importing!ImportConstants, NEW currency, NEW account \in DOMAIN search \cup {None},
         NEW journal \in Journal \cup {None}
  PROVE  Importing!_match_journal(currency, account, journal) \in Journal \cup {None}
<1> DEFINE found == IF account = None THEN <<journal>> ELSE search[account]
<1>1. found \in Seq(Journal \cup {None})
  <2>1. CASE account = None
    BY <2>1
  <2>2. CASE account # None
    <3>1. search[account] \in Seq(Journal)
      BY <2>2 DEF Importing!ImportConstants
    <3> QED
      BY <2>2, <3>1
  <2> QED
    BY <2>1, <2>2
<1>2. found # <<>> => Head(found) \in Journal \cup {None}
  <2> HIDE DEF found
  <2> QED
    BY <1>1
<1> QED
  BY <1>2 DEF Importing!_match_journal

LEMMA FileTriplet ==
  ASSUME Importing!ImportConstants, NEW f \in Importing!File, NEW k \in DOMAIN content[f], NEW x,
         x = content[f][k]
  PROVE  /\ x \in Importing!Range(content[f]) /\ Importing!IsSequence(x.statements)
         /\ \A st \in Importing!Range(x.statements) : Importing!Parsed(st)
         /\ x.account \in DOMAIN search \cup {None}
<1>1. x \in Importing!Range(content[f])
  BY DEF Importing!Range
<1>2. \A y \in Importing!Range(content[f]) : /\ y.account = None \/ y.account \in DOMAIN search
                                             /\ Importing!IsSequence(y.statements)
                                             /\ \A st \in Importing!Range(y.statements) :
                                                  Importing!Parsed(st)
  BY DEF Importing!ImportConstants
<1> QED
  BY <1>1, <1>2

LEMMA FileSize ==
  ASSUME Importing!ImportConstants, NEW f \in Importing!File
  PROVE  Len(content[f]) \in Nat /\ DOMAIN content[f] = 1 .. Len(content[f])
<1>1. content[f] \in Seq(Importing!Range(content[f]))
  BY DEF Importing!ImportConstants, Importing!IsSequence
<1> QED
  BY <1>1, LenProperties

LEMMA RemoveOne ==
  ASSUME NEW s, Importing!IsSequence(s), NEW i \in DOMAIN s, NEW r, r = Importing!RemoveAt(s, i)
  PROVE  /\ Importing!IsSequence(r) /\ Importing!Range(r) \subseteq Importing!Range(s)
         /\ Importing!Keys(s) \subseteq Importing!Keys(r) \cup Importing!Keys(<<s[i]>>)
<1> DEFINE a == SubSeq(s, 1, i - 1)
           b == SubSeq(s, i + 1, Len(s))
<1>1. s \in Seq(Importing!Range(s)) /\ Len(s) \in Nat /\ DOMAIN s = 1 .. Len(s) /\ i \in 1 .. Len(s)
  BY LenProperties DEF Importing!IsSequence
<1>2. /\ a \in Seq(Importing!Range(s)) /\ DOMAIN a = 1 .. i - 1 /\ \A j \in 1 .. i - 1 : a[j] = s[j]
      /\ b \in Seq(Importing!Range(s)) /\ DOMAIN b = 1 .. Len(s) - i
      /\ \A j \in 1 .. Len(s) - i : b[j] = s[i + j]
  <2>1. /\ a \in Seq(Importing!Range(s)) /\ Len(a) = i - 1 /\ \A j \in 1 .. i - 1 : a[j] = s[j]
    BY <1>1
  <2>2. /\ b \in Seq(Importing!Range(s)) /\ Len(b) = Len(s) - i
        /\ \A j \in 1 .. Len(s) - i : b[j] = s[i + j]
    BY <1>1
  <2> QED
    BY <2>1, <2>2, LenProperties
<1>3. r = a \o b
  BY DEF Importing!RemoveAt
<1> HIDE DEF a, b
<1>4. /\ Importing!Range(a) \subseteq Importing!Range(s)
      /\ Importing!Range(b) \subseteq Importing!Range(s)
      /\ Importing!IsSequence(a) /\ Importing!IsSequence(b)
  <2>1. /\ Importing!Range(a) = {a[j] : j \in 1 .. i - 1}
        /\ Importing!Range(b) = {b[j] : j \in 1 .. Len(s) - i}
    BY <1>2 DEF Importing!Range
  <2>2. a \in Seq(Importing!Range(a)) /\ b \in Seq(Importing!Range(b))
    <3>1. Len(a) \in Nat /\ DOMAIN a = 1 .. Len(a) /\ \A j \in 1 .. Len(a) :
            a[j] \in Importing!Range(a)
      BY <1>2, LenProperties DEF Importing!Range
    <3>2. Len(b) \in Nat /\ DOMAIN b = 1 .. Len(b) /\ \A j \in 1 .. Len(b) :
            b[j] \in Importing!Range(b)
      BY <1>2, LenProperties DEF Importing!Range
    <3>3. a = [j \in 1 .. Len(a) |-> a[j]] /\ b = [j \in 1 .. Len(b) |-> b[j]]
      BY <1>2, <3>1, <3>2
    <3> QED
      BY <3>1, <3>2, <3>3, SeqDef
  <2>3. \A j \in 1 .. Len(s) : s[j] \in Importing!Range(s)
    BY <1>1 DEF Importing!Range
  <2>4. /\ \A j \in 1 .. i - 1 : j \in 1 .. Len(s)
        /\ \A j \in 1 .. Len(s) - i : i + j \in 1 .. Len(s)
    BY <1>1
  <2>5. Importing!Range(a) \subseteq Importing!Range(s)
    BY <1>2, <2>1, <2>3, <2>4
  <2>6. Importing!Range(b) \subseteq Importing!Range(s)
    BY <1>2, <2>1, <2>3, <2>4
  <2> QED
    BY <2>2, <2>5, <2>6 DEF Importing!IsSequence
<1>5. Importing!IsSequence(r) /\ Importing!Range(r) = Importing!Range(a) \cup Importing!Range(b)
  BY <1>3, <1>4, Concat
<1>6. \A j \in DOMAIN s : s[j] \in Importing!Range(r) \cup {s[i]}
  <2> SUFFICES ASSUME NEW j \in DOMAIN s, j # i
               PROVE  s[j] \in Importing!Range(a) \cup Importing!Range(b)
    BY <1>5
  <2>1. CASE j < i
    <3>1. j \in 1 .. i - 1
      BY <1>1, <2>1
    <3> QED
      BY <3>1, <1>2 DEF Importing!Range
  <2>2. CASE j > i
    <3>1. j - i \in 1 .. Len(s) - i /\ i + (j - i) = j
      BY <1>1, <2>2
    <3> QED
      BY <3>1, <1>2 DEF Importing!Range
  <2> QED
    BY <2>1, <2>2, <1>1
<1>7. Importing!Keys(s) \subseteq Importing!Keys(r) \cup Importing!Keys(<<s[i]>>)
  <2>1. \A t : Importing!Keys(t) = (UNION {Ids(st) : st \in Importing!Range(t)}) \ {None}
    BY DEF Importing!Keys, Importing!Range, Ids
  <2>2. \A st \in Importing!Range(s) : st \in Importing!Range(r) \cup Importing!Range(<<s[i]>>)
    BY <1>6, OneStored DEF Importing!Range
  <2> QED
    BY <2>1, <2>2
<1> QED
  BY <1>4, <1>5, <1>7
-----------------------------------------------------------------------------
\* What is known of the triplets that an import has gone through.
TripletDone(x, from, before, new) ==
    /\ Importing!_check_parsed_data(x.statements) =>
         Importing!_match_journal(x.currency, x.account, from) # None
    /\ TripletIds(x, from) \ {None} \subseteq Importing!Keys(before) \cup Importing!Keys(new)
    /\ new = <<>> => None \notin TripletIds(x, from)

UserOK(u) ==
    /\ step[u] \in 1 .. Len(content[file[u]]) + 1
    /\ StoredOnes(created[u]) /\ StoredOnes(snap[u])
    /\ importAt[u] = "open" =>
          /\ Importing!Keys(snap[u]) \ removed[u] \subseteq Importing!Keys(statements)
          /\ \A k \in 1 .. step[u] - 1 :
                TripletDone(content[file[u]][k], ctx[u], snap[u], created[u])

ImportTypes ==
    /\ source \subseteq Journal /\ seenSource \in [User -> SUBSET Journal]
    /\ file \in [User -> Importing!File] /\ ctx \in [User -> Journal \cup {None}]
    /\ importAt \in [User -> {"idle", "open", "known", "failed", "done"}]
    /\ DOMAIN step = User /\ DOMAIN created = User /\ DOMAIN snap = User /\ DOMAIN removed = User
    /\ imports \in 0 .. MaxImports

ImportInv == ImportTypes /\ StoredOnes(statements) /\ \A u \in User : UserOK(u)

LEMMA ImportingInvInit == ASSUME Importing!ImportConstants, Importing!Init PROVE ImportInv
<1>1. ImportTypes
  <2>1. (CHOOSE f \in Importing!File : TRUE) \in Importing!File
    BY DEF Importing!ImportConstants
  <2> QED
    BY <2>1 DEF Importing!Init, ImportTypes, Importing!ImportConstants
<1>2. StoredOnes(statements)
  BY NoneStored DEF Importing!Init
<1>3. ASSUME NEW u \in User PROVE UserOK(u)
  <2>1. /\ step[u] = 1 /\ created[u] = <<>> /\ snap[u] = <<>> /\ importAt[u] = "idle"
        /\ file[u] \in Importing!File
    BY <1>1 DEF Importing!Init, ImportTypes
  <2> QED
    BY <2>1, NoneStored, FileSize DEF UserOK
<1> QED
  BY <1>1, <1>2, <1>3 DEF ImportInv

\* A transaction that starts, or starts again.
LEMMA Restarted ==
  ASSUME Importing!ImportConstants, ImportInv, NEW u \in User, Importing!Restart(u),
         UNCHANGED <<statements, source>>, NEW f \in Importing!File, file' = [file EXCEPT ![u] = f],
         NEW from \in Journal \cup {None}, ctx' = [ctx EXCEPT ![u] = from],
         importAt' = [importAt EXCEPT ![u] = "open"], imports' \in 0 .. MaxImports
  PROVE  ImportInv'
<1>1. ImportTypes'
  BY DEF ImportInv, ImportTypes, Importing!Restart
<1>2. StoredOnes(statements)'
  BY DEF ImportInv
<1>3. ASSUME NEW v \in User PROVE UserOK(v)'
  <2>1. CASE v = u
    <3>1. /\ step'[u] = 1 /\ created'[u] = <<>> /\ snap'[u] = statements /\ file'[u] = f
          /\ removed'[u] = {} /\ statements' = statements
      BY DEF ImportInv, ImportTypes, Importing!Restart
    <3>2. StoredOnes(statements)
      BY DEF ImportInv
    <3>3. Importing!Keys(snap'[u]) \ removed'[u] \subseteq Importing!Keys(statements')
      BY <3>1
    <3>4. \A k \in 1 .. step'[u] - 1 : FALSE
      BY <3>1
    <3> QED
      BY <2>1, <3>1, <3>2, <3>3, <3>4, NoneStored, FileSize DEF UserOK
  <2>2. CASE v # u
    <3>1. /\ step'[v] = step[v] /\ created'[v] = created[v] /\ snap'[v] = snap[v]
          /\ file'[v] = file[v] /\ ctx'[v] = ctx[v] /\ importAt'[v] = importAt[v]
          /\ removed'[v] = removed[v] /\ statements' = statements
      BY <2>2 DEF ImportInv, ImportTypes, Importing!Restart
    <3>2. UserOK(v)
      BY DEF ImportInv
    <3> QED
      BY <3>1, <3>2 DEF UserOK
  <2> QED
    BY <2>1, <2>2
<1> QED
  BY <1>1, <1>2, <1>3 DEF ImportInv

LEMMA ImportingInvImportFileButton ==
  ASSUME Importing!ImportConstants, ImportInv, NEW u \in User, NEW f \in Importing!File,
         NEW journal \in Journal \cup {None}, Importing!import_file_button(u, f, journal)
  PROVE  ImportInv'
<1>1. imports' \in 0 .. MaxImports
  BY DEF Importing!import_file_button, ImportInv, ImportTypes, Importing!ImportConstants
<1> QED
  BY <1>1, Restarted DEF Importing!import_file_button

\* Nothing but the state of one user changes, and its file stays open.
LEMMA RestartedSame ==
  ASSUME Importing!ImportConstants, ImportInv, NEW u \in User, importAt[u] = "open",
         Importing!Restart(u),
         UNCHANGED <<statements, source, file, ctx, importAt, imports>>
  PROVE  ImportInv'
<1>1. /\ file' = [file EXCEPT ![u] = file[u]] /\ ctx' = [ctx EXCEPT ![u] = ctx[u]]
      /\ importAt' = [importAt EXCEPT ![u] = "open"] /\ imports' \in 0 .. MaxImports
      /\ file[u] \in Importing!File /\ ctx[u] \in Journal \cup {None}
  BY DEF ImportInv, ImportTypes
<1> QED
  BY <1>1, Restarted

LEMMA ImportingInvDeadlock ==
  ASSUME Importing!ImportConstants, ImportInv, NEW u \in User, Importing!deadlock_detected(u)
  PROVE  ImportInv'
BY RestartedSame DEF Importing!deadlock_detected, Importing!Blocked

LEMMA ImportingInvUnlink ==
  ASSUME Importing!ImportConstants, ImportInv, NEW i \in DOMAIN statements, Importing!unlink(i)
  PROVE  ImportInv'
<1>1. ImportTypes'
  BY DEF ImportInv, ImportTypes, Importing!unlink
<1>2. /\ StoredOnes(statements')
      /\ Importing!Keys(statements)
           \subseteq Importing!Keys(statements') \cup Importing!Keys(<<statements[i]>>)
  BY RemoveOne DEF ImportInv, StoredOnes, Importing!unlink
<1>3. ASSUME NEW v \in User PROVE UserOK(v)'
  <2>1. /\ step'[v] = step[v] /\ created'[v] = created[v] /\ snap'[v] = snap[v]
        /\ file'[v] = file[v] /\ ctx'[v] = ctx[v] /\ importAt'[v] = importAt[v]
        /\ importAt[v] = "open" => removed'[v] = removed[v] \cup Importing!Keys(<<statements[i]>>)
    BY DEF Importing!unlink
  <2>2. UserOK(v)
    BY DEF ImportInv
  <2> QED
    BY <1>2, <2>1, <2>2 DEF UserOK
<1> QED
  BY <1>1, <1>2, <1>3 DEF ImportInv

\* A triplet that is passed: the import goes on with what it has created.
LEMMA Advanced ==
  ASSUME Importing!ImportConstants, ImportInv, NEW u \in User, importAt[u] = "open",
         step[u] <= Len(content[file[u]]),
         step' = [step EXCEPT ![u] = @ + 1],
         DOMAIN created' = User, \A v \in User : v # u => created'[v] = created[v],
         StoredOnes(created'[u]), Importing!Keys(created[u]) \subseteq Importing!Keys(created'[u]),
         created'[u] = <<>> => created[u] = <<>>,
         TripletDone(Importing!Triplet(u), ctx[u], snap[u], created'[u]),
         UNCHANGED <<statements, source, file, ctx, importAt, snap, seenSource, removed, imports>>
  PROVE  ImportInv'
<1>1. ImportTypes'
  BY DEF ImportInv, ImportTypes
<1>2. StoredOnes(statements')
  BY DEF ImportInv
<1>3. ASSUME NEW v \in User PROVE UserOK(v)'
  <2>1. UserOK(v) /\ v \in DOMAIN step /\ u \in DOMAIN step /\ file[v] \in Importing!File
    BY DEF ImportInv, ImportTypes
  <2>2. CASE v = u
    <3> DEFINE n == Len(content[file[u]])
    <3>1. n \in Nat /\ step[u] \in 1 .. n + 1 /\ step[u] <= n /\ step'[u] = step[u] + 1
      BY <2>1, <2>2, FileSize DEF UserOK
    <3>2. step'[u] \in 1 .. n + 1 /\ \A k \in 1 .. step'[u] - 1 :
            k \in 1 .. step[u] - 1 \/ k = step[u]
      <4> HIDE DEF n
      <4> QED
        BY <3>1
    <3>3. /\ StoredOnes(snap[u])
          /\ Importing!Keys(snap[u]) \ removed[u] \subseteq Importing!Keys(statements)
          /\ \A k \in 1 .. step[u] - 1 :
                TripletDone(content[file[u]][k], ctx[u], snap[u], created[u])
      BY <2>1, <2>2 DEF UserOK
    <3>4. \A x : TripletDone(x, ctx[u], snap[u], created[u]) =>
                    TripletDone(x, ctx[u], snap[u], created'[u])
      BY DEF TripletDone
    <3>5. \A k \in 1 .. step'[u] - 1 :
            TripletDone(content[file[u]][k], ctx[u], snap[u], created'[u])
      BY <3>2, <3>3, <3>4 DEF Importing!Triplet
    <3> QED
      BY <2>2, <3>2, <3>3, <3>5 DEF UserOK
  <2>3. CASE v # u
    <3>1. step'[v] = step[v] /\ created'[v] = created[v]
      BY <2>1, <2>3
    <3> QED
      BY <2>1, <3>1 DEF UserOK
  <2> QED
    BY <2>2, <2>3
<1> QED
  BY <1>1, <1>2, <1>3 DEF ImportInv

LEMMA ImportingInvImportSingleStatement ==
  ASSUME Importing!ImportConstants, ImportInv, NEW u \in User, Importing!import_single_statement(u)
  PROVE  ImportInv'
<1> DEFINE x == Importing!Triplet(u)
           wrong == \/ Importing!JournalOf(u) = None
                    \/ \E i \in DOMAIN x.statements :
                          \E t \in Importing!Range(x.statements[i].transactions) : ~t.payment_ref
                    \/ Importing!Clash(Importing!NewStatements(u))
           late == Importing!JournalOf(u) \in source \ seenSource[u]
<1>1. /\ importAt[u] = "open" /\ step[u] <= Len(content[file[u]])
      /\ UNCHANGED <<statements, source, file, ctx, imports>>
      /\ step[u] \in 1 .. Len(content[file[u]]) + 1
      /\ file[u] \in Importing!File /\ ctx[u] \in Journal \cup {None}
      /\ StoredOnes(created[u]) /\ StoredOnes(snap[u]) /\ DOMAIN created = User
      /\ u \in DOMAIN importAt
  BY DEF Importing!import_single_statement, ImportInv, ImportTypes, UserOK
<1>2. step[u] \in DOMAIN content[file[u]]
  BY <1>1, FileSize
<1>3. /\ Importing!IsSequence(x.statements) /\ \A st \in Importing!Range(x.statements) :
           Importing!Parsed(st)
      /\ x.account \in DOMAIN search \cup {None}
  BY <1>1, <1>2, FileTriplet DEF Importing!Triplet
<1>4. \/ /\ ~Importing!_check_parsed_data(x.statements) /\ step' = [step EXCEPT ![u] = @ + 1]
         /\ UNCHANGED <<importAt, created, snap, seenSource, removed>>
      \/ Importing!Fail(u)
      \/ Importing!Restart(u) /\ UNCHANGED importAt
      \/ /\ Importing!_check_parsed_data(x.statements) /\ Importing!JournalOf(u) # None
         /\ created' = [created EXCEPT ![u] = @ \o Importing!NewStatements(u)]
         /\ step' = [step EXCEPT ![u] = @ + 1]
         /\ UNCHANGED <<importAt, snap, seenSource, removed>>
  <2>1. IF ~Importing!_check_parsed_data(x.statements)
        THEN /\ step' = [step EXCEPT ![u] = @ + 1]
             /\ UNCHANGED <<importAt, created, snap, seenSource, removed>>
        ELSE IF wrong THEN Importing!Fail(u)
        ELSE IF late THEN Importing!Restart(u) /\ UNCHANGED importAt
        ELSE /\ created' = [created EXCEPT ![u] = @ \o Importing!NewStatements(u)]
             /\ step' = [step EXCEPT ![u] = @ + 1]
             /\ UNCHANGED <<importAt, snap, seenSource, removed>>
    BY DEF Importing!import_single_statement
  <2>2. Importing!JournalOf(u) = None => wrong
    OBVIOUS
  <2> HIDE DEF wrong, late, x
  <2> QED
    BY <2>1, <2>2
<1>5. CASE /\ ~Importing!_check_parsed_data(x.statements) /\ step' = [step EXCEPT ![u] = @ + 1]
           /\ UNCHANGED <<importAt, created, snap, seenSource, removed>>
  <2>1. TripletDone(x, ctx[u], snap[u], created[u])
    BY <1>3, <1>5, NothingParsed DEF TripletDone
  <2> QED
    BY <1>1, <1>5, <2>1, Advanced
<1>6. CASE Importing!Fail(u)
  <2>1. ImportTypes'
    BY <1>1, <1>6 DEF ImportInv, ImportTypes, Importing!Fail
  <2>2. StoredOnes(statements')
    BY <1>1 DEF ImportInv
  <2>3. ASSUME NEW v \in User PROVE UserOK(v)'
    <3>1. /\ UNCHANGED <<step, created, snap, removed, statements, file, ctx>>
          /\ importAt'[v] = "open" => importAt[v] = "open"
      BY <1>1, <1>6 DEF Importing!Fail, ImportInv, ImportTypes
    <3>2. UserOK(v)
      BY DEF ImportInv
    <3> QED
      BY <3>1, <3>2 DEF UserOK
  <2> QED
    BY <2>1, <2>2, <2>3 DEF ImportInv
<1>7. CASE Importing!Restart(u) /\ UNCHANGED importAt
  BY <1>1, <1>7, RestartedSame
<1>8. CASE /\ Importing!_check_parsed_data(x.statements) /\ Importing!JournalOf(u) # None
           /\ created' = [created EXCEPT ![u] = @ \o Importing!NewStatements(u)]
           /\ step' = [step EXCEPT ![u] = @ + 1]
           /\ UNCHANGED <<importAt, snap, seenSource, removed>>
  <2> DEFINE new == Importing!NewStatements(u)
  <2>1. Importing!JournalOf(u) = Importing!_match_journal(x.currency, x.account, ctx[u])
    BY DEF Importing!JournalOf
  <2>2. Importing!_match_journal(x.currency, x.account, ctx[u]) \in Journal
    BY <1>1, <1>3, <1>8, <2>1, MatchTyped
  <2>3. new = Importing!_create_bank_statements(
                 Importing!_complete_stmts_vals(x.statements, Importing!_match_journal(x.currency, x.account, ctx[u]),
                                      x.account), snap[u] \o created[u])
    BY <2>1 DEF Importing!NewStatements
  <2>4. None \notin Int
    BY DEF Importing!ImportConstants
  <2> HIDE DEF new, x
  <2>5. /\ StoredOnes(new)
        /\ TripletIds(x, ctx[u]) \ {None}
             \subseteq Importing!Keys(snap[u] \o created[u]) \cup Importing!Keys(new)
        /\ new = <<>> => None \notin TripletIds(x, ctx[u])
    BY <1>3, <2>2, <2>3, <2>4, TripletCreated
  <2>6. created'[u] = created[u] \o new /\ DOMAIN created' = User /\ \A v \in User : v # u =>
          created'[v] = created[v]
    BY <1>1, <1>8 DEF new
  <2>7. /\ StoredOnes(created'[u])
        /\ Importing!Keys(created'[u]) = Importing!Keys(created[u]) \cup Importing!Keys(new)
        /\ Importing!Keys(snap[u] \o created[u])
             = Importing!Keys(snap[u]) \cup Importing!Keys(created[u])
        /\ created'[u] = <<>> => created[u] = <<>> /\ new = <<>>
    BY <1>1, <2>5, <2>6, StoredConcat, KeysConcat, EmptyConcat DEF StoredOnes
  <2>8. TripletDone(x, ctx[u], snap[u], created'[u])
    BY <1>8, <2>1, <2>5, <2>7 DEF TripletDone
  <2> QED
    BY <1>1, <1>8, <2>6, <2>7, <2>8, Advanced DEF x
<1> HIDE DEF x
<1> QED
  BY <1>4, <1>5, <1>6, <1>7, <1>8

LEMMA SourcedTyped ==
  ASSUME Importing!ImportConstants, ImportInv, NEW u \in User, importAt[u] = "open",
         step[u] > Len(content[file[u]])
  PROVE  Importing!Sourced(u) \subseteq Journal
<1> DEFINE f == content[file[u]]
<1>1. file[u] \in Importing!File /\ ctx[u] \in Journal \cup {None} /\ UserOK(u)
  BY DEF ImportInv, ImportTypes
<1>2. /\ Len(f) \in Nat /\ DOMAIN f = 1 .. Len(f) /\ step[u] = Len(f) + 1
      /\ f \in Seq(Importing!Range(f))
  <2>1. Len(f) \in Nat /\ DOMAIN f = 1 .. Len(f)
    BY <1>1, FileSize
  <2>2. step[u] \in 1 .. Len(f) + 1
    BY <1>1 DEF UserOK
  <2>3. f \in Seq(Importing!Range(f))
    BY <1>1 DEF Importing!ImportConstants, Importing!IsSequence
  <2> HIDE DEF f
  <2> QED
    BY <2>1, <2>2, <2>3 DEF f
<1>3. \A k \in 1 .. Len(f) : TripletDone(f[k], ctx[u], snap[u], created[u])
  BY <1>1, <1>2 DEF UserOK
<1>4. \A k \in DOMAIN f : f[k].account \in DOMAIN search \cup {None}
  BY <1>1, FileTriplet
<1> HIDE DEF f
<1>5. Importing!Range(SubSeq(f, 1, step[u] - 1)) \subseteq Importing!Range(f)
  <2> DEFINE g == SubSeq(f, 1, step[u] - 1)
  <2>1. Len(g) = Len(f) /\ g \in Seq(Importing!Range(f))
    BY <1>2
  <2> HIDE DEF g
  <2>2. \A k \in DOMAIN g : g[k] \in Importing!Range(f)
    BY <2>1, LenProperties
  <2> QED
    BY <2>2 DEF Importing!Range, g
<1>6. ASSUME NEW x \in Importing!Range(SubSeq(f, 1, step[u] - 1)),
             Importing!_check_parsed_data(x.statements)
      PROVE  Importing!_match_journal(x.currency, x.account, ctx[u]) \in Journal
  <2>1. PICK k \in DOMAIN f : x = f[k]
    BY <1>5 DEF Importing!Range
  <2> QED
    BY <1>1, <1>2, <1>3, <1>4, <1>6, <2>1, MatchTyped DEF TripletDone
<1> QED
  BY <1>6 DEF Importing!Sourced, f

LEMMA ImportingInvImportFile ==
  ASSUME Importing!ImportConstants, ImportInv, NEW u \in User, Importing!_import_file(u)
  PROVE  ImportInv'
<1>1. /\ importAt[u] = "open" /\ step[u] > Len(content[file[u]])
      /\ UNCHANGED <<file, ctx, step, snap, seenSource, created, removed, imports>>
      /\ \/ importAt' = [importAt EXCEPT ![u] = "known"] /\ UNCHANGED <<statements, source>>
         \/ /\ importAt' = [importAt EXCEPT ![u] = "done"]
            /\ statements' = statements \o created[u] /\ source' = source \cup Importing!Sourced(u)
  BY DEF Importing!_import_file
<1>2. Importing!Sourced(u) \subseteq Journal
  BY <1>1, SourcedTyped
<1>3. ImportTypes'
  BY <1>1, <1>2 DEF ImportInv, ImportTypes
<1>4. StoredOnes(statements') /\ Importing!Keys(statements) \subseteq Importing!Keys(statements')
  <2>1. StoredOnes(statements) /\ StoredOnes(created[u])
    BY DEF ImportInv, UserOK
  <2>2. /\ StoredOnes(statements \o created[u])
        /\ Importing!Keys(statements \o created[u])
             = Importing!Keys(statements) \cup Importing!Keys(created[u])
    BY <2>1, StoredConcat, KeysConcat DEF StoredOnes
  <2>3. statements' = statements \/ statements' = statements \o created[u]
    BY <1>1
  <2> QED
    BY <2>1, <2>2, <2>3
<1>5. ASSUME NEW v \in User PROVE UserOK(v)'
  <2>1. importAt'[v] = "open" => importAt[v] = "open"
    BY <1>1 DEF ImportInv, ImportTypes
  <2>2. UserOK(v)
    BY DEF ImportInv
  <2> QED
    BY <1>1, <1>4, <2>1, <2>2 DEF UserOK
<1> QED
  BY <1>3, <1>4, <1>5 DEF ImportInv

\* account_statement_import.py, import_single_statement and _create_bank_statements: every
\* statement that is stored, seen or created is consistent, and an import that is under way
\* has dealt with every transaction of the triplets that it has gone through.
THEOREM ImportInvariant == ASSUME Importing!ImportConstants PROVE Importing!Spec => []ImportInv
<1>1. Importing!Init => ImportInv
  BY ImportingInvInit
<1>2. ImportInv /\ [Importing!Next]_(Importing!importVars) => ImportInv'
  <2> SUFFICES ASSUME ImportInv, [Importing!Next]_(Importing!importVars) PROVE ImportInv'
    OBVIOUS
  <2>1. ASSUME NEW u \in User, NEW f \in Importing!File, NEW journal \in Journal \cup {None},
               Importing!import_file_button(u, f, journal)
        PROVE  ImportInv'
    BY <2>1, ImportingInvImportFileButton
  <2>2. ASSUME NEW u \in User, Importing!import_single_statement(u) PROVE ImportInv'
    BY <2>2, ImportingInvImportSingleStatement
  <2>3. ASSUME NEW u \in User, Importing!deadlock_detected(u) PROVE ImportInv'
    BY <2>3, ImportingInvDeadlock
  <2>4. ASSUME NEW u \in User, Importing!_import_file(u) PROVE ImportInv'
    BY <2>4, ImportingInvImportFile
  <2>5. ASSUME NEW i \in DOMAIN statements, Importing!unlink(i) PROVE ImportInv'
    BY <2>5, ImportingInvUnlink
  <2>6. CASE UNCHANGED Importing!importVars
    BY <2>6 DEF ImportInv, ImportTypes, UserOK, Importing!importVars
  <2> QED
    BY <2>1, <2>2, <2>3, <2>4, <2>5, <2>6 DEF Importing!Next
<1> QED
  BY <1>1, <1>2, PTL DEF Importing!Spec

LEMMA ImportingTypesFollow == ASSUME ImportInv PROVE Importing!TypeOK
<1>1. \A s : StoredOnes(s) => \A i \in DOMAIN s : Importing!Statement(s[i])
  BY DEF StoredOnes, Stored, Importing!Range
<1> QED
  BY <1>1 DEF ImportInv, ImportTypes, UserOK, Importing!TypeOK

LEMMA BalancesFollow == ASSUME ImportInv PROVE Importing!BalancesAddUp
<1>1. StoredOnes(statements)
  BY DEF ImportInv
<1>2. \A i \in DOMAIN statements : Stored(statements[i])
  BY <1>1 DEF StoredOnes, Importing!Range
<1> QED
  BY <1>2 DEF Importing!BalancesAddUp, Stored

LEMMA FileIds ==
  ASSUME Importing!ImportConstants, NEW u \in User, file[u] \in Importing!File
  PROVE  \A id \in Importing!FileKeys(u) :
            id # None /\ \E k \in DOMAIN content[file[u]] :
                            id \in TripletIds(content[file[u]][k], ctx[u])
<1>1. Importing!FileKeys(u)
        = (UNION {TripletIds(x, ctx[u]) : x \in Importing!Range(content[file[u]])}) \ {None}
  BY DEF Importing!FileKeys, TripletIds, IdsOf
<1> QED
  BY <1>1 DEF Importing!Range

\* Only the end of an import says that it is done or that nothing is new.
LEMMA ImportEnds ==
  ASSUME Importing!ImportConstants, ImportInv, [Importing!Next]_(Importing!importVars),
         NEW u \in User, importAt[u] = "open",
         importAt'[u] \in {"done", "known"}
  PROVE  Importing!_import_file(u)
<1>1. importAt \in [User -> {"idle", "open", "known", "failed", "done"}]
  BY DEF ImportInv, ImportTypes
<1>2. ASSUME NEW v \in User, NEW f \in Importing!File, NEW journal \in Journal \cup {None},
             Importing!import_file_button(v, f, journal)
      PROVE  FALSE
  BY <1>1, <1>2 DEF Importing!import_file_button
<1>3. ASSUME NEW v \in User, Importing!import_single_statement(v) PROVE FALSE
  <2>1. importAt' = importAt \/ importAt' = [importAt EXCEPT ![v] = "failed"]
    BY <1>3 DEF Importing!import_single_statement, Importing!Fail
  <2> QED
    BY <1>1, <2>1
<1>4. ASSUME NEW v \in User, Importing!deadlock_detected(v) PROVE FALSE
  BY <1>1, <1>4 DEF Importing!deadlock_detected
<1>5. ASSUME NEW v \in User, Importing!_import_file(v) PROVE v = u
  BY <1>1, <1>5 DEF Importing!_import_file
<1>6. ASSUME NEW i \in DOMAIN statements, Importing!unlink(i) PROVE FALSE
  BY <1>1, <1>6 DEF Importing!unlink
<1>7. CASE UNCHANGED Importing!importVars
  BY <1>7 DEF Importing!importVars
<1> QED
  BY <1>2, <1>3, <1>4, <1>5, <1>6, <1>7 DEF Importing!Next

LEMMA CompleteStep ==
  ASSUME Importing!ImportConstants, ImportInv, [Importing!Next]_(Importing!importVars),
         NEW u \in User, importAt[u] = "open"
  PROVE  /\ importAt'[u] = "done" =>
              Importing!FileKeys(u) \ removed[u] \subseteq Importing!Keys(statements')
         /\ importAt'[u] = "known" =>
               /\ Importing!FileKeys(u) \subseteq Importing!Keys(snap[u])
               /\ \A x \in Importing!Range(content[file[u]]) :
                    \A s \in Importing!Range(x.statements) :
                     \A t \in Importing!Range(s.transactions) : t.unique_import_id # None
<1> SUFFICES ASSUME importAt'[u] \in {"done", "known"}
             PROVE  /\ importAt'[u] = "done" =>
                         Importing!FileKeys(u) \ removed[u] \subseteq Importing!Keys(statements')
                    /\ importAt'[u] = "known" =>
                          /\ Importing!FileKeys(u) \subseteq Importing!Keys(snap[u])
                          /\ \A x \in Importing!Range(content[file[u]]) :
                               \A s \in Importing!Range(x.statements) :
                                \A t \in Importing!Range(s.transactions) : t.unique_import_id # None
  OBVIOUS
<1> DEFINE f == content[file[u]]
<1>1. /\ Importing!_import_file(u) /\ UserOK(u) /\ file[u] \in Importing!File
      /\ StoredOnes(statements)
      /\ u \in DOMAIN importAt
  BY ImportEnds DEF ImportInv, ImportTypes
<1>2. Len(f) \in Nat /\ DOMAIN f = 1 .. Len(f) /\ step[u] > Len(f)
  BY <1>1, FileSize DEF Importing!_import_file
<1>3. /\ step[u] \in 1 .. Len(f) + 1 /\ StoredOnes(created[u])
      /\ Importing!Keys(snap[u]) \ removed[u] \subseteq Importing!Keys(statements)
      /\ \A k \in 1 .. step[u] - 1 : TripletDone(f[k], ctx[u], snap[u], created[u])
  BY <1>1 DEF UserOK
<1>4. \A id \in Importing!FileKeys(u) : id # None /\ \E k \in DOMAIN f :
        id \in TripletIds(f[k], ctx[u])
  BY <1>1, FileIds
<1> HIDE DEF f
<1>5. \A k \in DOMAIN f : TripletDone(f[k], ctx[u], snap[u], created[u])
  BY <1>2, <1>3
<1>6. Importing!FileKeys(u) \subseteq Importing!Keys(snap[u]) \cup Importing!Keys(created[u])
  BY <1>4, <1>5 DEF TripletDone
<1>7. CASE created[u] = <<>>
  <2>1. importAt'[u] = "known"
    BY <1>1, <1>7 DEF Importing!_import_file, Importing!Result
  <2>2. Importing!FileKeys(u) \subseteq Importing!Keys(snap[u])
    BY <1>6, <1>7, NoneStored
  <2>3. \A x \in Importing!Range(f) : None \notin TripletIds(x, ctx[u])
    BY <1>5, <1>7 DEF TripletDone, Importing!Range
  <2>4. ASSUME NEW x \in Importing!Range(f), NEW s \in Importing!Range(x.statements),
               NEW t \in Importing!Range(s.transactions)
        PROVE  t.unique_import_id # None
    <3>1. \A journal :
            Importing!unique_import_id(t, journal, x.account) \in IdsOf(s, journal, x.account)
      BY DEF IdsOf
    <3>2. Importing!unique_import_id(t, Importing!_match_journal(x.currency, x.account, ctx[u]), x.account)
             \in TripletIds(x, ctx[u])
      BY <3>1 DEF TripletIds
    <3> QED
      BY <2>3, <3>2 DEF Importing!unique_import_id
  <2> QED
    BY <2>1, <2>2, <2>4 DEF f
<1>8. CASE created[u] # <<>>
  <2>1. importAt'[u] = "done" /\ statements' = statements \o created[u]
    BY <1>1, <1>8 DEF Importing!_import_file, Importing!Result
  <2>2. Importing!Keys(statements') = Importing!Keys(statements) \cup Importing!Keys(created[u])
    BY <1>1, <1>3, <2>1, KeysConcat DEF StoredOnes
  <2> QED
    BY <1>3, <1>6, <2>1, <2>2
<1> QED
  BY <1>7, <1>8

\* _import_file: the property of the end of an import, whatever the files are.
THEOREM ImportCompletes == ASSUME Importing!ImportConstants
                           PROVE  Importing!Spec => Importing!ImportIsComplete
<1>1. ImportInv /\ [Importing!Next]_(Importing!importVars) =>
        [\A u \in User : importAt[u] = "open" =>
         /\ importAt'[u] = "done" =>
              Importing!FileKeys(u) \ removed[u] \subseteq Importing!Keys(statements')
         /\ importAt'[u] = "known" =>
               /\ Importing!FileKeys(u) \subseteq Importing!Keys(snap[u])
               /\ \A x \in Importing!Range(content[file[u]]) :
                    \A s \in Importing!Range(x.statements) :
                     \A t \in Importing!Range(s.transactions) :
                       t.unique_import_id # None]_(Importing!importVars)
  BY CompleteStep
<1> QED
  BY <1>1, ImportInvariant, PTL DEF Importing!Spec, Importing!ImportIsComplete
-----------------------------------------------------------------------------
(* The properties of the three components in the behaviours of MCAddons *)

LEMMA LogsRun == Spec => Logs!Spec
<1>1. Init => Logs!Init
  BY DEF Init
<1>2. [Next]_vars => [Logs!Next]_(Logs!auditLogVars)
  BY DEF Next, vars, logVars, Logs!auditLogVars
<1> QED
  BY <1>1, <1>2, PTL DEF Spec, Logs!Spec

LEMMA FilterRun == Spec => Filter!Spec
<1>1. Init => Filter!Init
  BY DEF Init
<1>2. [Next]_vars => [Filter!Next]_(Filter!brandVars)
  BY DEF Next, vars, filterVars, Filter!brandVars
<1> QED
  BY <1>1, <1>2, PTL DEF Spec, Filter!Spec

LEMMA ImportingRun == Spec => Importing!Spec
<1>1. Init => Importing!Init
  BY DEF Init
<1>2. [Next]_vars => [Importing!Next]_(Importing!importVars)
  BY DEF Next, vars, importVars, Importing!importVars
<1> QED
  BY <1>1, <1>2, PTL DEF Spec, Importing!Spec

\* auditlog_rule.py, create_logs: the last line about a field tells its value, however the
\* audited calls nest.
THEOREM LogsTell == Spec => []LogsTellTheValues
<1>1. Logs!Spec => []LogInv
  BY Constants, LogInvariant
<1>2. LogInv => Logs!LogsTellTheValues
  BY TellsEnough
<1> QED
  BY LogsRun, <1>1, <1>2, PTL DEF LogsTellTheValues

\* controllers/main.py, brand_filter_load_more: no brand is shown twice, and a place without
\* a button shows all of its brands.
THEOREM BrandsAreShownOnce == Spec => []BrandsShownOnce
<1>1. Filter!Spec => []FilterInv
  BY Constants, FilterInvariant
<1>2. FilterInv => Filter!BrandsShownOnce
  BY Constants, ShownOnce
<1> QED
  BY FilterRun, <1>1, <1>2, PTL DEF BrandsShownOnce

\* account_statement_import.py, _create_bank_statements: what is left of a statement opens
\* with the balance that makes it add up.
THEOREM StatementsAddUp == Spec => []BalancesAddUp
<1>1. Importing!Spec => []ImportInv
  BY Constants, ImportInvariant
<1>2. ImportInv => Importing!BalancesAddUp
  BY BalancesFollow
<1> QED
  BY ImportingRun, <1>1, <1>2, PTL DEF BalancesAddUp

\* account_statement_import.py, _import_file: an import that succeeds leaves the database with
\* all transactions of its file, and only a file without a new one is refused as known.
THEOREM ImportsAreComplete == Spec => ImportIsComplete
<1>1. Importing!Spec => Importing!ImportIsComplete
  BY Constants, ImportCompletes
<1> QED
  BY ImportingRun, <1>1, PTL DEF ImportIsComplete

\* The variables of the six components keep their types; a stored statement has lines.
THEOREM TypeCorrectness == Spec => []TypesOK
<1>1. Recording!Spec => []Recording!TypeOK
  BY Constants, Recording!TypeCorrectness
<1>2. Rules!Spec => []Rules!TypeOK
  BY Constants, Rules!TypeCorrectness
<1>3. Ranges!Spec => []Ranges!TypeOK
  BY Constants, Ranges!TypeCorrectness
<1>4. Logs!Spec => []LogInv
  BY Constants, LogInvariant
<1>5. Filter!Spec => []FilterInv
  BY Constants, FilterInvariant
<1>6. Importing!Spec => []ImportInv
  BY Constants, ImportInvariant
<1>7. (LogInv => Logs!TypeOK) /\ (FilterInv => Filter!TypeOK) /\ (ImportInv => Importing!TypeOK)
  BY LogsTypesFollow, FilterTypesFollow, ImportingTypesFollow
<1> QED
  BY RecordsRun, RulesRun, RangesRun, LogsRun, FilterRun, ImportingRun,
     <1>1, <1>2, <1>3, <1>4, <1>5, <1>6, <1>7, PTL DEF TypesOK
=============================================================================
