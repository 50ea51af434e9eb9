-------------------------- MODULE DateRanges_proofs --------------------------
(***************************************************************************)
(* Theorems about DateRanges, for any number of users, ranges and days, any *)
(* duration of a range and any horizon.                                    *)
(***************************************************************************)
EXTENDS DateRanges, FiniteSetTheorems, WellFoundedInduction, TLAPS

Rows(p) == view[p].ranges
RowSet == [Id -> DateRange \cup {None}]
Dated(rs) == \A i \in Id : rs[i] # None => rs[i].date_start <= rs[i].date_end
SameDates(r, s) == r.date_start = s.date_start /\ r.date_end = s.date_end
Apart(rs, S) ==
    \A i \in S, j \in Id : i # j /\ rs[i] # None /\ rs[j] # None /\ rs[j].active
                              => ~Overlaps(rs[i], rs[j])

\* The committed ranges do not end before they begin, and none has an id still to be given.
RowsAreSound == /\ Dated(ranges)
                /\ \A i \in Id : i >= free => ranges[i] = None

\* So it is with those that a transaction sees: they are the committed ones, but for its own
\* changes and for those committed since it began.
SeesRows(p) ==
    /\ at[p] # "failed" => Dated(Rows(p))
    /\ at[p] \in {"open", "done"} => \A i \in Id :
          /\ i >= free => Rows(p)[i] = None
          /\ i \notin changed[p] /\ i \notin stale[p] => Rows(p)[i] = ranges[i]

\* What a transaction has changed and made, from its beginning to its end.
Keeps(p) == /\ at[p] = "idle" => stale[p] = {}
            /\ at[p] # "done" => changed[p] = {}
            /\ at[p] \in {"idle", "open"} => made[p] = {}
            /\ at[p] = "done" /\ made[p] # {} => changed[p] = made[p]

\* A transaction has compared the rows that it wrote with those that it sees, and the
\* ranges that it generated overlap with none of them, whatever their company; or it has
\* written no dates.
Checked(p) ==
    \A i \in changed[p] \ {0} : Rows(p)[i] # None =>
       \/ view[p].type.allow_overlap
       \/ \A j \in Id \ {i} : ~Found(Rows(p)[i], Rows(p)[j])
Undated(p) ==
    \A i \in Id \ stale[p] : Rows(p)[i] # None =>
       ranges[i] # None /\ SameDates(ranges[i], Rows(p)[i])
Compares(p) == at[p] = "done" => \/ Checked(p) /\ Apart(Rows(p), made[p])
                                 \/ Undated(p) /\ made[p] = {}

Transactions == \A p \in Actor : SeesRows(p) /\ Keeps(p) /\ Compares(p)

IInv == TypeOK /\ RowsAreSound /\ Transactions /\ NoOverlap /\ RunsCover
-----------------------------------------------------------------------------
(* Arithmetic *)

LEMMA Longer ==
  ASSUME NEW a \in Nat, NEW b \in Nat, b >= a
  PROVE  1 .. a - 1 \subseteq 1 .. b - 1
  OBVIOUS

LEMMA Monotone ==
  ASSUME NEW a \in Nat, NEW b \in Nat, NEW c \in Nat, a <= b
  PROVE  a * c \in Nat /\ a * c <= b * c
  OBVIOUS

LEMMA NextMultiple ==
  ASSUME NEW a \in Int, NEW c \in Nat
  PROVE  (a + 1) * c = a * c + c
  OBVIOUS

LEMMA Division ==
  ASSUME NEW a \in Nat, NEW c \in Nat \ {0}
  PROVE  a \div c \in Nat /\ a < (a \div c + 1) * c
  OBVIOUS

\* A finite set of naturals has a largest element: a smallest set without one would have
\* one without any of its elements.
LEMMA Largest ==
  ASSUME NEW S, S \subseteq Nat, IsFiniteSet(S), S # {}
  PROVE  Max(S) \in S /\ \A n \in S : n <= Max(S)
<1> DEFINE HasMax(T) == \E n \in T : \A m \in T : m <= n
           F == FiniteSubsetsOf(S)
           Bad == {T \in F : T # {} /\ ~HasMax(T)}
<1>1. Bad = {}
  <2> SUFFICES ASSUME Bad # {} PROVE FALSE
    OBVIOUS
  <2>1. IsWellFoundedOn(StrictSubsetOrdering(S), F)
    BY FS_StrictSubsetOrderingWellFounded
  <2> HIDE DEF F
  <2>2. Bad \subseteq F
    OBVIOUS
  <2> HIDE DEF Bad
  <2>3. PICK T \in Bad : \A U \in Bad : ~(<<U, T>> \in StrictSubsetOrdering(S))
    BY <2>1, <2>2, WFMin
  <2>4. T \in F /\ T \subseteq S /\ IsFiniteSet(T) /\ T # {} /\ ~HasMax(T)
    BY DEF Bad, F, FiniteSubsetsOf
  <2>5. PICK x \in T : TRUE
    BY <2>4
  <2> DEFINE U == T \ {x}
  <2>6. U \in F
    BY <2>4, FS_RemoveElement DEF F, FiniteSubsetsOf
  <2>7. <<U, T>> \in StrictSubsetOrdering(S)
    BY <2>4, <2>5 DEF StrictSubsetOrdering
  <2>8. U = {} \/ HasMax(U)
    BY <2>3, <2>6, <2>7 DEF Bad
  <2>9. CASE U = {}
    <3>1. \A m \in T : m = x
      BY <2>9
    <3> QED
      BY <2>4, <3>1
  <2>10. CASE HasMax(U)
    <3>1. PICK n \in U : \A m \in U : m <= n
      BY <2>10
    <3>2. n \in Nat /\ x \in Nat /\ \A m \in T : m \in Nat /\ (m = x \/ m <= n)
      BY <2>4, <3>1
    <3>3. CASE n <= x
      <4>1. \A m \in T : m <= x
        BY <3>2, <3>3
      <4> QED  BY <2>4, <4>1
    <3>4. CASE x <= n
      <4>1. \A m \in T : m <= n
        BY <3>2, <3>4
      <4> QED  BY <2>4, <3>1, <4>1
    <3> QED  BY <3>2, <3>3, <3>4
  <2> QED  BY <2>8, <2>9, <2>10
<1>2. S \in F
  BY DEF FiniteSubsetsOf
<1>3. PICK n \in S : \A m \in S : m <= n
  BY <1>1, <1>2
<1>4. \A m \in S : n >= m
  BY <1>3
<1>5. Max(S) \in S /\ \A m \in S : Max(S) >= m
  BY <1>4 DEF Max
<1> QED
  BY <1>5

\* A pair has two elements.
LEMMA PairOf ==
  ASSUME NEW T, NEW s \in kSubset(2, T), IsFiniteSet(T), NEW i \in s
  PROVE  \E j \in s : j # i
<1>1. s \subseteq T /\ Cardinality(s) = 2 /\ IsFiniteSet(s)
  BY FS_Subset DEF kSubset
<1>2. IsFiniteSet(s \ {i}) /\ Cardinality(s \ {i}) = 1
  BY <1>1, FS_RemoveElement
<1>3. PICK j : s \ {i} = {j}
  BY <1>2, FS_Singleton
<1> QED
  BY <1>3
-----------------------------------------------------------------------------
(* Generation *)

\* The last range ends before the first generated one begins.
LEMMA StartFollows ==
  ASSUME DateRangeConstants, NEW rs \in RowSet
  PROVE  /\ _compute_date_start(rs) \in Nat
         /\ \A i \in Id : rs[i] # None /\ rs[i].active => rs[i].date_end < _compute_date_start(rs)
         /\ IF Last(rs) = {} THEN _compute_date_start(rs) = autogeneration_date_start
            ELSE \E i \in Id : /\ rs[i] # None /\ rs[i].active
                               /\ rs[i].date_end = _compute_date_start(rs) - 1
<1> DEFINE I == {j \in Id : rs[j] # None /\ rs[j].active}
           f == [i \in I |-> rs[i].date_end]
<1>1. Last(rs) = {rs[i].date_end : i \in I}
  BY DEF Last
<1>2. \A i \in I : rs[i] \in DateRange /\ rs[i].date_end \in Nat
  BY DEF RowSet, DateRange
<1>3. IsFiniteSet(I)
  <2>1. IsFiniteSet(Id)
    BY FS_Interval DEF Id, DateRangeConstants
  <2> QED
    BY <2>1, FS_Subset
<1>4. f \in Surjection(I, Last(rs))
  BY <1>1 DEF Surjection
<1>5. IsFiniteSet(Last(rs)) /\ Last(rs) \subseteq Nat
  <2> HIDE DEF I, f
  <2> QED
  BY <1>1, <1>2, <1>3, <1>4, FS_Surjection
<1>6. CASE Last(rs) = {}
  <2>1. I = {}
    BY <1>1, <1>6
  <2>2. _compute_date_start(rs) = autogeneration_date_start
    BY <1>6 DEF _compute_date_start
  <2> QED
    BY <1>6, <2>1, <2>2 DEF DateRangeConstants
<1>7. CASE Last(rs) # {}
  <2>1. Max(Last(rs)) \in Last(rs) /\ \A n \in Last(rs) : n <= Max(Last(rs))
    BY <1>5, <1>7, Largest
  <2>2. _compute_date_start(rs) = Max(Last(rs)) + 1
    BY <1>7 DEF _compute_date_start
  <2>3. \A i \in I : rs[i].date_end <= Max(Last(rs))
    BY <1>1, <2>1
  <2>4. PICK i \in I : rs[i].date_end = Max(Last(rs))
    BY <1>1, <2>1
  <2> HIDE DEF _compute_date_start
  <2>5. Max(Last(rs)) \in Nat
    BY <1>5, <2>1
  <2>6. /\ _compute_date_start(rs) \in Nat
        /\ \A j \in I : rs[j].date_end < _compute_date_start(rs)
        /\ rs[i].date_end = _compute_date_start(rs) - 1
    BY <1>2, <2>2, <2>3, <2>4, <2>5
  <2> QED
    BY <1>7, <2>6
<1> QED
  BY <1>6, <1>7

\* Generated ranges follow one another without a gap.
LEMMA Generated ==
  ASSUME DateRangeConstants, NEW from \in Nat, NEW n \in Nat \ {0}, NEW t \in Type
  PROVE  LET new == _generate_date_ranges(from, n, t) IN
         /\ \A k \in 1 .. n : /\ new[k] \in DateRange /\ new[k].active = t.active
                              /\ from <= new[k].date_start
                              /\ new[k].date_start <= new[k].date_end
         /\ \A k, l \in 1 .. n : k < l => new[k].date_end < new[l].date_start
         /\ new[1].date_start = from
         /\ \A k \in 2 .. n : new[k - 1].date_end = new[k].date_start - 1
         /\ new[n].date_end = from + n * step - 1
<1> DEFINE new == _generate_date_ranges(from, n, t)
           m(k) == (k - 1) * step
<1>0. step \in Nat \ {0} /\ company_id \in Company \cup {NoCompany}
  BY DEF DateRangeConstants
<1>1. \A k \in 1 .. n : /\ new[k].date_start = from + m(k)
                        /\ new[k].date_end = from + k * step - 1
                        /\ new[k].active = t.active
  BY DEF _generate_date_ranges
<1>11. \A k \in 1 .. n :
         new[k] = [name |-> _generate_names(k, n, from + m(k)), date_start |-> new[k].date_start,
                   date_end |-> new[k].date_end, company_id |-> company_id,
                   active |-> t.active]
  BY DEF _generate_date_ranges
<1>2. \A k \in 1 .. n : /\ m(k) \in Nat /\ k * step = m(k) + step
  <2> TAKE k \in 1 .. n
  <2>1. k - 1 \in Nat /\ k = (k - 1) + 1
    OBVIOUS
  <2>2. m(k) \in Nat
    BY <1>0, <2>1, Monotone
  <2>3. ((k - 1) + 1) * step = m(k) + step
    BY <1>0, <2>1, NextMultiple
  <2> QED
    BY <2>1, <2>2, <2>3
<1>3. \A k, l \in 1 .. n : k < l => k * step <= m(l)
  <2> SUFFICES ASSUME NEW k \in 1 .. n, NEW l \in 1 .. n, k < l PROVE k * step <= m(l)
    OBVIOUS
  <2>1. k \in Nat /\ l - 1 \in Nat /\ k <= l - 1
    OBVIOUS
  <2> QED
    BY <1>0, <2>1, Monotone
<1>4. m(1) = 0
  BY <1>0
<1> HIDE DEF new, m
<1>5. \A k \in 1 .. n : /\ from <= new[k].date_start /\ new[k].date_start \in Nat
                        /\ new[k].date_start <= new[k].date_end /\ new[k].date_end \in Nat
                        /\ new[k].date_end = new[k].date_start + step - 1
  <2> TAKE k \in 1 .. n
  <2>1. /\ new[k].date_start = from + m(k) /\ new[k].date_end = from + k * step - 1
        /\ m(k) \in Nat /\ k * step = m(k) + step
    BY <1>1, <1>2
  <2>2. new[k].date_end = from + (m(k) + step) - 1
    BY <2>1
  <2> QED
    BY <1>0, <2>1, <2>2
<1>6. \A k \in 1 .. n : new[k] \in DateRange
  <2> TAKE k \in 1 .. n
  <2>1. _generate_names(k, n, from + m(k)) \in {"index", "dates"} \X Nat \X {1, 2}
    BY <1>2 DEF _generate_names
  <2>2. t.active \in BOOLEAN
    BY DEF Type
  <2>3. new[k].date_start \in Nat /\ new[k].date_end \in Nat
    BY <1>5
  <2>4. [name |-> _generate_names(k, n, from + m(k)), date_start |-> new[k].date_start,
         date_end |-> new[k].date_end, company_id |-> company_id, active |-> t.active]
           \in DateRange
    BY <1>0, <2>1, <2>2, <2>3 DEF DateRange
  <2> QED
    BY <1>11, <2>4
<1>7. \A k, l \in 1 .. n : k < l => new[k].date_end < new[l].date_start
  <2> SUFFICES ASSUME NEW k \in 1 .. n, NEW l \in 1 .. n, k < l
               PROVE  new[k].date_end < new[l].date_start
    OBVIOUS
  <2>1. new[k].date_end = from + k * step - 1 /\ new[l].date_start = from + m(l)
    BY <1>1
  <2>2. k * step <= m(l) /\ m(l) \in Nat /\ k * step = m(k) + step /\ m(k) \in Nat
    BY <1>2, <1>3
  <2>3. k * step \in Nat
    BY <1>0, <2>2
  <2> QED
    BY <2>1, <2>2, <2>3
<1>8. new[1].date_start = from
  <2>1. 1 \in 1 .. n
    OBVIOUS
  <2>2. new[1].date_start = from + m(1)
    BY <1>1, <2>1
  <2> QED
    BY <1>4, <2>2
<1>9. \A k \in 2 .. n : new[k - 1].date_end = new[k].date_start - 1
  <2> TAKE k \in 2 .. n
  <2>1. k - 1 \in 1 .. n /\ k \in 1 .. n
    OBVIOUS
  <2>2. new[k - 1].date_end = from + (k - 1) * step - 1
    BY <1>1, <2>1
  <2>3. new[k].date_start = from + (k - 1) * step
    BY <1>1, <2>1 DEF m
  <2>4. (k - 1) * step \in Nat
    BY <1>2, <2>1 DEF m
  <2> QED
    BY <2>2, <2>3, <2>4
<1>10. new[n].date_end = from + n * step - 1
  <2>1. n \in 1 .. n
    OBVIOUS
  <2> QED
    BY <1>1, <2>1
<1> QED
  BY <1>1, <1>5, <1>6, <1>7, <1>8, <1>9, <1>10 DEF new
-----------------------------------------------------------------------------
(* Transactions that write *)

\* What the transaction of p does leaves those of the others alone.
Others(p) ==
    \A q \in Actor \ {p} : /\ at'[q] = at[q] /\ view'[q] = view[q]
                           /\ changed'[q] = changed[q] /\ made'[q] = made[q]

\* The rows rs, written at S, follow those that p sees; new ids are taken in order.
Follow(p, S, rs) ==
    /\ S \subseteq Id /\ rs \in RowSet /\ \A i \in Id \ S : rs[i] = Rows(p)[i]
    /\ free' \in free .. MaxRanges + 1 /\ \A i \in Id : i >= free' => rs[i] = None
    /\ \/ made' = made
       \/ /\ made' = [made EXCEPT ![p] = S] /\ \A i \in S : i < free'
          /\ Apart(rs, S)

LEMMA OthersStay ==
  ASSUME IInv, NEW p \in Actor, Others(p), RowsAreSound', free' \in Nat, free' >= free,
         \A q \in Actor \ {p} : stale'[q] = stale[q], UNCHANGED ranges
  PROVE  \A q \in Actor \ {p} : SeesRows(q)' /\ Keeps(q)' /\ Compares(q)'
<1> TAKE q \in Actor \ {p}
<1>1. /\ at'[q] = at[q] /\ view'[q] = view[q] /\ changed'[q] = changed[q]
      /\ made'[q] = made[q] /\ stale'[q] = stale[q] /\ ranges' = ranges
  BY DEF Others
<1>2. SeesRows(q) /\ Keeps(q) /\ Compares(q)
  BY DEF IInv, Transactions
<1>3. \A i \in Id : i \in Int /\ free \in Int /\ (i >= free' => i >= free)
  BY DEF Id, IInv, TypeOK
<1>4. SeesRows(q)'
  BY <1>1, <1>2, <1>3 DEF SeesRows, Rows, Dated
<1>5. Keeps(q)'
  BY <1>1, <1>2 DEF Keeps
<1>6. Compares(q)'
  BY <1>1, <1>2 DEF Compares, Checked, Undated, Rows, Apart
<1> QED
  BY <1>4, <1>5, <1>6

\* Transactions of users leave the scheduled task alone.
LEMMA CronStays ==
  ASSUME DateRangeConstants, RunsCover, NEW p \in Actor, Others(p), p # Cron
  PROVE  RunsCover'
<1>1. Cron \in Actor \ {p}
  BY DEF Actor
<1>2. at'[Cron] = at[Cron] /\ view'[Cron] = view[Cron] /\ made'[Cron] = made[Cron]
  BY <1>1 DEF Others
<1> QED
  BY <1>2 DEF RunsCover, Covered, TooEarly

LEMMA WriteStays ==
  ASSUME DateRangeConstants, IInv, NEW p \in Actor, NEW S, NEW rs, Write(p, S, rs),
         Follow(p, S, rs), RunsCover'
  PROVE  IInv'
<1>1. /\ S \ {0} = S /\ free \in Nat /\ free' \in Nat /\ free' >= free
      /\ \A i \in Id : i \in Int /\ (i >= free' => i >= free)
  BY DEF Id, DateRangeConstants, Follow, IInv, TypeOK
<1>2. /\ at[p] = "open" /\ UNCHANGED <<ranges, type, today, stale, edits, unchecked>>
      /\ \/ /\ at' = [at EXCEPT ![p] = "done"]
            /\ view' = [view EXCEPT ![p].ranges = rs]
            /\ changed' = [changed EXCEPT ![p] = S]
            /\ \A i \in S : rs[i] # None => _validate_range(i, rs, view[p].type)
         \/ at' = [at EXCEPT ![p] = "failed"] /\ UNCHANGED <<view, changed>>
  BY <1>1 DEF Write, Valid
<1>3. /\ view[p] \in [ranges : RowSet, type : Type, today : 0 .. today]
      /\ changed[p] = {} /\ made[p] = {} /\ SeesRows(p)
  BY <1>2 DEF IInv, TypeOK, Transactions, Keeps, RowSet
<1>4. S \subseteq Id /\ rs \in RowSet
  BY DEF Follow
<1>5. /\ made' \in [Actor -> SUBSET Id] /\ \A q \in Actor \ {p} : made'[q] = made[q]
      /\ made'[p] = {} \/ (made'[p] = S /\ Apart(rs, S))
      /\ \A q \in Actor : made'[q] \subseteq 1 .. free' - 1
  <2>1. made \in [Actor -> SUBSET Id] /\ \A q \in Actor : made[q] \subseteq 1 .. free - 1
    BY DEF IInv, TypeOK
  <2>2. 1 .. free - 1 \subseteq 1 .. free' - 1
    <3>1. free \in Nat /\ free' \in Nat /\ free' >= free
      BY <1>1
    <3> QED
      BY <3>1, Longer
  <2>3. CASE made' = made
    BY <1>3, <2>1, <2>2, <2>3
  <2>4. CASE made' # made
    <3>1. made' = [made EXCEPT ![p] = S] /\ (\A i \in S : i < free') /\ Apart(rs, S)
      BY <2>4 DEF Follow
    <3>2. free' \in Nat /\ \A i \in S : i \in Nat /\ i >= 1 /\ i < free'
      BY <1>1, <1>4, <3>1 DEF Id, DateRangeConstants
    <3>3. S \subseteq 1 .. free' - 1
      BY <3>2
    <3> QED
      BY <1>4, <2>1, <2>2, <3>1, <3>3
  <2> QED
    BY <2>3, <2>4
<1>6. CASE /\ at' = [at EXCEPT ![p] = "done"] /\ view' = [view EXCEPT ![p].ranges = rs]
           /\ changed' = [changed EXCEPT ![p] = S]
           /\ \A i \in S : rs[i] # None => _validate_range(i, rs, view[p].type)
  <2>1. /\ at'[p] = "done" /\ Rows(p)' = rs /\ view'[p].type = view[p].type
        /\ changed'[p] = S /\ stale'[p] = stale[p] /\ ranges' = ranges
    BY <1>2, <1>3, <1>6 DEF Rows, IInv, TypeOK
  <2>2. TypeOK'
    <3>1. /\ at' \in [Actor -> {"idle", "open", "done", "failed"}]
          /\ changed' \in [Actor -> SUBSET (Id \cup {0})]
      BY <1>4, <1>6 DEF IInv, TypeOK
    <3>2. view' \in [Actor -> [ranges : RowSet, type : Type, today : 0 .. today]]
      BY <1>4, <1>6 DEF IInv, TypeOK, RowSet
    <3>3. free' \in 1 .. MaxRanges + 1
      BY <1>1 DEF Follow, IInv, TypeOK, DateRangeConstants
    <3> QED
      BY <1>2, <1>5, <3>1, <3>2, <3>3 DEF IInv, TypeOK, RowSet
  <2>3. Others(p)
    BY <1>5, <1>6 DEF Others, IInv, TypeOK
  <2>4. SeesRows(p)'
    <3>1. Dated(rs)
      <4> SUFFICES ASSUME NEW i \in Id, rs[i] # None PROVE rs[i].date_start <= rs[i].date_end
        BY DEF Dated
      <4>1. CASE i \in S
        BY <1>6, <4>1 DEF _validate_range
      <4>2. CASE i \notin S
        BY <1>2, <1>3, <4>2 DEF Follow, SeesRows, Dated
      <4> QED
        BY <4>1, <4>2
    <3>2. \A i \in Id : i >= free' => rs[i] = None
      BY DEF Follow
    <3>3. \A i \in Id : i \notin S /\ i \notin stale[p] => rs[i] = ranges[i]
      BY <1>2, <1>3 DEF Follow, SeesRows
    <3> QED
      BY <2>1, <3>1, <3>2, <3>3 DEF SeesRows, Dated
  <2>5. Keeps(p)'
    BY <1>5, <2>1 DEF Keeps
  <2>6. Compares(p)'
    <3>1. \A i \in S : rs[i] # None =>
             view[p].type.allow_overlap \/ \A j \in Id \ {i} : ~Found(rs[i], rs[j])
      BY <1>6 DEF _validate_range
    <3>2. Checked(p)'
      BY <1>1, <2>1, <3>1 DEF Checked
    <3>3. Apart(rs, made'[p])
      BY <1>5 DEF Apart
    <3> QED
      BY <2>1, <3>2, <3>3 DEF Compares, Apart
  <2>7. RowsAreSound'
    BY <1>1, <1>2 DEF IInv, RowsAreSound, Dated
  <2>8. \A q \in Actor \ {p} : SeesRows(q)' /\ Keeps(q)' /\ Compares(q)'
    BY <1>1, <1>2, <2>3, <2>7, OthersStay
  <2>9. NoOverlap'
    BY <1>2 DEF IInv, NoOverlap, Pairs
  <2> QED
    BY <2>2, <2>4, <2>5, <2>6, <2>7, <2>8, <2>9 DEF IInv, Transactions
<1>7. CASE at' = [at EXCEPT ![p] = "failed"] /\ UNCHANGED <<view, changed>>
  <2>1. at'[p] = "failed" /\ changed'[p] = {}
    BY <1>3, <1>7 DEF IInv, TypeOK
  <2>2. TypeOK'
    <3>1. at' \in [Actor -> {"idle", "open", "done", "failed"}]
      BY <1>7 DEF IInv, TypeOK
    <3>2. free' \in 1 .. MaxRanges + 1
      BY <1>1 DEF Follow, IInv, TypeOK, DateRangeConstants
    <3> QED
      BY <1>2, <1>5, <1>7, <3>1, <3>2 DEF IInv, TypeOK
  <2>3. Others(p)
    BY <1>5, <1>7 DEF Others, IInv, TypeOK
  <2>4. SeesRows(p)' /\ Keeps(p)' /\ Compares(p)'
    BY <2>1 DEF SeesRows, Keeps, Compares
  <2>5. RowsAreSound'
    BY <1>1, <1>2 DEF IInv, RowsAreSound, Dated
  <2>6. \A q \in Actor \ {p} : SeesRows(q)' /\ Keeps(q)' /\ Compares(q)'
    BY <1>1, <1>2, <2>3, <2>5, OthersStay
  <2>7. NoOverlap'
    BY <1>2 DEF IInv, NoOverlap, Pairs
  <2> QED
    BY <2>2, <2>4, <2>5, <2>6, <2>7 DEF IInv, Transactions
<1> QED
  BY <1>2, <1>6, <1>7

\* The rows rs differ from those that p sees at S only, and not by their dates.
SameRows(p, S, rs) ==
    /\ S \subseteq Id \cup {0} /\ rs \in RowSet
    /\ \A i \in Id : /\ i \notin S => rs[i] = Rows(p)[i]
                     /\ rs[i] = None <=> Rows(p)[i] = None
                     /\ rs[i] # None => SameDates(Rows(p)[i], rs[i])

LEMMA AssignStays ==
  ASSUME DateRangeConstants, IInv, NEW p \in Actor, NEW S, NEW rs, NEW t \in Type,
         Assign(p, S, rs, t), SameRows(p, S, rs), p # Cron
  PROVE  IInv'
<1>1. /\ at[p] = "open" /\ at' = [at EXCEPT ![p] = "done"]
      /\ view' = [view EXCEPT ![p].ranges = rs, ![p].type = t]
      /\ changed' = [changed EXCEPT ![p] = S]
      /\ UNCHANGED <<ranges, type, today, stale, made, free, edits, unchecked>>
  BY DEF Assign
<1>2. /\ view[p] \in [ranges : RowSet, type : Type, today : 0 .. today]
      /\ changed[p] = {} /\ made[p] = {} /\ SeesRows(p)
  BY <1>1 DEF IInv, TypeOK, Transactions, Keeps, RowSet
<1>3. S \subseteq Id \cup {0} /\ rs \in RowSet
  BY DEF SameRows
<1>4. /\ at'[p] = "done" /\ Rows(p)' = rs /\ changed'[p] = S /\ made'[p] = {}
      /\ stale'[p] = stale[p] /\ ranges' = ranges /\ free' = free
  BY <1>1, <1>2 DEF Rows, IInv, TypeOK
<1>5. TypeOK'
  <2>1. /\ at' \in [Actor -> {"idle", "open", "done", "failed"}]
        /\ changed' \in [Actor -> SUBSET (Id \cup {0})]
    BY <1>1, <1>3 DEF IInv, TypeOK
  <2>2. view' \in [Actor -> [ranges : RowSet, type : Type, today : 0 .. today]]
    BY <1>1, <1>3 DEF IInv, TypeOK, RowSet
  <2> QED
    BY <1>1, <2>1, <2>2 DEF IInv, TypeOK, RowSet
<1>6. Others(p)
  BY <1>1 DEF Others, IInv, TypeOK
<1>7. SeesRows(p)'
  <2>1. Dated(rs)
    BY <1>1, <1>2 DEF SeesRows, SameRows, SameDates, Dated
  <2>2. \A i \in Id : i >= free => rs[i] = None
    BY <1>1, <1>2 DEF SeesRows, SameRows
  <2>3. \A i \in Id : i \notin S /\ i \notin stale[p] => rs[i] = ranges[i]
    BY <1>1, <1>2 DEF SeesRows, SameRows
  <2> QED
    BY <1>4, <2>1, <2>2, <2>3 DEF SeesRows, Dated
<1>8. Keeps(p)'
  BY <1>4 DEF Keeps
<1>9. Compares(p)'
  <2>1. \A i \in Id \ stale[p] : rs[i] # None =>
           ranges[i] # None /\ SameDates(ranges[i], rs[i])
    BY <1>1, <1>2 DEF SeesRows, SameRows
  <2>2. Undated(p)'
    BY <1>4, <2>1 DEF Undated, SameDates
  <2> QED
    BY <1>4, <2>2 DEF Compares
<1>10. RowsAreSound'
  BY <1>1 DEF IInv, RowsAreSound, Dated
<1>11. \A q \in Actor \ {p} : SeesRows(q)' /\ Keeps(q)' /\ Compares(q)'
  <2>1. free' \in Nat /\ free' >= free
    BY <1>1 DEF IInv, TypeOK, DateRangeConstants
  <2> QED
    BY <1>1, <1>6, <1>10, <2>1, OthersStay
<1>12. NoOverlap'
  BY <1>1 DEF IInv, NoOverlap, Pairs
<1>13. RunsCover'
  BY <1>6, CronStays DEF IInv
<1> QED
  BY <1>5, <1>7, <1>8, <1>9, <1>10, <1>11, <1>12, <1>13 DEF IInv, Transactions
-----------------------------------------------------------------------------
(* Transactions that begin and end *)

\* Nothing is asked of the scheduled task before it is done.
LEMMA NotDone ==
  ASSUME DateRangeConstants, RunsCover, NEW p \in Actor, Others(p), at'[p] # "done"
  PROVE  RunsCover'
<1>1. CASE p = Cron
  BY <1>1 DEF RunsCover
<1>2. CASE p # Cron
  BY <1>2, CronStays
<1> QED
  BY <1>1, <1>2

LEMMA BeginStays ==
  ASSUME DateRangeConstants, IInv, NEW p \in Actor, begin(p)
  PROVE  IInv'
<1>1. /\ at[p] = "idle" /\ at' = [at EXCEPT ![p] = "open"]
      /\ view' = [view EXCEPT ![p] = [ranges |-> ranges, type |-> type, today |-> today]]
      /\ edits' <= MaxEdits /\ (edits' = edits + 1 \/ edits' = edits)
      /\ UNCHANGED <<ranges, type, today, changed, stale, made, free, unchecked>>
  BY DEF begin
<1>2. changed[p] = {} /\ made[p] = {} /\ stale[p] = {}
  BY <1>1 DEF IInv, Transactions, Keeps
<1>3. /\ at'[p] = "open" /\ Rows(p)' = ranges /\ changed'[p] = {} /\ made'[p] = {}
      /\ ranges' = ranges /\ free' = free /\ stale'[p] = {}
  BY <1>1, <1>2 DEF Rows, IInv, TypeOK
<1>4. TypeOK'
  <2>1. /\ at' \in [Actor -> {"idle", "open", "done", "failed"}]
        /\ edits' \in 0 .. MaxEdits
    BY <1>1 DEF IInv, TypeOK, DateRangeConstants
  <2>2. [ranges |-> ranges, type |-> type, today |-> today]
           \in [ranges : RowSet, type : Type, today : 0 .. today]
    BY DEF IInv, TypeOK, RowSet
  <2>3. view' \in [Actor -> [ranges : RowSet, type : Type, today : 0 .. today]]
    BY <1>1, <2>2 DEF IInv, TypeOK, RowSet
  <2> QED
    BY <1>1, <2>1, <2>3 DEF IInv, TypeOK, RowSet
<1>5. Others(p)
  BY <1>1 DEF Others, IInv, TypeOK
<1>6. SeesRows(p)' /\ Keeps(p)' /\ Compares(p)'
  BY <1>3 DEF SeesRows, Keeps, Compares, Dated, IInv, RowsAreSound
<1>7. RowsAreSound'
  BY <1>1 DEF IInv, RowsAreSound, Dated
<1>8. \A q \in Actor \ {p} : SeesRows(q)' /\ Keeps(q)' /\ Compares(q)'
  <2>1. free' \in Nat /\ free' >= free
    BY <1>1 DEF IInv, TypeOK, DateRangeConstants
  <2> QED
    BY <1>1, <1>5, <1>7, <2>1, OthersStay
<1>9. NoOverlap'
  BY <1>1 DEF IInv, NoOverlap, Pairs
<1>10. RunsCover'
  BY <1>3, <1>5, NotDone DEF IInv
<1> QED
  BY <1>4, <1>6, <1>7, <1>8, <1>9, <1>10 DEF IInv, Transactions

\* A transaction that has ended holds nothing.
LEMMA EndTypes ==
  ASSUME DateRangeConstants, TypeOK, NEW p \in Actor, End(p)
  PROVE  /\ Others(p)
         /\ at' \in [Actor -> {"idle", "open", "done", "failed"}]
         /\ view' \in [Actor -> [ranges : RowSet, type : Type, today : 0 .. today]]
         /\ changed' \in [Actor -> SUBSET (Id \cup {0})]
         /\ made' \in [Actor -> SUBSET Id]
         /\ at'[p] = "idle" /\ changed'[p] = {} /\ made'[p] = {} /\ Dated(Rows(p))'
<1>1. /\ at' = [at EXCEPT ![p] = "idle"] /\ view' = [view EXCEPT ![p] = Nothing]
      /\ changed' = [changed EXCEPT ![p] = {}] /\ made' = [made EXCEPT ![p] = {}]
  BY DEF End
<1>2. Nothing \in [ranges : RowSet, type : Type, today : 0 .. today]
  <2>1. 0 \in 0 .. today
    BY DEF TypeOK
  <2> QED
    BY <2>1 DEF Nothing, RowSet, Type
<1>3. Others(p)
  BY <1>1 DEF Others, TypeOK
<1>4. /\ at' \in [Actor -> {"idle", "open", "done", "failed"}] /\ at'[p] = "idle"
      /\ changed' \in [Actor -> SUBSET (Id \cup {0})] /\ changed'[p] = {}
      /\ made' \in [Actor -> SUBSET Id] /\ made'[p] = {}
  BY <1>1 DEF TypeOK
<1>5. /\ view' \in [Actor -> [ranges : RowSet, type : Type, today : 0 .. today]]
      /\ view'[p] = Nothing
  BY <1>1, <1>2 DEF TypeOK, RowSet
<1>6. Dated(Rows(p))'
  BY <1>5 DEF Dated, Rows, Nothing
<1> QED
  BY <1>3, <1>4, <1>5, <1>6

LEMMA RollbackStays ==
  ASSUME DateRangeConstants, IInv, NEW p \in Actor, rollback(p)
  PROVE  IInv'
<1>1. /\ End(p) /\ stale' = [stale EXCEPT ![p] = {}]
      /\ UNCHANGED <<ranges, type, today, free, edits, unchecked>>
  BY DEF rollback
<1>2. /\ Others(p)
      /\ at' \in [Actor -> {"idle", "open", "done", "failed"}]
      /\ view' \in [Actor -> [ranges : RowSet, type : Type, today : 0 .. today]]
      /\ changed' \in [Actor -> SUBSET (Id \cup {0})]
      /\ made' \in [Actor -> SUBSET Id]
      /\ at'[p] = "idle" /\ changed'[p] = {} /\ made'[p] = {} /\ Dated(Rows(p))'
  BY <1>1, EndTypes DEF IInv
<1>3. /\ stale' \in [Actor -> SUBSET (Id \cup {0})] /\ stale'[p] = {}
      /\ \A q \in Actor \ {p} : stale'[q] = stale[q]
  BY <1>1 DEF IInv, TypeOK
<1>4. TypeOK'
  <2>1. \A q \in Actor : made'[q] \subseteq 1 .. free' - 1
    BY <1>1, <1>2 DEF IInv, TypeOK, Others
  <2> QED
    BY <1>1, <1>2, <1>3, <2>1 DEF IInv, TypeOK, RowSet
<1>5. SeesRows(p)' /\ Keeps(p)' /\ Compares(p)'
  BY <1>2, <1>3 DEF SeesRows, Keeps, Compares
<1>6. RowsAreSound'
  BY <1>1 DEF IInv, RowsAreSound, Dated
<1>7. \A q \in Actor \ {p} : SeesRows(q)' /\ Keeps(q)' /\ Compares(q)'
  <2>1. free' \in Nat /\ free' >= free
    BY <1>1 DEF IInv, TypeOK, DateRangeConstants
  <2> QED
    BY <1>1, <1>2, <1>3, <1>6, <2>1, OthersStay
<1>8. NoOverlap'
  BY <1>1 DEF IInv, NoOverlap, Pairs
<1>9. RunsCover'
  BY <1>2, NotDone DEF IInv
<1> QED
  BY <1>4, <1>5, <1>6, <1>7, <1>8, <1>9 DEF IInv, Transactions

LEMMA CommitStays ==
  ASSUME DateRangeConstants, IInv, NEW p \in Actor, commit(p)
  PROVE  IInv'
<1> DEFINE rs == [i \in Id |-> IF i \in changed[p] THEN view[p].ranges[i] ELSE ranges[i]]
<1>1. /\ at[p] = "done" /\ ranges' = rs /\ unchecked' = Unchecked(p, rs) /\ End(p)
      /\ type' = IF 0 \in changed[p] THEN view[p].type ELSE type
      /\ stale' = [q \in Actor |-> IF q # p /\ at[q] # "idle" THEN stale[q] \cup changed[p]
                                   ELSE {}]
      /\ UNCHANGED <<today, free, edits>>
  BY DEF commit
<1>2. /\ Others(p)
      /\ at' \in [Actor -> {"idle", "open", "done", "failed"}]
      /\ view' \in [Actor -> [ranges : RowSet, type : Type, today : 0 .. today]]
      /\ changed' \in [Actor -> SUBSET (Id \cup {0})]
      /\ made' \in [Actor -> SUBSET Id]
      /\ at'[p] = "idle" /\ changed'[p] = {} /\ made'[p] = {} /\ Dated(Rows(p))'
  BY <1>1, EndTypes DEF IInv
<1>3. /\ view[p] \in [ranges : RowSet, type : Type, today : 0 .. today]
      /\ changed[p] \subseteq Id \cup {0} /\ SeesRows(p) /\ Keeps(p) /\ Compares(p)
      /\ ranges \in RowSet /\ Dated(ranges)
  BY DEF IInv, TypeOK, Transactions, RowSet, RowsAreSound
<1>4. /\ rs \in RowSet
      /\ \A i \in Id : rs[i] = IF i \in changed[p] THEN Rows(p)[i] ELSE ranges[i]
  BY <1>3 DEF RowSet, Rows
<1> HIDE DEF rs
<1>5. /\ stale' \in [Actor -> SUBSET (Id \cup {0})] /\ stale'[p] = {}
      /\ \A q \in Actor \ {p} : stale'[q] = IF at[q] # "idle" THEN stale[q] \cup changed[p]
                                            ELSE {}
  BY <1>1, <1>3 DEF IInv, TypeOK
<1>6. Pairs(rs) \subseteq kSubset(2, Id)
  BY DEF Pairs, kSubset
<1>7. TypeOK'
  <2>1. \A q \in Actor : made'[q] \subseteq 1 .. free' - 1
    BY <1>1, <1>2 DEF IInv, TypeOK, Others
  <2>2. unchecked' \subseteq kSubset(2, Id)
    BY <1>1, <1>6 DEF Unchecked
  <2>3. type' \in Type
    BY <1>1, <1>3 DEF IInv, TypeOK
  <2> QED
    BY <1>1, <1>2, <1>4, <1>5, <2>1, <2>2, <2>3 DEF IInv, TypeOK, RowSet
<1>8. RowsAreSound'
  <2>1. Dated(rs)
    BY <1>1, <1>3, <1>4 DEF SeesRows, Dated
  <2>2. \A i \in Id : i >= free => rs[i] = None
    BY <1>1, <1>3, <1>4 DEF SeesRows, IInv, RowsAreSound
  <2> QED
    BY <1>1, <2>1, <2>2 DEF RowsAreSound, Dated
<1>9. SeesRows(p)' /\ Keeps(p)' /\ Compares(p)'
  BY <1>2, <1>5 DEF SeesRows, Keeps, Compares
<1>10. \A q \in Actor \ {p} : SeesRows(q)' /\ Keeps(q)' /\ Compares(q)'
  <2> TAKE q \in Actor \ {p}
  <2>1. /\ at'[q] = at[q] /\ view'[q] = view[q] /\ changed'[q] = changed[q]
        /\ made'[q] = made[q] /\ ranges' = rs /\ free' = free
        /\ stale'[q] = IF at[q] # "idle" THEN stale[q] \cup changed[p] ELSE {}
    BY <1>1, <1>2, <1>5 DEF Others
  <2>2. SeesRows(q) /\ Keeps(q) /\ Compares(q)
    BY DEF IInv, Transactions
  <2>3. at[q] # "idle" => \A i \in Id : i \notin stale'[q] => rs[i] = ranges[i]
    BY <1>4, <2>1
  <2>4. SeesRows(q)'
    BY <2>1, <2>2, <2>3 DEF SeesRows, Rows, Dated
  <2>5. Keeps(q)'
    BY <2>1, <2>2 DEF Keeps
  <2>6. Compares(q)'
    <3> SUFFICES ASSUME at[q] = "done" PROVE Compares(q)'
      BY <2>1 DEF Compares
    <3>1. CASE Checked(q) /\ Apart(Rows(q), made[q])
      BY <2>1, <3>1 DEF Compares, Checked, Apart, Rows
    <3>2. CASE Undated(q) /\ made[q] = {}
      <4>1. \A i \in Id \ stale'[q] : Rows(q)[i] # None =>
               rs[i] # None /\ SameDates(rs[i], Rows(q)[i])
        BY <2>1, <2>3, <3>2 DEF Undated
      <4>2. Undated(q)'
        BY <2>1, <4>1 DEF Undated, SameDates, Rows
      <4> QED
        BY <2>1, <3>2, <4>2 DEF Compares
    <3> QED
      BY <2>2, <3>1, <3>2 DEF Compares
  <2> QED
    BY <2>4, <2>5, <2>6
<1>11. NoOverlap'
  <2>1. Pairs(rs) \subseteq Unchecked(p, rs)
    <3> SUFFICES ASSUME NEW s \in Pairs(rs), s \notin Unchecked(p, rs) PROVE FALSE
      OBVIOUS
    <3> DEFINE seen == {i \in Id : rs[i] # None /\ rs[i].active}
    <3>1. /\ s \notin unchecked /\ (s \cap changed[p] = {} \/ s \cap stale[p] = {})
          /\ ~view[p].type.allow_overlap
          /\ ~(made[p] = {} /\ \A i \in s : rs[i].company_id = NoCompany)
          /\ \E i \in s : ~(/\ ranges[i] # None /\ Overlaps(ranges[i], rs[i])
                            /\ SameDates(ranges[i], rs[i]))
      BY DEF Unchecked, SameDates
    <3>2. /\ s \in kSubset(2, seen) /\ s \subseteq seen
          /\ \A i, j \in s : Overlaps(rs[i], rs[j]) /\ rs[i].company_id = rs[j].company_id
      BY DEF Pairs, kSubset
    <3>3. s \cap changed[p] # {}
      <4> SUFFICES ASSUME s \cap changed[p] = {} PROVE FALSE
        OBVIOUS
      <4>1. \A i \in s : i \in Id /\ rs[i] = ranges[i]
        BY <1>4, <3>2
      <4>2. s \in Pairs(ranges)
        BY <3>2, <4>1 DEF Pairs, kSubset
      <4> QED
        BY <3>1, <4>2 DEF IInv, NoOverlap
    <3>4. \A i \in s : /\ i \in Id /\ i # 0 /\ i \notin stale[p] /\ rs[i] = Rows(p)[i]
                       /\ rs[i] # None /\ rs[i].active
      <4>1. 0 \notin Id
        BY DEF Id, DateRangeConstants
      <4>2. s \cap stale[p] = {}
        BY <3>1, <3>3
      <4> QED
        BY <1>1, <1>3, <1>4, <3>2, <4>1, <4>2 DEF SeesRows
    <3>5. CASE Checked(p) /\ Apart(Rows(p), made[p])
      <4>1. PICK i \in s : i \in changed[p]
        BY <3>3
      <4>2. IsFiniteSet(seen)
        <5>1. IsFiniteSet(Id)
          BY FS_Interval DEF Id, DateRangeConstants
        <5> QED
          BY <5>1, FS_Subset
      <4>3. PICK j \in s : j # i
        <5> HIDE DEF seen
        <5> QED
          BY <3>2, <4>2, PairOf
      <4>4. ~Found(Rows(p)[i], Rows(p)[j])
        BY <3>1, <3>4, <3>5, <4>1, <4>3 DEF Checked
      <4>5. /\ Overlaps(Rows(p)[i], Rows(p)[j])
            /\ Rows(p)[i].company_id = Rows(p)[j].company_id
        BY <3>2, <3>4, <4>1, <4>3
      <4>6. rs[i].company_id = NoCompany
        BY <3>4, <4>1, <4>3, <4>4, <4>5 DEF Found
      <4>7. made[p] # {}
        BY <3>1, <3>2, <4>1, <4>6
      <4>8. i \in made[p]
        BY <1>1, <1>3, <4>1, <4>7 DEF Keeps
      <4> QED
        BY <3>4, <3>5, <4>1, <4>3, <4>5, <4>8 DEF Apart
    <3>6. CASE Undated(p)
      <4>1. \A i \in s : ranges[i] # None /\ SameDates(ranges[i], rs[i])
        BY <3>4, <3>6 DEF Undated
      <4>2. \A i \in s : ranges[i].date_start <= ranges[i].date_end
        BY <1>3, <3>4, <4>1 DEF Dated
      <4>3. \A i \in s : Overlaps(ranges[i], rs[i])
        BY <4>1, <4>2 DEF SameDates, Overlaps
      <4> QED
        BY <3>1, <4>1, <4>3
    <3> QED
      BY <1>1, <1>3, <3>5, <3>6 DEF Compares
  <2>2. Pairs(ranges)' = Pairs(rs)
    BY <1>1 DEF Pairs
  <2> QED
    BY <1>1, <2>1, <2>2 DEF NoOverlap
<1>12. RunsCover'
  BY <1>2, NotDone DEF IInv
<1> QED
  BY <1>7, <1>8, <1>9, <1>10, <1>11, <1>12 DEF IInv, Transactions

LEMMA StutterStays ==
  ASSUME IInv, UNCHANGED rangeVars
  PROVE  IInv'
<1>1. TypeOK'
  BY DEF rangeVars, IInv, TypeOK
<1>2. RowsAreSound' /\ NoOverlap'
  BY DEF rangeVars, IInv, RowsAreSound, Dated, NoOverlap, Pairs
<1>3. Transactions'
  BY DEF rangeVars, IInv, Transactions, SeesRows, Keeps, Compares, Checked, Undated, Rows,
         Dated, Apart
<1>4. RunsCover'
  BY DEF rangeVars, IInv, RunsCover, Covered, TooEarly
<1> QED
  BY <1>1, <1>2, <1>3, <1>4 DEF IInv

LEMMA TickStays ==
  ASSUME DateRangeConstants, IInv, tick
  PROVE  IInv'
<1>1. /\ today' = today + 1
      /\ UNCHANGED <<ranges, type, at, view, changed, stale, made, free, edits, unchecked>>
  BY DEF tick
<1>2. TypeOK'
  <2>1. today \in Nat /\ today' \in Nat /\ 0 .. today \subseteq 0 .. today'
    BY <1>1 DEF IInv, TypeOK
  <2>2. view \in [Actor -> [ranges : RowSet, type : Type, today : 0 .. today']]
    <3>1. \A q \in Actor : view[q] \in [ranges : RowSet, type : Type, today : 0 .. today']
      BY <2>1 DEF IInv, TypeOK, RowSet
    <3> QED
      BY <3>1 DEF IInv, TypeOK
  <2> QED
    BY <1>1, <2>1, <2>2 DEF IInv, TypeOK, RowSet
<1>3. RowsAreSound' /\ NoOverlap'
  BY <1>1 DEF IInv, RowsAreSound, Dated, NoOverlap, Pairs
<1>4. Transactions'
  BY <1>1 DEF IInv, Transactions, SeesRows, Keeps, Compares, Checked, Undated, Rows,
              Dated, Apart
<1>5. RunsCover'
  BY <1>1 DEF IInv, RunsCover, Covered, TooEarly
<1> QED
  BY <1>2, <1>3, <1>4, <1>5 DEF IInv
-----------------------------------------------------------------------------
(* What users do *)

LEMMA WriteOthers ==
  ASSUME TypeOK, NEW p \in Actor, NEW S, NEW rs, Write(p, S, rs), Follow(p, S, rs)
  PROVE  Others(p)
<1>1. /\ \A q \in Actor \ {p} : at'[q] = at[q]
      /\ \A q \in Actor \ {p} : view'[q] = view[q]
      /\ \A q \in Actor \ {p} : changed'[q] = changed[q]
  BY DEF Write, TypeOK
<1>2. \A q \in Actor \ {p} : made'[q] = made[q]
  BY DEF Follow, TypeOK
<1> QED
  BY <1>1, <1>2 DEF Others

LEMMA UserWrites ==
  ASSUME DateRangeConstants, IInv, NEW p \in User, NEW S, NEW rs, Write(p, S, rs),
         Follow(p, S, rs)
  PROVE  IInv'
<1>1. p \in Actor /\ p # Cron
  BY DEF Actor, DateRangeConstants
<1>2. Others(p)
  BY <1>1, WriteOthers DEF IInv
<1>3. RunsCover'
  BY <1>1, <1>2, CronStays DEF IInv
<1> QED
  BY <1>1, <1>3, WriteStays

\* The rows that an open transaction sees.
LEMMA Sees ==
  ASSUME DateRangeConstants, IInv, NEW p \in Actor, at[p] = "open"
  PROVE  /\ view[p] \in [ranges : RowSet, type : Type, today : 0 .. today]
         /\ Rows(p) \in RowSet /\ free \in 1 .. MaxRanges + 1 /\ MaxRanges \in Nat
         /\ made[p] = {} /\ Dated(Rows(p))
         /\ \A i \in Id : i >= free => Rows(p)[i] = None
BY DEF IInv, TypeOK, RowSet, Rows, Transactions, SeesRows, Keeps, DateRangeConstants

LEMMA CreateStays ==
  ASSUME DateRangeConstants, IInv, NEW p \in User, create(p)
  PROVE  IInv'
<1>1. PICK from \in Day, days \in 1 .. 2, c \in IF company_id = NoCompany
                                           THEN Company \cup {NoCompany} ELSE {company_id} :
        LET r == [name |-> <<"dates", from, 1>>, date_start |-> from,
                  date_end |-> from + days - 1, company_id |-> c,
                  active |-> view[p].type.active]
        IN /\ free <= MaxRanges
           /\ Write(p, {free}, [view[p].ranges EXCEPT ![free] = r])
           /\ free' = free + 1 /\ UNCHANGED made
  BY DEF create
<1> DEFINE r == [name |-> <<"dates", from, 1>>, date_start |-> from,
                 date_end |-> from + days - 1, company_id |-> c,
                 active |-> view[p].type.active]
           rs == [view[p].ranges EXCEPT ![free] = r]
<1>2. p \in Actor /\ at[p] = "open"
  BY <1>1 DEF Actor, Write
<1>3. /\ view[p] \in [ranges : RowSet, type : Type, today : 0 .. today]
      /\ Rows(p) \in RowSet /\ free \in 1 .. MaxRanges + 1 /\ MaxRanges \in Nat
      /\ \A i \in Id : i >= free => Rows(p)[i] = None
  BY <1>2, Sees
<1>4. r \in DateRange
  <2>1. from \in Nat /\ from + days - 1 \in Nat
    BY DEF Day, DateRangeConstants
  <2>2. c \in Company \cup {NoCompany}
    BY DEF DateRangeConstants
  <2>3. view[p].type.active \in BOOLEAN
    BY <1>3 DEF Type
  <2> QED
    BY <2>1, <2>2, <2>3 DEF DateRange
<1> HIDE DEF r
<1>5. free \in Id /\ free' \in free .. MaxRanges + 1
  BY <1>1, <1>3 DEF Id
<1>6. rs \in RowSet /\ \A i \in Id \ {free} : rs[i] = Rows(p)[i]
  BY <1>3, <1>4, <1>5 DEF RowSet, Rows
<1>7. \A i \in Id : i >= free' => rs[i] = None
  BY <1>1, <1>3, <1>6 DEF Id
<1>8. Follow(p, {free}, rs)
  BY <1>1, <1>5, <1>6, <1>7 DEF Follow
<1> QED
  BY <1>1, <1>8, UserWrites DEF r

LEMMA ChangeStays ==
  ASSUME DateRangeConstants, IInv, NEW p \in User, write(p) \/ unlink(p)
  PROVE  IInv'
<1>1. PICK i \in Seen(p) : \E r :
        /\ r \in DateRange \cup {None} /\ UNCHANGED <<free, made>>
        /\ Write(p, {i}, [view[p].ranges EXCEPT ![i] = r])
  <2>1. CASE unlink(p)
    BY <2>1 DEF unlink
  <2>2. CASE write(p)
    <3>1. PICK i \in Seen(p), from \in Day, to \in Day :
            /\ Write(p, {i}, [view[p].ranges EXCEPT ![i].date_start = from,
                                                    ![i].date_end = to])
            /\ UNCHANGED <<free, made>>
      BY <2>2 DEF write
    <3> DEFINE r == [view[p].ranges[i] EXCEPT !.date_start = from, !.date_end = to]
    <3>2. p \in Actor /\ at[p] = "open"
      BY <3>1 DEF Actor, Write
    <3>3. view[p].ranges \in RowSet /\ i \in Id /\ view[p].ranges[i] \in DateRange
      BY <3>2, Sees DEF Seen, Rows, RowSet
    <3>4. r \in DateRange
      <4>1. from \in Nat /\ to \in Nat
        BY DEF Day, DateRangeConstants
      <4> QED
        BY <3>3, <4>1 DEF DateRange
    <3>5. [view[p].ranges EXCEPT ![i].date_start = from, ![i].date_end = to]
            = [view[p].ranges EXCEPT ![i] = r]
      BY <3>3 DEF RowSet
    <3> QED
      BY <3>1, <3>4, <3>5
  <2> QED
    BY <2>1, <2>2
<1>2. PICK r : /\ r \in DateRange \cup {None} /\ UNCHANGED <<free, made>>
               /\ Write(p, {i}, [view[p].ranges EXCEPT ![i] = r])
  BY <1>1
<1> DEFINE rs == [view[p].ranges EXCEPT ![i] = r]
<1>3. p \in Actor /\ at[p] = "open" /\ i \in Id /\ Rows(p)[i] # None
  BY <1>2 DEF Actor, Write, Seen, Rows
<1>4. /\ Rows(p) \in RowSet /\ free \in 1 .. MaxRanges + 1 /\ MaxRanges \in Nat
      /\ \A j \in Id : j >= free => Rows(p)[j] = None
  BY <1>3, Sees
<1>5. rs \in RowSet /\ \A j \in Id \ {i} : rs[j] = Rows(p)[j]
  BY <1>2, <1>3, <1>4 DEF RowSet, Rows
<1>6. free' \in free .. MaxRanges + 1 /\ \A j \in Id : j >= free' => rs[j] = None
  BY <1>2, <1>3, <1>4, <1>5
<1> HIDE DEF rs
<1>7. Follow(p, {i}, rs)
  BY <1>2, <1>3, <1>5, <1>6 DEF Follow
<1> QED
  BY <1>2, <1>7, UserWrites DEF rs

LEMMA FlagsStay ==
  ASSUME DateRangeConstants, IInv, NEW p \in User,
         set_active(p) \/ _compute_active(p) \/ set_allow_overlap(p)
  PROVE  IInv'
<1>1. p \in Actor /\ p # Cron /\ at[p] = "open"
  BY DEF Actor, DateRangeConstants, set_active, _compute_active, set_allow_overlap, Assign
<1>2. /\ view[p] \in [ranges : RowSet, type : Type, today : 0 .. today]
      /\ view[p].ranges \in RowSet /\ view[p].type \in Type /\ Rows(p) = view[p].ranges
      /\ Seen(p) \subseteq Id
  BY <1>1, Sees DEF Rows, Seen
<1>3. \A i \in Id : /\ view[p].ranges[i] # None => view[p].ranges[i] \in DateRange
                    /\ \A b \in BOOLEAN : view[p].ranges[i] # None =>
                         LET r == [view[p].ranges[i] EXCEPT !.active = b] IN
                         /\ r \in DateRange /\ r # None
                         /\ SameDates(view[p].ranges[i], r)
  BY <1>2 DEF RowSet, DateRange, SameDates, DateRangeConstants
<1>4. CASE set_active(p)
  <2>1. PICK i \in Seen(p) :
          Assign(p, {i}, [view[p].ranges EXCEPT ![i].active = ~@], view[p].type)
    BY <1>4 DEF set_active
  <2> DEFINE r == [view[p].ranges[i] EXCEPT !.active = ~view[p].ranges[i].active]
             rs == [view[p].ranges EXCEPT ![i] = r]
  <2>2. i \in Id /\ view[p].ranges[i] # None
    BY DEF Seen
  <2>3. r \in DateRange /\ r # None /\ SameDates(view[p].ranges[i], r)
    <3>1. (~view[p].ranges[i].active) \in BOOLEAN
      OBVIOUS
    <3> QED
      BY <1>3, <2>2, <3>1
  <2>4. [view[p].ranges EXCEPT ![i].active = ~@] = rs
    BY <1>2, <2>2 DEF RowSet
  <2> HIDE DEF r
  <2>5. /\ rs \in RowSet /\ rs[i] = r
        /\ \A j \in Id \ {i} : rs[j] = view[p].ranges[j]
    BY <1>2, <2>2, <2>3 DEF RowSet
  <2> HIDE DEF rs
  <2>6. SameRows(p, {i}, rs)
    BY <1>2, <2>2, <2>3, <2>5 DEF SameRows, SameDates
  <2> QED
    BY <1>1, <1>2, <2>1, <2>4, <2>6, AssignStays
<1>5. CASE _compute_active(p)
  <2> DEFINE row(i) == [view[p].ranges[i] EXCEPT !.active = ~view[p].type.active]
             rs == [i \in Id |-> IF i \in Seen(p) THEN row(i) ELSE None]
             t == [view[p].type EXCEPT !.active = ~@]
  <2>1. Assign(p, Seen(p) \cup {0}, rs, t) /\ t \in Type
    BY <1>2, <1>5 DEF _compute_active, Type
  <2>2. \A i \in Seen(p) : /\ row(i) \in DateRange /\ row(i) # None
                           /\ SameDates(view[p].ranges[i], row(i))
    <3>1. (~view[p].type.active) \in BOOLEAN
      OBVIOUS
    <3> QED
      BY <1>3, <3>1 DEF Seen
  <2> HIDE DEF row
  <2>3. /\ rs \in RowSet
        /\ \A i \in Id : rs[i] = IF i \in Seen(p) THEN row(i) ELSE None
    BY <2>2 DEF RowSet
  <2> HIDE DEF rs, t
  <2>4. \A i \in Id : i \notin Seen(p) => view[p].ranges[i] = None
    BY DEF Seen
  <2>5. SameRows(p, Seen(p) \cup {0}, rs)
    BY <1>2, <2>2, <2>3, <2>4 DEF SameRows, SameDates, Seen
  <2> QED
    BY <1>1, <2>1, <2>5, AssignStays
<1>6. CASE set_allow_overlap(p)
  <2> DEFINE t == [view[p].type EXCEPT !.allow_overlap = ~@]
  <2>1. Assign(p, {0}, view[p].ranges, t) /\ t \in Type
    BY <1>2, <1>6 DEF set_allow_overlap, Type
  <2>2. SameRows(p, {0}, view[p].ranges)
    BY <1>2 DEF SameRows, SameDates
  <2> HIDE DEF t
  <2> QED
    BY <1>1, <2>1, <2>2, AssignStays
<1> QED
  BY <1>4, <1>5, <1>6
-----------------------------------------------------------------------------
(* Who generates *)

\* The generated rows begin after those that the transaction sees.
LEMMA Generates ==
  ASSUME DateRangeConstants, IInv, NEW p \in Actor, NEW n \in Nat \ {0}, NEW from,
         from = _compute_date_start(Rows(p)), action_apply(p, from, n)
  PROVE  LET new == _generate_date_ranges(from, n, view[p].type)
             S == free .. free + n - 1
             rs == [i \in Id |-> IF i \in S THEN new[i - free + 1] ELSE Rows(p)[i]]
         IN Write(p, S, rs) /\ Follow(p, S, rs) /\ made'[p] = S /\ S \subseteq Id
<1> DEFINE new == _generate_date_ranges(from, n, view[p].type)
           S == free .. free + n - 1
           rs == [i \in Id |-> IF i \in S THEN new[i - free + 1] ELSE Rows(p)[i]]
<1>1. /\ free + n - 1 <= MaxRanges /\ Write(p, S, rs)
      /\ free' = free + n /\ made' = [made EXCEPT ![p] = S]
  BY DEF action_apply, Rows
<1>2. at[p] = "open"
  BY <1>1 DEF Write
<1>3. /\ view[p].type \in Type /\ Rows(p) \in RowSet
      /\ free \in 1 .. MaxRanges + 1 /\ MaxRanges \in Nat
      /\ \A i \in Id : i >= free => Rows(p)[i] = None
  BY <1>2, Sees
<1>4. /\ from \in Nat
      /\ \A i \in Id : Rows(p)[i] # None /\ Rows(p)[i].active => Rows(p)[i].date_end < from
  BY <1>3, StartFollows
<1>5. /\ \A k \in 1 .. n : /\ new[k] \in DateRange /\ from <= new[k].date_start
                           /\ new[k].date_start <= new[k].date_end
      /\ \A k, l \in 1 .. n : k < l => new[k].date_end < new[l].date_start
  BY <1>3, <1>4, Generated
<1> HIDE DEF new
<1>6. /\ S \subseteq Id /\ \A i \in S : i < free' /\ i - free + 1 \in 1 .. n
      /\ free' \in free .. MaxRanges + 1 /\ \A i \in Id : i >= free' => i \notin S /\ i >= free
  BY <1>1, <1>3 DEF Id
<1>7. /\ \A i \in S : i \in Id /\ rs[i] = new[i - free + 1] /\ rs[i] \in DateRange
      /\ \A i \in Id \ S : rs[i] = Rows(p)[i]
      /\ rs \in RowSet
  BY <1>3, <1>5, <1>6 DEF RowSet
<1>8. made'[p] = S
  BY <1>1 DEF IInv, TypeOK
<1>9. Apart(rs, S)
  <2> SUFFICES ASSUME NEW i \in S, NEW j \in Id, i # j, rs[j] # None, rs[j].active
               PROVE  ~Overlaps(rs[i], rs[j])
    BY DEF Apart
  <2>1. /\ i \in Int /\ j \in Int /\ free \in Int /\ i - free + 1 \in 1 .. n
        /\ rs[i] = new[i - free + 1]
    BY <1>3, <1>6, <1>7 DEF Id
  <2>2. rs[i].date_start \in Nat /\ rs[i].date_end \in Nat
    BY <1>7 DEF DateRange
  <2>3. CASE j \in S
    <3>1. rs[j] = new[j - free + 1] /\ j - free + 1 \in 1 .. n
      BY <1>6, <1>7, <2>3
    <3>2. rs[j].date_start \in Nat /\ rs[j].date_end \in Nat
      BY <1>7, <2>3 DEF DateRange
    <3>3. CASE i < j
      <4>1. i - free + 1 < j - free + 1
        BY <2>1, <3>3
      <4>2. rs[i].date_end < rs[j].date_start
        BY <1>5, <2>1, <3>1, <4>1
      <4> QED
        BY <2>2, <3>2, <4>2 DEF Overlaps
    <3>4. CASE j < i
      <4>1. j - free + 1 < i - free + 1
        BY <2>1, <3>4
      <4>2. rs[j].date_end < rs[i].date_start
        BY <1>5, <2>1, <3>1, <4>1
      <4> QED
        BY <2>2, <3>2, <4>2 DEF Overlaps
    <3> QED
      BY <2>1, <3>3, <3>4
  <2>4. CASE j \notin S
    <3>1. rs[j] \in DateRange /\ rs[j].date_end < from
      BY <1>3, <1>4, <1>7, <2>4 DEF RowSet
    <3>2. rs[j].date_end \in Nat /\ from <= rs[i].date_start
      BY <1>5, <2>1, <3>1 DEF DateRange
    <3> QED
      BY <1>4, <2>2, <3>1, <3>2 DEF Overlaps
  <2> QED
    BY <2>3, <2>4
<1> HIDE DEF S, rs
<1>10. \A i \in Id : i >= free' => rs[i] = None
  BY <1>3, <1>6, <1>7
<1>11. Follow(p, S, rs)
  BY <1>1, <1>6, <1>7, <1>9, <1>10 DEF Follow
<1> QED
  BY <1>1, <1>6, <1>8, <1>11 DEF S, rs, new

LEMMA GenerateStays ==
  ASSUME DateRangeConstants, IInv, NEW p \in User, generate(p)
  PROVE  IInv'
<1>1. PICK n \in 1 .. 2 : action_apply(p, _compute_date_start(Rows(p)), n)
  BY DEF generate, Rows
<1> DEFINE from == _compute_date_start(Rows(p))
           new == _generate_date_ranges(from, n, view[p].type)
           S == free .. free + n - 1
           rs == [i \in Id |-> IF i \in S THEN new[i - free + 1] ELSE Rows(p)[i]]
<1>2. p \in Actor /\ n \in Nat \ {0}
  BY DEF Actor
<1> HIDE DEF from
<1>3. Write(p, S, rs) /\ Follow(p, S, rs)
  BY <1>1, <1>2, Generates DEF from
<1> HIDE DEF S, rs
<1> QED
  BY <1>3, UserWrites

\* What the scheduled task reaches when it generates, and why it may not need to.
LEMMA AutogenerateStays ==
  ASSUME DateRangeConstants, IInv, autogenerate_ranges(Cron)
  PROVE  IInv'
<1> DEFINE from == _compute_date_start(Rows(Cron))
           until == _compute_date_end(view[Cron].today)
           n == _generate_intervals(from, until)
           new == _generate_date_ranges(from, n, view[Cron].type)
           S == free .. free + n - 1
           rs == [i \in Id |-> IF i \in S THEN new[i - free + 1] ELSE Rows(Cron)[i]]
<1>1. /\ IF view[Cron].type.active /\ until > from
         THEN action_apply(Cron, from, n)
         ELSE Write(Cron, {}, Rows(Cron)) /\ UNCHANGED <<free, made>>
      /\ Cron \in Actor
  BY DEF autogenerate_ranges, Rows, Actor
<1>2. at[Cron] = "open"
  BY <1>1 DEF action_apply, Write
<1>3. /\ view[Cron] \in [ranges : RowSet, type : Type, today : 0 .. today]
      /\ Rows(Cron) \in RowSet /\ free \in 1 .. MaxRanges + 1 /\ MaxRanges \in Nat
      /\ made[Cron] = {} /\ view[Cron].type \in Type
      /\ \A i \in Id : i >= free => Rows(Cron)[i] = None
  BY <1>1, <1>2, Sees
<1>4. /\ from \in Nat
      /\ IF Last(Rows(Cron)) = {} THEN from = autogeneration_date_start
         ELSE \E i \in Id : /\ Rows(Cron)[i] # None /\ Rows(Cron)[i].active
                            /\ Rows(Cron)[i].date_end = from - 1
  BY <1>3, StartFollows
<1>5. until = view[Cron].today + horizon /\ until \in Nat /\ view[Cron].today \in Nat
      /\ horizon \in Nat
  BY <1>3 DEF _compute_date_end, DateRangeConstants, IInv, TypeOK
<1> HIDE DEF from, until
<1>6. CASE view[Cron].type.active /\ until > from
  <2>1. n \in Nat \ {0} /\ until - from < n * step
    <3>1. until - from \in Nat /\ step \in Nat \ {0}
      BY <1>4, <1>5, <1>6 DEF DateRangeConstants
    <3>2. n = (until - from) \div step + 1
      BY DEF _generate_intervals
    <3> HIDE DEF n
    <3>3. (until - from) \div step \in Nat /\ until - from < n * step
      BY <3>1, <3>2, Division
    <3> QED
      BY <3>2, <3>3
  <2> HIDE DEF n
  <2>2. Write(Cron, S, rs) /\ Follow(Cron, S, rs) /\ made'[Cron] = S /\ S \subseteq Id
    BY <1>1, <1>6, <2>1, Generates DEF from
  <2>3. /\ \A k \in 1 .. n : new[k] \in DateRange /\ new[k].active = view[Cron].type.active
        /\ new[1].date_start = from
        /\ \A k \in 2 .. n : new[k - 1].date_end = new[k].date_start - 1
        /\ new[n].date_end = from + n * step - 1 /\ new[n] \in DateRange
    BY <1>3, <1>4, <2>1, Generated
  <2> HIDE DEF new
  <2>4. /\ \A i \in S : rs[i] = new[i - free + 1]
        /\ \A i \in Id \ S : rs[i] = Rows(Cron)[i]
        /\ \A i \in Id : i \in Int /\ (i < free => i \notin S)
        /\ free \in Int
    BY <1>3, <2>2 DEF Id
  <2>5. RunsCover'
    <3> SUFFICES ASSUME at'[Cron] = "done" PROVE RunsCover'
      BY DEF RunsCover
    <3>1. view' = [view EXCEPT ![Cron].ranges = rs]
      BY <1>1, <2>2 DEF Write, IInv, TypeOK
    <3>2. view'[Cron].ranges = rs /\ view'[Cron].today = view[Cron].today
      BY <1>1, <1>3, <3>1 DEF IInv, TypeOK
    <3>3. Covered(view'[Cron])
      <4> DEFINE last == free + n - 1
      <4>1. last \in S /\ last - free + 1 = n /\ n \in 1 .. n
        BY <1>3, <2>1
      <4>2. last \in Id /\ rs[last] = new[n] /\ rs[last] # None /\ rs[last].active
        BY <1>6, <2>2, <2>3, <2>4, <4>1 DEF DateRangeConstants
      <4>3. rs[last].date_end = from + n * step - 1 /\ rs[last].date_end \in Nat
        BY <2>3, <4>2 DEF DateRange
      <4>4. n * step \in Nat
        BY <2>1, Monotone DEF DateRangeConstants
      <4>5. rs[last].date_end >= view[Cron].today + horizon - 1
        BY <1>4, <1>5, <2>1, <4>3, <4>4
      <4> QED
        BY <3>2, <4>2, <4>5 DEF Covered
    <3>4. ASSUME NEW i \in S
          PROVE  \/ rs[i].date_start = autogeneration_date_start
                 \/ \E j \in Id \ {i} : rs[j] # None /\ rs[j].date_end = rs[i].date_start - 1
      <4>1. CASE i = free
        <5>1. rs[i].date_start = from
          BY <2>3, <2>4, <4>1
        <5>2. CASE Last(Rows(Cron)) # {}
          <6>1. PICK j \in Id : Rows(Cron)[j] # None /\ Rows(Cron)[j].date_end = from - 1
            BY <1>4, <5>2
          <6>2. j < free
            BY <1>3, <2>4, <6>1
          <6>3. j \notin S /\ j # i /\ rs[j] = Rows(Cron)[j]
            BY <2>4, <6>2
          <6> QED
            BY <5>1, <6>1, <6>3
        <5> QED
          BY <1>4, <5>1, <5>2
      <4>2. CASE i # free
        <5>1. /\ i - 1 \in S /\ i - 1 \in Id /\ i - 1 # i /\ i - free + 1 \in 2 .. n
              /\ (i - 1) - free + 1 = (i - free + 1) - 1 /\ (i - free + 1) - 1 \in 1 .. n
          BY <1>3, <2>1, <2>2, <4>2
        <5>2. rs[i - 1].date_end = rs[i].date_start - 1
          BY <2>3, <2>4, <5>1
        <5>3. (i - 1) - free + 1 \in 1 .. n
          BY <5>1
        <5>4. rs[i - 1] # None
          BY <2>3, <2>4, <5>1 DEF DateRangeConstants
        <5> QED
          BY <5>1, <5>2, <5>4
      <4> QED
        BY <4>1, <4>2
    <3> HIDE DEF rs, S
    <3> QED
      BY <2>2, <3>2, <3>3, <3>4 DEF RunsCover
  <2> HIDE DEF rs, S
  <2> QED
    BY <1>1, <2>2, <2>5, WriteStays
<1>7. CASE ~(view[Cron].type.active /\ until > from)
  <2>1. Write(Cron, {}, Rows(Cron)) /\ UNCHANGED <<free, made>>
    BY <1>1, <1>7
  <2>2. Follow(Cron, {}, Rows(Cron))
    BY <1>3, <2>1 DEF Follow
  <2>3. RunsCover'
    <3> SUFFICES ASSUME at'[Cron] = "done", view'[Cron].type.active PROVE RunsCover'
      BY DEF RunsCover
    <3>1. view' = [view EXCEPT ![Cron].ranges = Rows(Cron)] /\ made' = made
      BY <1>1, <2>1 DEF Write, IInv, TypeOK
    <3>2. /\ view'[Cron].ranges = Rows(Cron) /\ view'[Cron].today = view[Cron].today
          /\ view'[Cron].type = view[Cron].type /\ made'[Cron] = {}
      BY <1>1, <1>3, <3>1 DEF IInv, TypeOK
    <3>3. from >= until
      BY <1>4, <1>5, <1>7, <3>2
    <3>4. CASE Last(Rows(Cron)) = {}
      BY <1>4, <1>5, <3>2, <3>3, <3>4 DEF RunsCover, TooEarly
    <3>5. CASE Last(Rows(Cron)) # {}
      <4>1. PICK i \in Id : /\ Rows(Cron)[i] # None /\ Rows(Cron)[i].active
                            /\ Rows(Cron)[i].date_end = from - 1
        BY <1>4, <3>5
      <4>2. Rows(Cron)[i].date_end >= view[Cron].today + horizon - 1
        BY <1>4, <1>5, <3>3, <4>1
      <4> QED
        BY <3>2, <4>1, <4>2 DEF RunsCover, Covered
    <3> QED
      BY <3>4, <3>5
  <2> QED
    BY <1>1, <2>1, <2>2, <2>3, WriteStays
<1> QED
  BY <1>6, <1>7
-----------------------------------------------------------------------------
(* Theorems *)

LEMMA Initially ==
  ASSUME DateRangeConstants, Init
  PROVE  IInv
<1>1. 1 \in 1 .. MaxRanges + 1 /\ 0 \in 0 .. MaxEdits /\ 0 \in 0 .. today
  BY DEF DateRangeConstants, Init
<1>2. Nothing \in [ranges : RowSet, type : Type, today : 0 .. today]
  BY <1>1 DEF Nothing, RowSet, Type
<1>3. TypeOK
  BY <1>1, <1>2 DEF Init, TypeOK, RowSet, Nothing
<1>4. RowsAreSound
  BY DEF Init, RowsAreSound, Dated
<1>5. Transactions
  BY DEF Init, Transactions, SeesRows, Keeps, Compares, Rows, Dated, Nothing
<1>6. NoOverlap
  <2> SUFFICES ASSUME NEW s \in Pairs(ranges) PROVE FALSE
    BY DEF NoOverlap
  <2>1. {i \in Id : ranges[i] # None /\ ranges[i].active} = {}
    BY DEF Init
  <2>2. s = {} /\ Cardinality(s) = 2
    BY <2>1 DEF Pairs, kSubset
  <2> QED
    BY <2>2, FS_EmptySet
<1>7. RunsCover
  BY DEF Init, RunsCover, Actor
<1> QED
  BY <1>3, <1>4, <1>5, <1>6, <1>7 DEF IInv

LEMMA NextStays ==
  ASSUME DateRangeConstants, IInv, [Next]_rangeVars
  PROVE  IInv'
<1>1. CASE UNCHANGED rangeVars
  BY <1>1, StutterStays
<1>2. CASE \E p \in Actor : begin(p) \/ commit(p) \/ rollback(p)
  BY <1>2, BeginStays, CommitStays, RollbackStays
<1>3. CASE autogenerate_ranges(Cron)
  BY <1>3, AutogenerateStays
<1>4. CASE tick
  BY <1>4, TickStays
<1>5. ASSUME NEW p \in User, create(p) \/ write(p) \/ unlink(p) \/ generate(p)
      PROVE  IInv'
  BY <1>5, CreateStays, ChangeStays, GenerateStays
<1>6. ASSUME NEW p \in User, set_active(p) \/ _compute_active(p) \/ set_allow_overlap(p)
      PROVE  IInv'
  BY <1>6, FlagsStay
<1> QED
  BY <1>1, <1>2, <1>3, <1>4, <1>5, <1>6, Zenon DEF Next

\* The rows, the transactions and what they have compared, in every state: IInv.
THEOREM Invariance ==
  ASSUME DateRangeConstants
  PROVE  Spec => []IInv
<1>1. Init => IInv
  BY Initially
<1>2. IInv /\ [Next]_rangeVars => IInv'
  BY NextStays
<1> QED
  BY <1>1, <1>2, PTL DEF Spec

\* The variables have their types: date_range.py and date_range_type.py.
THEOREM TypeCorrectness ==
  ASSUME DateRangeConstants
  PROVE  Spec => []TypeOK
<1>1. IInv => TypeOK
  BY DEF IInv
<1> QED
  BY <1>1, Invariance, PTL

\* date_range.py:92, _validate_range: two active ranges of a company overlap only when no
\* check has compared them, whoever wrote them, in whatever order they were committed.
THEOREM OverlapsAreUnchecked ==
  ASSUME DateRangeConstants
  PROVE  Spec => []NoOverlap
<1>1. IInv => NoOverlap
  BY DEF IInv
<1> QED
  BY <1>1, Invariance, PTL

\* date_range_generator.py, autogenerate_ranges: the scheduled task covers an active type
\* up to its horizon, and leaves no gap before a range that it makes.
THEOREM RunsAreCovered ==
  ASSUME DateRangeConstants
  PROVE  Spec => []RunsCover
<1>1. IInv => RunsCover
  BY DEF IInv
<1> QED
  BY <1>1, Invariance, PTL
=============================================================================
