----------------------------- MODULE DateRanges -----------------------------
(***************************************************************************)
(* Date ranges of one type: date_range.py, date_range_type.py and the      *)
(* wizard date_range_generator.py.  Users and the scheduled task work in   *)
(* transactions that do not see one another.  Dates are days; the unit of  *)
(* time and the duration of the type make one step of `step` days.         *)
(***************************************************************************)
EXTENDS Integers, FiniteSets, FiniteSetsExt

CONSTANTS User, Cron,
          Company, NoCompany, company_id,    \* companies, that of the type or none
          step, horizon,                     \* days of a range, of the autogeneration
          autogeneration_date_start,
          by_prefix,                         \* names: a prefix and an index, or the dates
          None, Edits,                       \* what users do
          MaxRanges, MaxDay, MaxEdits

Actor == User \cup {Cron}
Id == 1 .. MaxRanges
Day == 0 .. MaxDay
DateRange == [name : {"index", "dates"} \X Nat \X {1, 2}, date_start : Nat,
              date_end : Nat,
              company_id : Company \cup {NoCompany}, active : BOOLEAN]
Type == [active : BOOLEAN, allow_overlap : BOOLEAN]

DateRangeConstants ==
    /\ company_id \in Company \cup {NoCompany} /\ NoCompany \notin Company
    /\ step \in Nat \ {0} /\ horizon \in Nat \ {0} /\ autogeneration_date_start \in Nat
    /\ by_prefix \in BOOLEAN /\ {MaxRanges, MaxDay, MaxEdits} \subseteq Nat
    /\ Edits \subseteq {"create", "write", "unlink", "active", "type", "generate"}
    /\ Cron \notin User /\ None \notin DateRange

VARIABLES ranges,     \* the committed ranges
          type,       \* the committed flags of the type
          today,
          at,         \* "idle", "open", "done" or "failed" (before the commit or rollback)
          view,       \* what a transaction sees: ranges, type, today
          changed,    \* the rows it has changed; 0 is the type
          stale,      \* the rows that others have committed since it began
          made,       \* the ranges that it has created
          free,       \* the next id
          edits,      \* transactions of users
          unchecked   \* history: overlapping pairs that no check has compared

rangeVars == <<ranges, type, today, at, view, changed, stale, made, free, edits, unchecked>>

TypeOK == /\ ranges \in [Id -> DateRange \cup {None}] /\ type \in Type /\ today \in Nat
          /\ at \in [Actor -> {"idle", "open", "done", "failed"}]
          /\ view \in [Actor -> [ranges : [Id -> DateRange \cup {None}], type : Type,
                               today : 0 .. today]]
          /\ changed \in [Actor -> SUBSET (Id \cup {0})]
          /\ stale \in [Actor -> SUBSET (Id \cup {0})]
          /\ made \in [Actor -> SUBSET Id] /\ free \in 1 .. MaxRanges + 1
          /\ edits \in 0 .. MaxEdits
          /\ \A p \in Actor : made[p] \subseteq 1 .. free - 1
          /\ unchecked \subseteq kSubset(2, Id)

Nothing == [ranges |-> [i \in Id |-> None], today |-> 0,
            type |-> [active |-> TRUE, allow_overlap |-> FALSE]]
Init == /\ ranges = [i \in Id |-> None]
        /\ type = Nothing.type /\ today = 0
        /\ at = [p \in Actor |-> "idle"]
        /\ view = [p \in Actor |-> Nothing]
        /\ changed = [p \in Actor |-> {}] /\ stale = [p \in Actor |-> {}]
        /\ made = [p \in Actor |-> {}] /\ free = 1 /\ edits = 0 /\ unchecked = {}

-----------------------------------------------------------------------------

Overlaps(r, s) == r.date_start <= s.date_end /\ s.date_start <= r.date_end

\* No company is equal to no company for the SQL query: it finds nothing then.
Found_mutant(r, s) == FALSE
Found(r, s) == /\ s # None /\ s.active /\ Overlaps(r, s)
               /\ s.company_id = r.company_id /\ r.company_id # NoCompany
_validate_range(i, rs, t) ==
    /\ rs[i].date_start <= rs[i].date_end
    /\ t.allow_overlap \/ \A j \in Id \ {i} : ~Found(rs[i], rs[j])

\* unique (name, type_id, company_id); names of no company are all distinct.
Same(r, s) == /\ s # None /\ s.name = r.name
              /\ s.company_id = r.company_id /\ r.company_id # NoCompany
_date_range_uniq(i, rs) == \A j \in Id \ {i} : ~Same(rs[i], rs[j])

\* The names that others have in uncommitted rows: an insertion waits for them.
Waits(p, r) == \E q \in Actor \ {p} : at[q] = "done" /\ \E j \in changed[q] \ {0} :
                  Same(r, view[q].ranges[j])

Valid(p, S, rs) ==
    \A i \in S : /\ _validate_range(i, rs, view[p].type)
                 /\ _date_range_uniq(i, rs) /\ _date_range_uniq(i, [ranges EXCEPT ![i] = rs[i]])

\* The ranges rs, in which p has written the rows S; a failure undoes everything.
Write(p, S, rs) ==
    /\ at[p] = "open"
    /\ \A i \in S \ {0} : rs[i] # None => ~Waits(p, rs[i])
    /\ IF Valid(p, {i \in S \ {0} : rs[i] # None}, rs)
       THEN /\ at' = [at EXCEPT ![p] = "done"]
            /\ view' = [view EXCEPT ![p].ranges = rs]
            /\ changed' = [changed EXCEPT ![p] = S]
       ELSE at' = [at EXCEPT ![p] = "failed"] /\ UNCHANGED <<view, changed>>
    /\ UNCHANGED <<ranges, type, today, stale, edits, unchecked>>

-----------------------------------------------------------------------------
\* Generation

\* The last range: archived ones are not seen.
Last(rs) == {r.date_end : r \in {rs[i] : i \in {j \in Id : rs[j] # None /\ rs[j].active}}}
_compute_date_start(rs) ==
    IF Last(rs) # {} THEN Max(Last(rs)) + 1 ELSE autogeneration_date_start
_compute_date_end(day) == day + horizon

\* How many steps begin between two dates, the second one included.
_generate_intervals_mutant(from, until) == (until - from) \div step
_generate_intervals(from, until) == (until - from) \div step + 1

\* The index has as many digits as the number of ranges.
_generate_names(k, n, from) ==
    IF by_prefix THEN <<"index", k, IF n < 10 THEN 1 ELSE 2>> ELSE <<"dates", from, 1>>

_generate_date_ranges(from, n, t) ==
    [k \in 1 .. n |->
        [name |-> _generate_names(k, n, from + (k - 1) * step),
         date_start |-> from + (k - 1) * step, date_end |-> from + k * step - 1,
         company_id |-> company_id, active |-> t.active]]

action_apply(p, from, n) ==
    LET new == _generate_date_ranges(from, n, view[p].type)
        S == free .. free + n - 1
    IN /\ free + n - 1 <= MaxRanges
       /\ Write(p, S, [i \in Id |-> IF i \in S THEN new[i - free + 1] ELSE view[p].ranges[i]])
       /\ free' = free + n /\ made' = [made EXCEPT ![p] = S]

\* The scheduled task generates for an active type, when there is a date to reach.
autogenerate_ranges(p) ==
    LET from == _compute_date_start(view[p].ranges)
        until == _compute_date_end(view[p].today)
    IN IF view[p].type.active /\ until > from
       THEN action_apply(p, from, _generate_intervals(from, until))
       ELSE Write(p, {}, view[p].ranges) /\ UNCHANGED <<free, made>>

-----------------------------------------------------------------------------
\* What users do

create(p) ==
    \E from \in Day, days \in 1 .. 2, c \in IF company_id = NoCompany
                                           THEN Company \cup {NoCompany} ELSE {company_id} :
       LET r == [name |-> <<"dates", from, 1>>, date_start |-> from,
                 date_end |-> from + days - 1, company_id |-> c,
                 active |-> view[p].type.active]
       IN /\ free <= MaxRanges
          /\ Write(p, {free}, [view[p].ranges EXCEPT ![free] = r])
          /\ free' = free + 1 /\ UNCHANGED made

Seen(p) == {i \in Id : view[p].ranges[i] # None}
write(p) == \E i \in Seen(p), from \in Day, to \in Day :
               /\ Write(p, {i}, [view[p].ranges EXCEPT ![i].date_start = from,
                                                       ![i].date_end = to])
               /\ UNCHANGED <<free, made>>
unlink(p) == \E i \in Seen(p) : /\ Write(p, {i}, [view[p].ranges EXCEPT ![i] = None])
                                /\ UNCHANGED <<free, made>>
generate(p) == \E n \in 1 .. 2 : action_apply(p, _compute_date_start(view[p].ranges), n)

\* Rows that are written without a check of the dates.
Assign(p, S, rs, t) == /\ at[p] = "open"
                       /\ at' = [at EXCEPT ![p] = "done"]
                       /\ view' = [view EXCEPT ![p].ranges = rs, ![p].type = t]
                       /\ changed' = [changed EXCEPT ![p] = S]
                       /\ UNCHANGED <<ranges, type, today, stale, made, free, edits, unchecked>>
set_active(p) == \E i \in Seen(p) :
    Assign(p, {i}, [view[p].ranges EXCEPT ![i].active = ~@], view[p].type)
\* _compute_active: the ranges of a type follow it, whatever they were.
_compute_active(p) ==
    Assign(p, Seen(p) \cup {0},
           [i \in Id |-> IF i \in Seen(p)
                         THEN [view[p].ranges[i] EXCEPT !.active = ~view[p].type.active]
                         ELSE None],
           [view[p].type EXCEPT !.active = ~@])
set_allow_overlap(p) ==
    Assign(p, {0}, view[p].ranges, [view[p].type EXCEPT !.allow_overlap = ~@])

-----------------------------------------------------------------------------
\* Odoo: transactions

begin(p) == /\ at[p] = "idle"
            /\ at' = [at EXCEPT ![p] = "open"]
            /\ view' = [view EXCEPT ![p] = [ranges |-> ranges, type |-> type, today |-> today]]
            /\ edits' = IF p \in User THEN edits + 1 ELSE edits
            /\ edits' <= MaxEdits
            /\ UNCHANGED <<ranges, type, today, changed, stale, made, free, unchecked>>

End(p) == /\ at' = [at EXCEPT ![p] = "idle"] /\ view' = [view EXCEPT ![p] = Nothing]
          /\ changed' = [changed EXCEPT ![p] = {}] /\ made' = [made EXCEPT ![p] = {}]

Pairs(rs) == {s \in kSubset(2, {i \in Id : rs[i] # None /\ rs[i].active}) :
                 \A i, j \in s : /\ Overlaps(rs[i], rs[j])
                                 /\ rs[i].company_id = rs[j].company_id}

\* A pair is unchecked when a transaction that did not see one of the two commits
\* the other, when no dates were written, when overlaps are allowed, or when a
\* user writes a range of no company.
Unchecked(p, rs) ==
    {s \in Pairs(rs) :
        \/ s \in unchecked
        \/ s \cap changed[p] # {} /\ s \cap stale[p] # {}
        \/ \A i \in s : ranges[i] # None /\ Overlaps(ranges[i], rs[i])
              /\ ranges[i].date_start = rs[i].date_start /\ ranges[i].date_end = rs[i].date_end
        \/ view[p].type.allow_overlap
        \/ made[p] = {} /\ \A i \in s : rs[i].company_id = NoCompany}

commit(p) ==
    LET rs == [i \in Id |-> IF i \in changed[p] THEN view[p].ranges[i] ELSE ranges[i]] IN
    /\ at[p] = "done" /\ changed[p] \cap stale[p] = {}
    /\ ranges' = rs
    /\ type' = IF 0 \in changed[p] THEN view[p].type ELSE type
    /\ unchecked' = Unchecked(p, rs)
    /\ stale' = [q \in Actor |-> IF q # p /\ at[q] # "idle" THEN stale[q] \cup changed[p]
                                ELSE {}]
    /\ End(p)
    /\ UNCHANGED <<today, free, edits>>

\* After a failure, a conflict or an interruption.
rollback(p) == /\ at[p] \in {"done", "failed"}
               /\ End(p) /\ stale' = [stale EXCEPT ![p] = {}]
               /\ UNCHANGED <<ranges, type, today, free, edits, unchecked>>

tick == /\ today < MaxDay
        /\ today' = today + 1
        /\ UNCHANGED <<ranges, type, at, view, changed, stale, made, free, edits, unchecked>>

Next == \/ \E p \in Actor : begin(p) \/ commit(p) \/ rollback(p)
        \/ autogenerate_ranges(Cron)
        \/ \E p \in User : \/ "create" \in Edits /\ create(p)
                           \/ "write" \in Edits /\ write(p)
                           \/ "unlink" \in Edits /\ unlink(p)
                           \/ "generate" \in Edits /\ generate(p)
                           \/ "active" \in Edits /\ set_active(p)
                           \/ "type" \in Edits /\ (_compute_active(p) \/ set_allow_overlap(p))
        \/ tick

Spec == Init /\ [][Next]_rangeVars
-----------------------------------------------------------------------------
\* Two active ranges of a company, or of none, do not overlap, whoever created,
\* moved, archived or generated them, but for the pairs that no check compares.
NoOverlap == Pairs(ranges) \subseteq unchecked

Covered(v) == \E i \in Id : /\ v.ranges[i] # None /\ v.ranges[i].active
                            /\ v.ranges[i].date_end >= v.today + horizon - 1

\* There is no range yet, and the first one is to begin after the horizon.
TooEarly(v) == Last(v.ranges) = {} /\ autogeneration_date_start >= v.today + horizon

\* A run of the scheduled task that does not fail leaves the type covered up to its
\* horizon, unless it is too early for that, and without a gap: each new range begins
\* the day after another one ends, unless there was none.
RunsCover ==
    at[Cron] = "done" /\ view[Cron].type.active =>
       /\ Covered(view[Cron]) \/ TooEarly(view[Cron])
       /\ \A i \in made[Cron] :
             LET r == view[Cron].ranges[i] IN
             \/ r.date_start = autogeneration_date_start
             \/ \E j \in Id \ {i} : /\ view[Cron].ranges[j] # None
                                    /\ view[Cron].ranges[j].date_end = r.date_start - 1
=============================================================================
