------------------------------ MODULE AuditLogs ------------------------------
(***************************************************************************)
(* The audited methods of auditlog_rule.py at work on one model: what one  *)
(* transaction writes to the audit log while audited methods call one      *)
(* another.  A call is a frame of the stack; between its start and its end *)
(* the original method takes effect and calls other audited methods.       *)
(* Calls that fail are left out: they take the transaction with them.      *)
(***************************************************************************)
EXTENDS Naturals, Sequences, SequencesExt, FiniteSets

CONSTANTS Rec, Existing,   \* records of the model, those that exist at first
          Field, Hidden,   \* its stored fields, those that are never logged
          Val, False,      \* values, the one that stands for no value
          None,            \* the state of a record that does not exist
          LogType,         \* "full" or "fast"
          capture_record,  \* the rule keeps the values of removed records
          MaxCalls, MaxDepth

AuditLogConstants ==
    /\ IsFiniteSet(Rec) /\ None \notin [Field -> Val]
    /\ Existing \subseteq Rec /\ Hidden \subseteq Field /\ False \in Val
    /\ LogType \in {"full", "fast"} /\ capture_record \in BOOLEAN
    /\ MaxCalls \in Nat /\ MaxDepth \in Nat

VARIABLES db,         \* the records, as the transaction sees them
          used,       \* records that exist or have existed
          stack,      \* the calls under way, the innermost last
          guard,      \* auditlog_guard: the record sets being written
          logs,       \* what create_logs has logged
          excluded,   \* the user is one whose changes are not logged
          unlogged,   \* history: fields whose last change no log tells
          calls

auditLogVars == <<db, used, stack, guard, logs, excluded, unlogged, calls>>

Values == UNION {[S -> Val] : S \in SUBSET Field}
Frame == [op : {"create", "write", "unlink"}, recs : SUBSET Rec, vals : Values,
          old : [Rec -> [Field -> Val] \cup {None}],
          since : Nat,         \* how many logs there were when it began
          silent : BOOLEAN,    \* a guarded write: only the original is called
          done : BOOLEAN]      \* the original method has taken effect

TypeOK == /\ db \in [Rec -> [Field -> Val] \cup {None}]
          /\ used = {r \in Rec : db[r] # None} \cup used /\ used \subseteq Rec
          /\ \A i \in DOMAIN stack : stack[i] \in Frame
          /\ \A i \in DOMAIN stack : stack[i].op = "write" /\ LogType = "full"
                                       => stack[i].recs \in guard
          /\ stack = <<>> => guard = {}
          /\ \A i \in DOMAIN logs : DOMAIN logs[i].lines \subseteq Field \ Hidden
          /\ excluded \in BOOLEAN /\ unlogged \subseteq Rec \X Field
          /\ calls \in 0 .. MaxCalls

Init == /\ db = [r \in Rec |-> IF r \in Existing THEN [f \in Field |-> False] ELSE None]
        /\ used = Existing /\ stack = <<>> /\ guard = {} /\ logs = <<>>
        /\ excluded = FALSE /\ unlogged = {} /\ calls = 0

-----------------------------------------------------------------------------
\* create_logs

DictDiffer_changed(new, old) ==
    {f \in DOMAIN new \cap DOMAIN old : new[f] # old[f]}

Lines(fields, old, new) ==
    [f \in fields \ Hidden |->
        [old |-> IF f \in DOMAIN old THEN old[f] ELSE False,
         new |-> IF f \in DOMAIN new THEN new[f] ELSE False]]
_create_log_line_on_create(new) == Lines(DOMAIN new, <<>>, new)
_create_log_line_on_read(old) == Lines(DOMAIN old, old, <<>>)
_create_log_line_on_write(old, new) == Lines(DictDiffer_changed(new, old), old, new)

\* One log for each record that has lines; a removal is logged without any.
create_logs(recs, method, lines) ==
    LET logged == {r \in recs : method = "unlink" \/ DOMAIN lines[r] # {}} IN
    IF excluded THEN logs
    ELSE logs \o [i \in 1 .. Cardinality(logged) |->
                   LET r == SetToSeq(logged)[i] IN
                   [method |-> method, res_id |-> r, lines |-> lines[r]]]

\* The fast log knows no old values: all of them are False.
Old(frame, r) == IF LogType = "full" THEN frame.old[r]
                 ELSE [f \in DOMAIN frame.vals |-> False]
New(frame, r) == IF LogType = "full" THEN db[r] ELSE frame.vals

-----------------------------------------------------------------------------
\* The audited methods: a call begins, takes effect, ends

Open == UNION {stack[i].recs : i \in DOMAIN stack}

Push(op, recs, vals, silent) ==
    /\ calls < MaxCalls /\ Len(stack) < MaxDepth
    /\ stack' = Append(stack, [op |-> op, recs |-> recs, vals |-> vals, old |-> db,
                               since |-> Len(logs), silent |-> silent, done |-> FALSE])
    /\ calls' = calls + 1

create(r, vals) ==
    /\ r \notin used
    /\ Push("create", {r}, vals, FALSE)
    /\ used' = used \cup {r}
    /\ UNCHANGED <<db, guard, logs, excluded, unlogged>>

\* A full log is not made for a set of records that is being written already.
\* The guard is one set for the outermost write and all that it calls: an entry
\* stays in it after its write has ended.
Guarded_mutant(recs) == \E s \in guard : recs \cap s # {}
Guarded(recs) == recs \in guard

write(recs, vals) ==
    LET silent == LogType = "full" /\ Guarded(recs) IN
    /\ \A r \in recs : db[r] # None
    /\ Push("write", recs, vals, silent)
    /\ guard' = IF LogType = "full" /\ ~silent THEN guard \cup {recs} ELSE guard
    /\ UNCHANGED <<db, used, logs, excluded, unlogged>>

\* The log of a removal is made before the removal.
unlink(recs) ==
    /\ \A r \in recs : db[r] # None
    /\ recs \cap Open = {}
    /\ Push("unlink", recs, <<>>, FALSE)
    /\ logs' = create_logs(recs, "unlink", [r \in recs |->
                  _create_log_line_on_read(IF capture_record /\ LogType = "full"
                                           THEN db[r] ELSE <<>>)])
    /\ UNCHANGED <<db, used, guard, excluded, unlogged>>

\* read and export_data call nothing that is audited.  What an audited method
\* reads on its way is not logged: auditlog_disabled_read.
read(recs, fields) ==
    /\ calls < MaxCalls /\ calls' = calls + 1
    /\ \A r \in recs : db[r] # None
    /\ logs' = IF stack # <<>> THEN logs
               ELSE create_logs(recs, "read", [r \in recs |->
                       _create_log_line_on_read([f \in fields |-> db[r][f]])])
    /\ UNCHANGED <<db, used, stack, guard, excluded, unlogged>>

export_data(recs) ==
    /\ calls < MaxCalls /\ calls' = calls + 1
    /\ logs' = IF excluded THEN logs
               ELSE Append(logs, [method |-> "export_data", res_id |-> recs, lines |-> <<>>])
    /\ UNCHANGED <<db, used, stack, guard, excluded, unlogged>>

-----------------------------------------------------------------------------

Top == stack[Len(stack)]
Applied(r) == [f \in Field |-> IF f \in DOMAIN Top.vals THEN Top.vals[f]
                               ELSE IF db[r] = None THEN False ELSE db[r][f]]

\* A call below the innermost one that will log what becomes of r.
WillLog(r) == \E i \in DOMAIN stack : /\ r \in stack[i].recs /\ ~stack[i].silent
                                      /\ stack[i].op \in {"create", "write"}
Told(r, f, from) == \E i \in from + 1 .. Len(logs) :
                       logs[i].res_id = r /\ f \in DOMAIN logs[i].lines

\* The original method: the records are created, written or removed.
origin ==
    /\ stack # <<>> /\ ~Top.done
    /\ stack' = [stack EXCEPT ![Len(stack)].done = TRUE]
    /\ db' = [r \in Rec |-> IF r \notin Top.recs THEN db[r]
                            ELSE IF Top.op = "unlink" THEN None ELSE Applied(r)]
    /\ unlogged' = unlogged \cup
          {p \in Top.recs \X DOMAIN Top.vals :
              /\ db[p[1]] # None /\ db[p[1]][p[2]] # Top.vals[p[2]]
              /\ Top.recs \in guard /\ ~WillLog(p[1])}
    /\ UNCHANGED <<used, guard, logs, excluded, calls>>

\* The call ends: a write that is not guarded and a creation are logged.
return ==
    LET rest == Front(stack)
        lines == [r \in Top.recs |->
                     IF Top.op = "write"
                     THEN _create_log_line_on_write(Old(Top, r), New(Top, r))
                     ELSE _create_log_line_on_create(New(Top, r))]
    IN
    /\ stack # <<>> /\ Top.done
    /\ stack' = rest
    /\ guard' = IF \E i \in DOMAIN rest : rest[i].op = "write" THEN guard ELSE {}
    /\ IF Top.silent \/ Top.op = "unlink" THEN UNCHANGED <<logs, unlogged>>
       ELSE /\ logs' = create_logs(Top.recs, Top.op, lines)
            /\ unlogged' = {p \in Rec \X Field :
                  IF p[1] \in Top.recs /\ p[2] \in DOMAIN lines[p[1]] THEN FALSE
                  ELSE \/ p \in unlogged
                       \/ p[1] \in Top.recs /\ Told(p[1], p[2], Top.since)}
    /\ UNCHANGED <<db, used, excluded, calls>>

\* The next request is that of a user whose changes are not logged.
other_user == /\ stack = <<>> /\ ~excluded
              /\ excluded' = TRUE
              /\ UNCHANGED <<db, used, stack, guard, logs, unlogged, calls>>

Next == \/ \E r \in Rec, vals \in Values : create(r, vals)
        \/ \E recs \in (SUBSET Rec) \ {{}} :
              \/ \E vals \in Values \ {<<>>} : write(recs, vals)
              \/ unlink(recs)
              \/ \E fields \in SUBSET Field : read(recs, fields)
              \/ export_data(recs)
        \/ origin \/ return \/ other_user

Spec == Init /\ [][Next]_auditLogVars
-----------------------------------------------------------------------------
\* The lines of the log about a field of a record, and the value it has last.
Told_at(r, f) == {i \in DOMAIN logs : /\ logs[i].res_id = r /\ logs[i].method # "read"
                                      /\ logs[i].method # "unlink"
                                      /\ f \in DOMAIN logs[i].lines}
Logged(r, f) == LET I == Told_at(r, f) IN
                IF I = {} THEN False
                ELSE logs[CHOOSE i \in I : \A j \in I : j <= i].lines[f].new

\* When no audited call is under way the full log tells the value of every field
\* of every record, by its last line about it, however the calls were nested.
\* The exceptions, in `unlogged`: a field written again, in the same outermost
\* write, by a call on records whose write has ended; a field that nested calls
\* on other sets of records logged, and that ends as the outer write found it.
LogsTellTheValues ==
    stack = <<>> /\ LogType = "full" /\ ~excluded =>
       \A r \in Rec, f \in Field \ Hidden :
          db[r] # None /\ <<r, f>> \notin unlogged => Logged(r, f) = db[r][f]
=============================================================================
