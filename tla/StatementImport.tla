--------------------------- MODULE StatementImport ---------------------------
(***************************************************************************)
(* The import of bank statement files: the wizard account.statement.import *)
(* of account_statement_import_file and the unique import id of            *)
(* account_statement_import_base.  Several users import files at once,     *)
(* each in one transaction of the database; statements may be removed.     *)
(* A parsed file is a sequence of triplets: a currency, an account number  *)
(* and a sequence of statements with their transactions.                   *)
(***************************************************************************)
EXTENDS Integers, Sequences, SequencesExt, FiniteSetsExt

CONSTANTS User, Journal,
          content,      \* the triplets of each file that users import
          search,       \* the journals of an account number, in the search's order
          currency_id,  \* the currency of each journal
          None,
          MaxImports

File == DOMAIN content

\* The sum of the amounts of lines: by position up to n, then of all.
Total(lines) ==
    LET total[n \in Nat] ==
          IF n = 0 THEN 0
          ELSE total[n - 1] + (IF n \in DOMAIN lines THEN lines[n].amount ELSE 0)
    IN total
Sum(lines) == Total(lines)[Max({0} \cup DOMAIN lines)]

\* The statements of the files are consistent.
IsSequence(s) == s \in Seq(Range(s))
Parsed(st) ==
    /\ st.balance_start \in Int \cup {None} /\ st.balance_end_real \in Int
    /\ IsSequence(st.transactions) /\ \A t \in Range(st.transactions) : t.amount \in Int
    /\ st.balance_start # None =>
          st.balance_start + Sum(st.transactions) = st.balance_end_real
ImportConstants ==
    /\ MaxImports \in Nat /\ currency_id \in [Journal -> STRING]
    /\ None \notin Int /\ None \notin Journal
    /\ \A account \in DOMAIN search : search[account] \in Seq(Journal)
    /\ File # {}
    /\ \A f \in File : /\ IsSequence(content[f])
                       /\ \A x \in Range(content[f]) :
                             /\ x.account = None \/ x.account \in DOMAIN search
                             /\ IsSequence(x.statements)
                             /\ \A st \in Range(x.statements) : Parsed(st)

VARIABLES statements,   \* committed bank statements with their lines
          source,       \* journals whose source of statements is the file import
          file, ctx,    \* what a user imports, the journal the wizard started from
          at,           \* "idle", "open", "known" (nothing is new), "failed", "done"
          step,         \* the triplet that is imported next
          snap,         \* the statements that the transaction sees
          seenSource,   \* the journals it sees with that source
          made,         \* the statements that it has created
          removed,      \* history: identified lines removed since it began
          imports

importVars == <<statements, source, file, ctx, at, step, snap, seenSource, made,
                removed, imports>>

Line(l) == DOMAIN l = {"unique_import_id", "amount"} /\ l.amount \in Int
Statement(s) == /\ DOMAIN s = {"journal_id", "balance_start", "balance_end_real", "line_ids"}
                /\ s.journal_id \in Journal /\ s.balance_start \in Int \cup {None}
                /\ DOMAIN s.line_ids # {} /\ \A i \in DOMAIN s.line_ids : Line(s.line_ids[i])

TypeOK == /\ \A i \in DOMAIN statements : Statement(statements[i])
          /\ \A u \in User : \A i \in DOMAIN made[u] : Statement(made[u][i])
          /\ source \subseteq Journal /\ seenSource \in [User -> SUBSET Journal]
          /\ file \in [User -> File] /\ ctx \in [User -> Journal \cup {None}]
          /\ at \in [User -> {"idle", "open", "known", "failed", "done"}]
          /\ \A u \in User : step[u] \in 1 .. Len(content[file[u]]) + 1
          /\ imports \in 0 .. MaxImports

Init == /\ statements = <<>> /\ source = {}
        /\ file = [u \in User |-> CHOOSE f \in File : TRUE]
        /\ ctx = [u \in User |-> None]
        /\ at = [u \in User |-> "idle"] /\ step = [u \in User |-> 1]
        /\ snap = [u \in User |-> <<>>] /\ seenSource = [u \in User |-> {}]
        /\ made = [u \in User |-> <<>>] /\ removed = [u \in User |-> {}]
        /\ imports = 0

-----------------------------------------------------------------------------

\* The identified lines of a sequence of statements.
Keys(s) == (UNION {{s[i].line_ids[j].unique_import_id : j \in DOMAIN s[i].line_ids} :
                      i \in DOMAIN s}) \ {None}

\* The journal is part of the id, and so is the account number if there is one.
unique_import_id(t, journal, account) ==
    IF t.unique_import_id = None THEN None
    ELSE <<account, journal, t.unique_import_id>>

_check_parsed_data_mutant(stmts) == stmts # <<>> /\ stmts[1].transactions # <<>>
_check_parsed_data(stmts) == \E i \in DOMAIN stmts : stmts[i].transactions # <<>>

\* The journal of a triplet, None when the wizard raises an error.
_match_journal(currency, account, journal) ==
    LET found == IF account = None THEN <<journal>> ELSE search[account] IN
    IF \/ found = <<>> \/ Head(found) = None
       \/ journal # None /\ Head(found) # journal
       \/ currency_id[Head(found)] # currency
    THEN None ELSE Head(found)

\* The values of the statements; a line is at the position of its transaction.
_complete_stmts_vals(stmts, journal, account) ==
    [i \in DOMAIN stmts |->
        [journal_id |-> journal, balance_start |-> stmts[i].balance_start,
         balance_end_real |-> stmts[i].balance_end_real,
         line_ids |-> [j \in DOMAIN stmts[i].transactions |->
            [unique_import_id |->
                unique_import_id(stmts[i].transactions[j], journal, account),
             amount |-> stmts[i].transactions[j].amount]]]]

\* The opening balance moves by the transactions that are left out.
Opening_mutant(balance, skipped) == balance
Opening(balance, skipped) ==
    IF balance = None THEN None
    ELSE balance + Sum(skipped)

HasLines_mutant(new) == TRUE
HasLines(new) == new # {}

\* The statements created from the completed values, without the transactions
\* that the database `before` has, those of the statements before included.
Unknown(lines, known) == {j \in DOMAIN lines : lines[j].unique_import_id \notin known}
Created(st, known) ==
    LET new == Unknown(st.line_ids, known) IN
    IF ~HasLines(new) THEN <<>>
    ELSE <<[st EXCEPT !.line_ids = Restrict(@, new),
                      !.balance_start =
                          Opening(@, Restrict(st.line_ids, DOMAIN st.line_ids \ new))]>>
_create_bank_statements(stmts, before) ==
    LET created[i \in 0 .. Len(stmts)] ==
          IF i = 0 THEN <<>>
          ELSE created[i - 1] \o Created(stmts[i], Keys(before) \cup Keys(created[i - 1]))
    IN created[Len(stmts)]

\* The constraint unique(unique_import_id) refuses new lines.
Repeated(s) == \E i \in DOMAIN s : \E j, k \in DOMAIN s[i].line_ids :
                  /\ j # k /\ s[i].line_ids[j].unique_import_id # None
                  /\ s[i].line_ids[j].unique_import_id = s[i].line_ids[k].unique_import_id
Clash(new) == Repeated(new) \/ Keys(new) \cap Keys(statements) # {}

-----------------------------------------------------------------------------
\* What the next triplet of a user comes to

Triplet(u) == content[file[u]][step[u]]
JournalOf(u) == _match_journal(Triplet(u).currency, Triplet(u).account, ctx[u])
NewStatements(u) ==
    LET j == JournalOf(u) IN
    _create_bank_statements(_complete_stmts_vals(Triplet(u).statements, j, Triplet(u).account),
                            snap[u] \o made[u])

\* The rows that a transaction has written: other ones wait for its end.
Sourced(u) == {_match_journal(x.currency, x.account, ctx[u]) :
                  x \in {y \in Range(SubSeq(content[file[u]], 1, step[u] - 1)) :
                            _check_parsed_data(y.statements)}}
Wrote(u) == IF at[u] # "open" THEN {}
            ELSE Keys(made[u]) \cup (Sourced(u) \ seenSource[u])
Writes(u) == Keys(NewStatements(u)) \cup ({JournalOf(u)} \ seenSource[u])
Blocked(u, v) ==
    /\ u # v /\ at[u] = "open" /\ step[u] \in DOMAIN content[file[u]]
    /\ _check_parsed_data(Triplet(u).statements) /\ JournalOf(u) # None
    /\ Writes(u) \cap Wrote(v) # {}

Restart(u) == /\ snap' = [snap EXCEPT ![u] = statements]
              /\ seenSource' = [seenSource EXCEPT ![u] = source]
              /\ step' = [step EXCEPT ![u] = 1] /\ made' = [made EXCEPT ![u] = <<>>]
              /\ removed' = [removed EXCEPT ![u] = {}]

import_file_button(u, f, journal) ==
    /\ at[u] # "open" /\ imports < MaxImports
    /\ at' = [at EXCEPT ![u] = "open"]
    /\ file' = [file EXCEPT ![u] = f] /\ ctx' = [ctx EXCEPT ![u] = journal]
    /\ imports' = imports + 1
    /\ Restart(u)
    /\ UNCHANGED <<statements, source>>

Fail(u) == /\ at' = [at EXCEPT ![u] = "failed"]
           /\ UNCHANGED <<step, made, snap, seenSource, removed>>

\* One triplet; a triplet without transactions is passed over.  The journal is
\* written when its source changes: a concurrent change makes Odoo start again.
import_single_statement(u) ==
    /\ at[u] = "open" /\ step[u] <= Len(content[file[u]])
    /\ \A v \in User : ~Blocked(u, v)
    /\ IF ~_check_parsed_data(Triplet(u).statements)
       THEN /\ step' = [step EXCEPT ![u] = @ + 1]
            /\ UNCHANGED <<at, made, snap, seenSource, removed>>
       ELSE IF \/ JournalOf(u) = None
               \/ \E i \in DOMAIN Triplet(u).statements :
                     \E t \in Range(Triplet(u).statements[i].transactions) : ~t.payment_ref
               \/ Clash(NewStatements(u))
       THEN Fail(u)
       ELSE IF JournalOf(u) \in source \ seenSource[u]
       THEN Restart(u) /\ UNCHANGED at
       ELSE /\ made' = [made EXCEPT ![u] = @ \o NewStatements(u)]
            /\ step' = [step EXCEPT ![u] = @ + 1]
            /\ UNCHANGED <<at, snap, seenSource, removed>>
    /\ UNCHANGED <<statements, source, file, ctx, imports>>

\* PostgreSQL ends a deadlock: one of the two transactions starts again.
deadlock_detected(u) == /\ \E v \in User : Blocked(u, v) /\ Blocked(v, u)
                        /\ Restart(u)
                        /\ UNCHANGED <<statements, source, file, ctx, at, imports>>

\* The end of _import_file: an error if there is no statement, else the commit.
Result(u) == made[u]
_import_file(u) ==
    /\ at[u] = "open" /\ step[u] > Len(content[file[u]])
    /\ IF Result(u) = <<>>
       THEN at' = [at EXCEPT ![u] = "known"] /\ UNCHANGED <<statements, source>>
       ELSE /\ at' = [at EXCEPT ![u] = "done"]
            /\ statements' = statements \o made[u]
            /\ source' = source \cup Sourced(u)
    /\ UNCHANGED <<file, ctx, step, snap, seenSource, made, removed, imports>>

\* A user removes a statement with its lines.
unlink(i) == /\ statements' = RemoveAt(statements, i)
             /\ removed' = [u \in User |-> IF at[u] = "open"
                                           THEN removed[u] \cup Keys(<<statements[i]>>) ELSE {}]
             /\ imports < MaxImports
             /\ UNCHANGED <<source, file, ctx, at, step, snap, seenSource, made, imports>>

Next == \/ \E u \in User :
              \/ \E f \in File, journal \in Journal \cup {None} :
                    import_file_button(u, f, journal)
              \/ import_single_statement(u) \/ deadlock_detected(u) \/ _import_file(u)
        \/ \E i \in DOMAIN statements : unlink(i)

Spec == Init /\ [][Next]_importVars
-----------------------------------------------------------------------------
\* The files have consistent statements; whatever transactions of them had been
\* imported before, alone or by another file, the statements that are created
\* are consistent: the opening balance plus the lines is the closing balance.
BalancesAddUp ==
    \A i \in DOMAIN statements :
       LET s == statements[i] IN
       s.balance_start # None => s.balance_start + Sum(s.line_ids) = s.balance_end_real

\* The identified transactions of a file, as a user imports it.
FileKeys(u) == (UNION {UNION {
      {unique_import_id(t, _match_journal(x.currency, x.account, ctx[u]), x.account) :
          t \in Range(s.transactions)} : s \in Range(x.statements)} :
      x \in Range(content[file[u]])}) \ {None}

\* An import that succeeds leaves every identified transaction of its file in the
\* database, the ones it left out as known included, unless these were removed
\* while it was running.  "You have already imported this file, or this file only
\* contains already imported transactions" is never said of a file with a
\* transaction that the database did not have.
ImportIsComplete ==
    [][\A u \in User : at[u] = "open" =>
         /\ at'[u] = "done" => FileKeys(u) \ removed[u] \subseteq Keys(statements')
         /\ at'[u] = "known" =>
               /\ FileKeys(u) \subseteq Keys(snap[u])
               /\ \A x \in Range(content[file[u]]) : \A s \in Range(x.statements) :
                     \A t \in Range(s.transactions) : t.unique_import_id # None]_importVars
=============================================================================
