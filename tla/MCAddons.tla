------------------------------ MODULE MCAddons ------------------------------
(***************************************************************************)
(* Instances for TLC of the components that do not act on one another: the *)
(* records of jobs apart from their execution, and the addons other than   *)
(* queue_job.  A behaviour is one of the component `part`, the variables   *)
(* of the others stay as they are.                                         *)
(***************************************************************************)
EXTENDS Naturals, Sequences, FiniteSets, TLC

CONSTANT None

VARIABLE part
-----------------------------------------------------------------------------
(* Records of jobs *)

CONSTANTS Session, Key, NoKey
VARIABLES record, memory, lost, known, day, mates, wanted, revived, unseen, misdated, since
recordVars == <<record, memory, lost, known, day, mates, wanted, revived, unseen,
                misdated, since>>

Recording == INSTANCE JobRecords_proofs
  WITH Job <- {1, 2}, seen <- mates, removal_interval <- 1, MaxDay <- 1, MaxLost <- 1
-----------------------------------------------------------------------------
(* Audit rules in two processes *)

CONSTANTS Proc, Model, Method, Conf, NoRule, NoPatch
VARIABLES rule, view, dirty, stale, procAt, patched, invalidated, sequence,
          loadedSequence, edited, doubt, ruleChanges, kills
ruleVars == <<rule, view, dirty, stale, procAt, patched, invalidated, sequence,
              loadedSequence, edited, doubt, ruleChanges, kills>>

Rules == INSTANCE AuditRules_proofs
  WITH at <- procAt, seen <- loadedSequence, changes <- ruleChanges, crashes <- kills,
       MaxChanges <- 3, MaxCrashes <- 1
-----------------------------------------------------------------------------
(* Audit logs *)

CONSTANTS Rec, Existing, Field, Hidden, Val, False, LogType, capture_record,
          MaxLogCalls, MaxLogDepth
VARIABLES db, used, stack, guard, logs, excluded, unlogged, calls
logVars == <<db, used, stack, guard, logs, excluded, unlogged, calls>>

Logs == INSTANCE AuditLogs
  WITH MaxCalls <- MaxLogCalls, MaxDepth <- MaxLogDepth
-----------------------------------------------------------------------------
(* Imports of bank statements *)

CONSTANTS User, Journal, content, search, currency_id, MaxImports, j1, j2
VARIABLES statements, source, file, ctx, importAt, step, snap, seenSource, created,
          removed, imports
importVars == <<statements, source, file, ctx, importAt, step, snap, seenSource,
                created, removed, imports>>

Transaction(id, amount) == [unique_import_id |-> id, amount |-> amount, payment_ref |-> TRUE]
Statement(start, end, ts) ==
  [balance_start |-> start, balance_end_real |-> end, transactions |-> ts]
Triplet(account, ss) == [currency |-> "EUR", account |-> account, statements |-> ss]

\* Its first statement is empty.
January == Triplet("11", <<Statement(10, 10, <<>>),
                           Statement(10, 13, <<Transaction("a", 1), Transaction("b", 2)>>)>>)
\* It repeats a transaction of January, and one of its own.
MidJanuary == Triplet("11", <<Statement(11, 17, <<Transaction("b", 2), Transaction("c", 4)>>),
                              Statement(17, 29, <<Transaction("c", 4), Transaction("d", 8)>>)>>)
Twice == Triplet("11", <<Statement(10, 12, <<Transaction("e", 1), Transaction("e", 1)>>)>>)
Unidentified == Triplet("22", <<Statement(None, 3, <<Transaction(None, 3)>>)>>)
OtherJournal == Triplet("22", <<Statement(5, 8, <<Transaction("a", 3)>>)>>)
Files == << <<January>>, <<MidJanuary, OtherJournal>>, <<OtherJournal, January>>,
            <<Triplet(None, <<Statement(0, 1, <<Transaction("a", 1)>>)>>), Triplet("11", <<>>),
              Unidentified>>, <<Twice>> >>
Accounts == "11" :> <<j1>> @@ "22" :> <<j2>>
Currencies == j1 :> "EUR" @@ j2 :> "EUR"

Importing == INSTANCE StatementImport WITH at <- importAt, made <- created
-----------------------------------------------------------------------------
(* Date ranges *)

CONSTANTS Users, Cron, Company, NoCompany, company_id, Edits
VARIABLES ranges, type, today, rangeAt, rangeView, written, outdated, made, free,
          transactions, unchecked
rangeVars == <<ranges, type, today, rangeAt, rangeView, written, outdated, made, free,
               transactions, unchecked>>

Ranges == INSTANCE DateRanges_proofs
  WITH User <- Users, at <- rangeAt, view <- rangeView, changed <- written,
       stale <- outdated, edits <- transactions,
       step <- 2, horizon <- 2, autogeneration_date_start <- 2, by_prefix <- FALSE,
       MaxRanges <- 3, MaxDay <- 1, MaxEdits <- 3
-----------------------------------------------------------------------------
(* The brand filter of the shop *)

CONSTANTS Brand, rank, Letter, letter, showEmpty, BRAND_LIMIT, BRAND_LETTER_LIMIT,
          MaxVisits, MaxBrandCalls, MaxBrandChanges, b1, b2, b3
VARIABLES public, sold, page, items, buttons, loaded, shown, rpcs, visits, answered,
          catalogue, moved, doubled
filterVars == <<public, sold, page, items, buttons, loaded, shown, rpcs, visits,
                answered, catalogue, moved, doubled>>

Ranks == b1 :> 1 @@ b2 :> 2 @@ b3 :> 3
FirstLetters == b1 :> "A" @@ b2 :> "A" @@ b3 :> "B"
Filter == INSTANCE BrandFilter
  WITH button <- buttons, calls <- rpcs, made <- answered, changes <- catalogue,
       MaxCalls <- MaxBrandCalls, MaxChanges <- MaxBrandChanges
-----------------------------------------------------------------------------

ASSUME Constants ==
  /\ Recording!RecordConstants /\ Rules!AuditConstants /\ Logs!AuditLogConstants
  /\ Importing!ImportConstants /\ Ranges!DateRangeConstants /\ Filter!BrandConstants

vars == <<part, recordVars, ruleVars, logVars, importVars, rangeVars, filterVars>>

Init == /\ part \in {"records", "rules", "logs", "import", "ranges", "filter"}
        /\ Recording!Init /\ Rules!Init /\ Logs!Init /\ Importing!Init /\ Ranges!Init
        /\ Filter!Init

Next == /\ UNCHANGED part
        /\ \/ /\ part = "records" /\ Recording!Next
              /\ UNCHANGED <<ruleVars, logVars, importVars, rangeVars, filterVars>>
           \/ /\ part = "rules" /\ Rules!Next
              /\ UNCHANGED <<recordVars, logVars, importVars, rangeVars, filterVars>>
           \/ /\ part = "logs" /\ Logs!Next
              /\ UNCHANGED <<recordVars, ruleVars, importVars, rangeVars, filterVars>>
           \/ /\ part = "import" /\ Importing!Next
              /\ UNCHANGED <<recordVars, ruleVars, logVars, rangeVars, filterVars>>
           \/ /\ part = "ranges" /\ Ranges!Next
              /\ UNCHANGED <<recordVars, ruleVars, logVars, importVars, filterVars>>
           \/ /\ part = "filter" /\ Filter!Next
              /\ UNCHANGED <<recordVars, ruleVars, logVars, importVars, rangeVars>>

Spec == Init /\ [][Next]_vars
-----------------------------------------------------------------------------

\* Types, in the six components; a statement that is stored has lines.
TypesOK == /\ Recording!TypeOK /\ Rules!TypeOK /\ Logs!TypeOK /\ Importing!TypeOK
           /\ Ranges!TypeOK /\ Filter!TypeOK

\* Two active jobs share an identity key only if their sessions did not see one
\* another, or if one of them has come back to the queue.
ActiveJobsAreUnique == Recording!ActiveJobsAreUnique
\* autovacuum removes a job only when it has been settled for the whole interval, but
\* for those that failed after set_done, were settled and enqueued again by the runner,
\* or failed under a lost worker.
RemovableHasEnded == Recording!RemovableHasEnded

\* A process in sync with the others logs exactly what the confirmed rules ask for.
RegistryMatchesRules == Rules!RegistryMatchesRules

\* The last log line about a field tells its value, however audited calls nest.
LogsTellTheValues == Logs!LogsTellTheValues

\* What is left of a statement, once its known transactions are skipped, opens with
\* the balance that makes it add up.
BalancesAddUp == Importing!BalancesAddUp
\* An import that succeeds leaves all transactions of its file in the database, and only a
\* file without a new one is refused as already imported.
ImportIsComplete == Importing!ImportIsComplete

\* Active ranges of a type and a company that checks have compared do not overlap.
NoOverlap == Ranges!NoOverlap
\* A run of the scheduled task covers its type up to the horizon, unless it is too early
\* for the first range, and without a gap.
RunsCover == Ranges!RunsCover

\* No brand is shown twice, and a list without a button is complete.
BrandsShownOnce == Filter!BrandsShownOnce

=============================================================================
