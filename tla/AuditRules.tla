----------------------------- MODULE AuditRules -----------------------------
(***************************************************************************)
(* The rules of auditlog and the methods that they patch: auditlog_rule.py *)
(* A rule is a row of the database; its effect is a set of patched methods *)
(* in the registry of every Odoo process.  A process changes its registry  *)
(* at once, inside the transaction, and tells the others after the commit. *)
(* Model classes that inherit from one another are left out.               *)
(***************************************************************************)
EXTENDS Naturals, FiniteSets

CONSTANTS Proc,        \* Odoo processes, each with its registry
          Model,       \* audited models
          Method,      \* some of create, read, write, unlink, export_data
          Conf,        \* what a patched method captures: log type, excluded users
          NoRule, NoPatch,
          MaxChanges, MaxCrashes

Rule == [state : {"draft", "confirmed"}, flags : SUBSET Method, conf : Conf]

AuditConstants == /\ MaxChanges \in Nat /\ MaxCrashes \in Nat
                  /\ NoPatch \notin Conf /\ NoRule \notin Rule

VARIABLES rule,        \* the committed rule of each model
          view,        \* the rules as a process's transaction sees them
          dirty,       \* models whose rule the transaction has written
          stale,       \* models whose rule was committed since its snapshot
          at,          \* where a process is: "idle", "open", "signal"
          patched,     \* the patched methods of its registry, with what they captured
          invalidated, \* registry.registry_invalidated
          sequence,    \* the registry sequence in the database
          seen,        \* the sequence that a process has loaded
          edited,      \* history: models whose edit the transaction will not make known
          doubt,       \* history: models about which a registry may be wrong
          changes, crashes

ruleVars == <<rule, view, dirty, stale, at, patched, invalidated, sequence,
              seen, edited, doubt, changes, crashes>>

TypeOK == /\ rule \in [Model -> Rule \cup {NoRule}]
          /\ view \in [Proc -> [Model -> Rule \cup {NoRule}]]
          /\ dirty \in [Proc -> SUBSET Model] /\ stale \in [Proc -> SUBSET Model]
          /\ at \in [Proc -> {"idle", "open", "signal"}]
          /\ patched \in [Proc -> [Model -> [Method -> Conf \cup {NoPatch}]]]
          /\ invalidated \in [Proc -> BOOLEAN]
          /\ sequence \in Nat /\ seen \in [Proc -> 0 .. sequence]
          /\ edited \in [Proc -> SUBSET Model] /\ doubt \in [Proc -> SUBSET Model]
          /\ changes \in 0 .. MaxChanges /\ crashes \in 0 .. MaxCrashes

Init == /\ rule = [m \in Model |-> NoRule]
        /\ view = [p \in Proc |-> rule]
        /\ dirty = [p \in Proc |-> {}] /\ stale = [p \in Proc |-> {}]
        /\ at = [p \in Proc |-> "idle"]
        /\ patched = [p \in Proc |-> [m \in Model |-> [k \in Method |-> NoPatch]]]
        /\ invalidated = [p \in Proc |-> FALSE]
        /\ sequence = 0 /\ seen = [p \in Proc |-> 0]
        /\ edited = [p \in Proc |-> {}] /\ doubt = [p \in Proc |-> {}]
        /\ changes = 0 /\ crashes = 0

-----------------------------------------------------------------------------

Confirmed(r) == r # NoRule /\ r.state = "confirmed"

\* The methods of a model whose unpatched form is `old`, under the rule r:
\* a method that is patched already keeps what it captured.
_patch_methods(old, r) ==
    [k \in Method |-> IF Confirmed(r) /\ k \in r.flags /\ old[k] = NoPatch
                      THEN r.conf ELSE old[k]]

\* Only the methods that the rule logs at this moment are restored.
_revert_methods_mutant(old, r) == old
_revert_methods(old, r) ==
    [k \in Method |-> IF k \in r.flags THEN NoPatch ELSE old[k]]

\* What a registry patches when it is loaded from the rules.
Patches(r) == _patch_methods([k \in Method |-> NoPatch], r)
_register_hook(rules) == [m \in Model |-> Patches(rules[m])]

\* The process p writes the rule r of m, its registry takes the methods `new`;
\* _update_registry invalidates it unless a file is being imported.  The edit is
\* not known to the other processes when it is `quiet`, or when it may change
\* nothing here because this registry was not that of the rule.
Update(p, m, r, new, importing, quiet) ==
    /\ at[p] = "open" /\ changes < MaxChanges
    /\ \A q \in Proc \ {p} : m \notin dirty[q]
    /\ view' = [view EXCEPT ![p][m] = r]
    /\ dirty' = [dirty EXCEPT ![p] = @ \cup {m}]
    /\ patched' = [patched EXCEPT ![p][m] = new]
    /\ invalidated' = [invalidated EXCEPT
                           ![p] = @ \/ (new # patched[p][m] /\ ~importing)]
    /\ edited' = IF quiet \/ patched[p][m] # Patches(view[p][m])
                 THEN [edited EXCEPT ![p] = @ \cup {m}] ELSE edited
    /\ changes' = changes + 1
    /\ UNCHANGED <<rule, stale, at, sequence, seen, crashes>>

create(p, m) ==
    \E r \in Rule, importing \in BOOLEAN :
       /\ view[p][m] = NoRule
       /\ Update(p, m, r, _patch_methods(patched[p][m], r), importing, importing)
       /\ UNCHANGED doubt

\* write: the registry gains the methods that the rule now logs and is not
\* rid of those that it does not log any more.
write(p, m) ==
    \E flags \in SUBSET Method, conf \in Conf :
       LET r == [view[p][m] EXCEPT !.flags = flags, !.conf = conf] IN
       /\ view[p][m] # NoRule /\ r # view[p][m]
       /\ Update(p, m, r, _patch_methods(patched[p][m], r), FALSE, Confirmed(r))
       /\ doubt' = IF Confirmed(r) THEN [doubt EXCEPT ![p] = @ \cup {m}] ELSE doubt

\* The form shows the buttons by the state: one for a draft, one for a confirmed rule.
set_to_confirmed(p, m) ==
    LET r == [view[p][m] EXCEPT !.state = "confirmed"] IN
    /\ view[p][m] # NoRule /\ ~Confirmed(view[p][m])
    /\ Update(p, m, r, _patch_methods(patched[p][m], r), FALSE, FALSE)
    /\ UNCHANGED doubt

set_to_draft(p, m) ==
    LET r == view[p][m] IN
    /\ Confirmed(r)
    /\ Update(p, m, [r EXCEPT !.state = "draft"], _revert_methods(patched[p][m], r), FALSE, FALSE)
    /\ UNCHANGED doubt

\* unlink sets the rule to draft before it removes it.
unlink(p, m) ==
    LET r == view[p][m] IN
    /\ r # NoRule
    /\ Update(p, m, NoRule, _revert_methods(patched[p][m], r), FALSE, FALSE)
    /\ UNCHANGED doubt

-----------------------------------------------------------------------------
\* Odoo: requests, transactions and the signaling of registries

\* A request begins: a process whose sequence is behind loads a new registry.
begin(p) ==
    LET late == seen[p] # sequence IN
    /\ at[p] = "idle"
    /\ at' = [at EXCEPT ![p] = "open"]
    /\ view' = [view EXCEPT ![p] = rule]
    /\ stale' = [stale EXCEPT ![p] = {}]
    /\ patched' = IF late THEN [patched EXCEPT ![p] = _register_hook(rule)] ELSE patched
    /\ doubt' = IF late THEN [doubt EXCEPT ![p] = {}] ELSE doubt
    /\ seen' = [seen EXCEPT ![p] = sequence]
    /\ UNCHANGED <<rule, dirty, invalidated, sequence, edited, changes, crashes>>

\* A rule that was committed since the snapshot cannot be committed again.
commit(p) ==
    /\ at[p] = "open" /\ dirty[p] \cap stale[p] = {}
    /\ rule' = [m \in Model |-> IF m \in dirty[p] THEN view[p][m] ELSE rule[m]]
    /\ stale' = [q \in Proc |-> stale[q] \cup dirty[p]]
    /\ at' = [at EXCEPT ![p] = IF invalidated[p] THEN "signal" ELSE "idle"]
    /\ dirty' = IF invalidated[p] THEN dirty ELSE [dirty EXCEPT ![p] = {}]
    /\ edited' = [edited EXCEPT ![p] = {}]
    /\ doubt' = [q \in Proc |-> IF q = p THEN doubt[q] ELSE doubt[q] \cup edited[p]]
    /\ UNCHANGED <<view, patched, invalidated, sequence, seen, changes, crashes>>

\* The sequence a process has seen grows by one, whatever others have signaled.
signal_changes(p) ==
    /\ at[p] = "signal"
    /\ at' = [at EXCEPT ![p] = "idle"]
    /\ sequence' = sequence + 1
    /\ seen' = [seen EXCEPT ![p] = @ + 1]
    /\ invalidated' = [invalidated EXCEPT ![p] = FALSE]
    /\ dirty' = [dirty EXCEPT ![p] = {}]
    /\ UNCHANGED <<rule, view, stale, patched, edited, doubt, changes, crashes>>

\* The rows are restored, the methods in memory are not.
rollback(p) ==
    /\ at[p] = "open"
    /\ at' = [at EXCEPT ![p] = "idle"]
    /\ invalidated' = [invalidated EXCEPT ![p] = FALSE]
    /\ doubt' = [doubt EXCEPT ![p] = @ \cup dirty[p]]
    /\ dirty' = [dirty EXCEPT ![p] = {}] /\ edited' = [edited EXCEPT ![p] = {}]
    /\ UNCHANGED <<rule, view, stale, patched, sequence, seen, changes, crashes>>

\* A process dies and another one takes its place.
crash(p) ==
    /\ crashes < MaxCrashes /\ crashes' = crashes + 1
    /\ at' = [at EXCEPT ![p] = "idle"]
    /\ dirty' = [dirty EXCEPT ![p] = {}] /\ edited' = [edited EXCEPT ![p] = {}]
    /\ invalidated' = [invalidated EXCEPT ![p] = FALSE]
    /\ patched' = [patched EXCEPT ![p] = _register_hook(rule)]
    /\ seen' = [seen EXCEPT ![p] = sequence]
    /\ doubt' = [q \in Proc |-> IF q = p THEN {}
                                ELSE IF at[p] = "signal" THEN doubt[q] \cup dirty[p]
                                ELSE doubt[q]]
    /\ UNCHANGED <<rule, view, stale, sequence, changes>>

Next == \E p \in Proc : \/ begin(p) \/ commit(p) \/ signal_changes(p)
                        \/ rollback(p) \/ crash(p)
                        \/ \E m \in Model : \/ create(p, m) \/ write(p, m)
                                            \/ set_to_confirmed(p, m)
                                            \/ set_to_draft(p, m) \/ unlink(p, m)

Spec == Init /\ [][Next]_ruleVars
-----------------------------------------------------------------------------
\* Nothing is under way and nothing is left to load for the process p.
InSync(p) == /\ at[p] = "idle" /\ seen[p] = sequence
             /\ \A q \in Proc : at[q] # "signal"

\* A process that is in sync logs exactly the methods of the confirmed rules,
\* with their present settings, whatever other processes changed and signaled
\* meanwhile.  The exceptions are in `doubt`, until the registry is loaded again:
\* a transaction that was rolled back, a confirmed rule that was edited or
\* imported, a rule changed where the registry was not up to date (nothing is
\* signaled then), a process that died between its commit and its signal.
RegistryMatchesRules ==
    \A p \in Proc : InSync(p) =>
       \A m \in Model \ doubt[p] :
          patched[p][m] = Patches(rule[m])
=============================================================================
