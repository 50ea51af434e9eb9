-------------------------- MODULE AuditRules_proofs --------------------------
(***************************************************************************)
(* Theorems about AuditRules, for any number of processes, models, methods *)
(* and settings.                                                           *)
(***************************************************************************)
EXTENDS AuditRules, TLAPS

\* The rule that the registry of a process should follow: its own while it is not
\* committed.
InForce(p, m) == IF at[p] = "open" /\ m \in dirty[p] THEN view[p][m] ELSE rule[m]

\* Why a registry may differ: it is in doubt, a new one will be loaded, a change is
\* about to be signaled, or the transaction cannot be committed.
Excused(p, m) ==
    \/ m \in doubt[p] \/ seen[p] # sequence
    \/ \E q \in Proc \ {p} : at[q] = "signal" /\ m \in dirty[q]
    \/ at[p] = "open" /\ m \in dirty[p] /\ m \in stale[p]

RegistryFollows ==
    \A p \in Proc, m \in Model : patched[p][m] = Patches(InForce(p, m)) \/ Excused(p, m)

\* A transaction sees the committed rules, but for its own changes and for those that
\* were committed since its snapshot.
ViewsAreRules ==
    \A p \in Proc, m \in Model :
       at[p] = "open" /\ m \notin dirty[p] /\ m \notin stale[p] => view[p][m] = rule[m]

\* What a transaction changes without invalidating its registry, and will not make
\* known, patches the same methods as before.
EditsAreQuiet ==
    \A p \in Proc, m \in Model :
       at[p] = "open" /\ ~invalidated[p] /\ m \in dirty[p] /\ m \notin edited[p]
          /\ m \notin stale[p] => Patches(view[p][m]) = Patches(rule[m])

\* A row is written by one transaction at a time; a process forgets what it wrote when
\* its transaction is over and signaled.
RowsAreLocked == \A p, q \in Proc : p # q => dirty[p] \cap dirty[q] = {}
TransactionsEnd ==
    \A p \in Proc : /\ at[p] = "idle" => dirty[p] = {} /\ ~invalidated[p]
                    /\ at[p] = "signal" => invalidated[p]
                    /\ at[p] # "open" => edited[p] = {}

IInv == /\ TypeOK /\ RegistryFollows /\ ViewsAreRules /\ EditsAreQuiet /\ RowsAreLocked
        /\ TransactionsEnd
-----------------------------------------------------------------------------
(* Patched methods *)

Methods == [Method -> Conf \cup {NoPatch}]
Unpatched == [k \in Method |-> NoPatch]

LEMMA PatchesType ==
  ASSUME NEW r \in Rule \cup {NoRule}
  PROVE  Patches(r) \in Methods
  BY DEF Patches, _patch_methods, Methods, Confirmed, Rule

LEMMA PatchType ==
  ASSUME NEW r \in Rule \cup {NoRule}, NEW old \in Methods
  PROVE  _patch_methods(old, r) \in Methods /\ _revert_methods(old, r) \in Methods
  BY DEF _patch_methods, _revert_methods, Methods, Confirmed, Rule

\* A rule that is not confirmed patches nothing.
LEMMA DraftsPatchNothing ==
  ASSUME NEW r, ~Confirmed(r)
  PROVE  Patches(r) = Unpatched
  BY DEF Patches, _patch_methods, Unpatched

\* Patching where nothing is patched gives the patches of the rule.
LEMMA PatchFromDraft ==
  ASSUME NEW old, ~Confirmed(old), NEW r
  PROVE  _patch_methods(Patches(old), r) = Patches(r)
  BY DraftsPatchNothing DEF Patches, Unpatched

\* Reverting the methods of a rule leaves nothing of its patches.
LEMMA RevertUndoes ==
  ASSUME NEW r, r # NoRule
  PROVE  _revert_methods(Patches(r), r) = Unpatched
  BY DEF _revert_methods, Patches, _patch_methods, Unpatched

LEMMA HookType ==
  ASSUME NEW rules \in [Model -> Rule \cup {NoRule}]
  PROVE  /\ _register_hook(rules) \in [Model -> Methods]
         /\ \A m \in Model : _register_hook(rules)[m] = Patches(rules[m])
  BY PatchesType DEF _register_hook
-----------------------------------------------------------------------------
(* Changes of rules *)

\* A change makes the registry follow the new rule if it followed the old one, but for
\* what it puts in doubt; a change that is made known does so without exception.
Follows(p, m, r, new, quiet) ==
    patched[p][m] = Patches(view[p][m]) =>
       /\ new = Patches(r) \/ m \in doubt'[p]
       /\ ~quiet => new = Patches(r)

LEMMA UpdateStays ==
  ASSUME AuditConstants, IInv, NEW p \in Proc, NEW m \in Model,
         NEW r \in Rule \cup {NoRule}, NEW new \in Methods, NEW importing \in BOOLEAN, NEW quiet \in BOOLEAN,
         importing => quiet, Update(p, m, r, new, importing, quiet),
         doubt' = doubt \/ doubt' = [doubt EXCEPT ![p] = @ \cup {m}],
         Follows(p, m, r, new, quiet)
  PROVE  IInv'
<1> USE DEF IInv
<1>1. /\ at[p] = "open" /\ \A q \in Proc \ {p} : m \notin dirty[q]
      /\ UNCHANGED <<rule, stale, at, sequence, seen, crashes>>
  BY DEF Update
<1>2. /\ view' \in [Proc -> [Model -> Rule \cup {NoRule}]] /\ view'[p][m] = r
      /\ \A n \in Model \ {m} : view'[p][n] = view[p][n]
      /\ \A q \in Proc \ {p} : view'[q] = view[q]
  BY DEF Update, TypeOK
<1>3. /\ dirty' \in [Proc -> SUBSET Model] /\ dirty'[p] = dirty[p] \cup {m}
      /\ \A q \in Proc \ {p} : dirty'[q] = dirty[q]
  BY DEF Update, TypeOK
<1>4. /\ patched' \in [Proc -> [Model -> Methods]] /\ patched'[p][m] = new
      /\ \A n \in Model \ {m} : patched'[p][n] = patched[p][n]
      /\ \A q \in Proc \ {p} : patched'[q] = patched[q]
  BY DEF Update, TypeOK, Methods
<1>5. /\ invalidated' \in [Proc -> BOOLEAN] 
      /\ invalidated'[p] = (invalidated[p] \/ (new # patched[p][m] /\ ~importing))
      /\ \A q \in Proc \ {p} : invalidated'[q] = invalidated[q]
  BY DEF Update, TypeOK
<1>6. /\ edited' \in [Proc -> SUBSET Model] /\ edited[p] \subseteq edited'[p]
      /\ quiet \/ patched[p][m] # Patches(view[p][m]) => m \in edited'[p]
      /\ \A q \in Proc \ {p} : edited'[q] = edited[q]
  BY DEF Update, TypeOK
<1>7. /\ doubt' \in [Proc -> SUBSET Model] /\ doubt[p] \subseteq doubt'[p]
      /\ \A q \in Proc \ {p} : doubt'[q] = doubt[q]
  <2>1. CASE doubt' = doubt
    BY <2>1 DEF TypeOK
  <2>2. CASE doubt' = [doubt EXCEPT ![p] = @ \cup {m}]
    BY <2>2 DEF TypeOK
  <2> QED  BY <2>1, <2>2
<1>8. TypeOK'
  <2>1. changes' \in 0 .. MaxChanges
    BY DEF Update, TypeOK, AuditConstants
  <2> QED
    BY <1>1, <1>2, <1>3, <1>4, <1>5, <1>6, <1>7, <2>1 DEF TypeOK, Methods
<1>9. m \notin stale[p] => InForce(p, m) = view[p][m]
  BY <1>1 DEF InForce, ViewsAreRules
<1>10. RegistryFollows'
  <2> SUFFICES ASSUME NEW q \in Proc, NEW n \in Model
               PROVE  patched'[q][n] = Patches(InForce(q, n)') \/ Excused(q, n)'
    BY DEF RegistryFollows, Patches, _patch_methods, Confirmed
  <2>1. Excused(q, n) => Excused(q, n)'
    BY <1>1, <1>3, <1>7 DEF Excused
  <2>2. CASE q = p /\ n = m
    <3>1. CASE m \in stale[p]
      BY <1>1, <1>3, <2>2, <3>1 DEF Excused
    <3>2. CASE m \notin stale[p]
      <4>1. InForce(q, n)' = r
        BY <1>1, <1>2, <1>3, <2>2 DEF InForce
      <4>2. patched[p][m] = Patches(view[p][m]) \/ Excused(q, n)
        BY <1>9, <2>2, <3>2 DEF RegistryFollows
      <4>3. patched[p][m] = Patches(view[p][m]) => new = Patches(r) \/ m \in doubt'[p]
        BY DEF Follows
      <4> QED
        BY <1>4, <2>1, <2>2, <4>1, <4>2, <4>3 DEF Excused
    <3> QED  BY <3>1, <3>2
  <2>3. CASE q # p \/ n # m
    <3>1. InForce(q, n)' = InForce(q, n) /\ patched'[q][n] = patched[q][n]
      BY <1>1, <1>2, <1>3, <1>4, <2>3 DEF InForce
    <3> QED
      BY <2>1, <3>1 DEF RegistryFollows
  <2> QED  BY <2>2, <2>3
<1>11. ViewsAreRules'
  BY <1>1, <1>2, <1>3 DEF ViewsAreRules
<1>12. EditsAreQuiet'
  <2> SUFFICES ASSUME NEW q \in Proc, NEW n \in Model, at[q] = "open", ~invalidated'[q],
                      n \in dirty'[q], n \notin edited'[q], n \notin stale[q]
               PROVE  Patches(view'[q][n]) = Patches(rule[n])
    BY <1>1 DEF EditsAreQuiet, Patches, _patch_methods, Confirmed
  <2>1. CASE q = p /\ n = m
    <3>1. ~quiet /\ patched[p][m] = Patches(view[p][m])
      BY <1>6, <2>1
    <3>2. new = Patches(r) /\ new = patched[p][m]
      BY <1>5, <2>1, <3>1 DEF Follows
    <3>3. Patches(view[p][m]) = Patches(rule[m])
      <4>1. CASE m \in dirty[p]
        BY <1>1, <1>5, <1>6, <2>1, <4>1 DEF EditsAreQuiet
      <4>2. CASE m \notin dirty[p]
        BY <1>1, <2>1, <4>2 DEF ViewsAreRules
      <4> QED  BY <4>1, <4>2
    <3> QED
      BY <1>2, <2>1, <3>1, <3>2, <3>3
  <2>2. CASE q # p \/ n # m
    <3>1. ~invalidated[q] /\ n \in dirty[q] /\ n \notin edited[q] /\ view'[q][n] = view[q][n]
      BY <1>2, <1>3, <1>5, <1>6, <2>2
    <3> QED
      BY <3>1 DEF EditsAreQuiet
  <2> QED  BY <2>1, <2>2
<1>13. RowsAreLocked'
  BY <1>1, <1>3 DEF RowsAreLocked
<1>14. TransactionsEnd'
  BY <1>1, <1>3, <1>5, <1>6 DEF TransactionsEnd
<1> QED
  BY <1>8, <1>10, <1>11, <1>12, <1>13, <1>14

\* The rule that a transaction sees, and the methods of its registry.
LEMMA SeenRule ==
  ASSUME TypeOK, NEW p \in Proc, NEW m \in Model
  PROVE  view[p][m] \in Rule \cup {NoRule} /\ patched[p][m] \in Methods
  BY DEF TypeOK, Methods

LEMMA CreateStays ==
  ASSUME AuditConstants, IInv, NEW p \in Proc, NEW m \in Model, create(p, m)
  PROVE  IInv'
<1>1. PICK r \in Rule, importing \in BOOLEAN :
         /\ view[p][m] = NoRule /\ UNCHANGED doubt
         /\ Update(p, m, r, _patch_methods(patched[p][m], r), importing, importing)
  BY DEF create
<1>2. _patch_methods(patched[p][m], r) \in Methods
  BY SeenRule, PatchType DEF IInv
<1>3. Follows(p, m, r, _patch_methods(patched[p][m], r), importing)
  BY <1>1, PatchFromDraft DEF Follows, Confirmed
<1> QED
  BY <1>1, <1>2, <1>3, UpdateStays

LEMMA WriteStays ==
  ASSUME AuditConstants, IInv, NEW p \in Proc, NEW m \in Model, write(p, m)
  PROVE  IInv'
<1>1. PICK flags \in SUBSET Method, conf \in Conf :
         LET r == [view[p][m] EXCEPT !.flags = flags, !.conf = conf] IN
         /\ view[p][m] # NoRule
         /\ Update(p, m, r, _patch_methods(patched[p][m], r), FALSE, Confirmed(r))
         /\ doubt' = IF Confirmed(r) THEN [doubt EXCEPT ![p] = @ \cup {m}] ELSE doubt
  BY DEF write
<1> DEFINE r == [view[p][m] EXCEPT !.flags = flags, !.conf = conf]
<1>2. r \in Rule /\ r.state = view[p][m].state
  BY <1>1, SeenRule DEF IInv, Rule
<1>3. _patch_methods(patched[p][m], r) \in Methods
  BY <1>2, SeenRule, PatchType DEF IInv
<1> HIDE DEF r
<1>4. Update(p, m, r, _patch_methods(patched[p][m], r), FALSE, Confirmed(r))
  BY <1>1 DEF r
<1>5. doubt' = IF Confirmed(r) THEN [doubt EXCEPT ![p] = @ \cup {m}] ELSE doubt
  BY <1>1 DEF r
<1>6. CASE Confirmed(r)
  <2>1. Update(p, m, r, _patch_methods(patched[p][m], r), FALSE, TRUE)
    BY <1>4, <1>6 DEF Update
  <2>2. m \in doubt'[p]
    BY <1>5, <1>6 DEF IInv, TypeOK
  <2>3. Follows(p, m, r, _patch_methods(patched[p][m], r), TRUE)
    BY <2>2 DEF Follows
  <2> QED
    BY <1>2, <1>3, <1>5, <1>6, <2>1, <2>3, UpdateStays
<1>7. CASE ~Confirmed(r)
  <2>1. Update(p, m, r, _patch_methods(patched[p][m], r), FALSE, FALSE)
    BY <1>4, <1>7 DEF Update
  <2>2. ~Confirmed(view[p][m])
    BY <1>2, <1>7 DEF Confirmed, AuditConstants
  <2>3. Follows(p, m, r, _patch_methods(patched[p][m], r), FALSE)
    BY <2>2, PatchFromDraft DEF Follows
  <2> QED
    BY <1>2, <1>3, <1>5, <1>7, <2>1, <2>3, UpdateStays
<1> QED
  BY <1>6, <1>7

LEMMA ConfirmStays ==
  ASSUME AuditConstants, IInv, NEW p \in Proc, NEW m \in Model, set_to_confirmed(p, m)
  PROVE  IInv'
<1> DEFINE r == [view[p][m] EXCEPT !.state = "confirmed"]
<1>1. /\ view[p][m] # NoRule /\ ~Confirmed(view[p][m]) /\ UNCHANGED doubt
      /\ Update(p, m, r, _patch_methods(patched[p][m], r), FALSE, FALSE)
  BY DEF set_to_confirmed
<1>2. r \in Rule
  BY <1>1, SeenRule DEF IInv, Rule
<1> HIDE DEF r
<1>3. _patch_methods(patched[p][m], r) \in Methods
  BY <1>2, SeenRule, PatchType DEF IInv
<1>4. Follows(p, m, r, _patch_methods(patched[p][m], r), FALSE)
  BY <1>1, PatchFromDraft DEF Follows
<1> QED
  BY <1>1, <1>2, <1>3, <1>4, UpdateStays

LEMMA DraftStays ==
  ASSUME AuditConstants, IInv, NEW p \in Proc, NEW m \in Model, set_to_draft(p, m)
  PROVE  IInv'
<1> DEFINE v == view[p][m]
           r == [v EXCEPT !.state = "draft"]
<1>1. /\ Confirmed(v) /\ UNCHANGED doubt
      /\ Update(p, m, r, _revert_methods(patched[p][m], v), FALSE, FALSE)
  BY DEF set_to_draft
<1>2. v \in Rule /\ r \in Rule /\ ~Confirmed(r)
  BY <1>1, SeenRule DEF IInv, Rule, Confirmed
<1> HIDE DEF r
<1>3. _revert_methods(patched[p][m], v) \in Methods
  BY <1>2, SeenRule, PatchType DEF IInv
<1>4. Follows(p, m, r, _revert_methods(patched[p][m], v), FALSE)
  BY <1>1, <1>2, RevertUndoes, DraftsPatchNothing DEF Follows, Confirmed
<1> QED
  BY <1>1, <1>2, <1>3, <1>4, UpdateStays

LEMMA UnlinkStays ==
  ASSUME AuditConstants, IInv, NEW p \in Proc, NEW m \in Model, unlink(p, m)
  PROVE  IInv'
<1> DEFINE v == view[p][m]
<1>1. /\ v # NoRule /\ UNCHANGED doubt
      /\ Update(p, m, NoRule, _revert_methods(patched[p][m], v), FALSE, FALSE)
  BY DEF unlink
<1>2. _revert_methods(patched[p][m], v) \in Methods
  BY SeenRule, PatchType DEF IInv
<1>3. Follows(p, m, NoRule, _revert_methods(patched[p][m], v), FALSE)
  BY <1>1, RevertUndoes, DraftsPatchNothing DEF Follows, Confirmed
<1> QED
  BY <1>1, <1>2, <1>3, UpdateStays
-----------------------------------------------------------------------------
(* Transactions and signals *)

LEMMA BeginStays ==
  ASSUME IInv, NEW p \in Proc, begin(p)
  PROVE  IInv'
<1> USE DEF IInv, begin
<1>1. /\ at[p] = "idle" /\ dirty[p] = {} /\ edited[p] = {} /\ ~invalidated[p]
      /\ at' = [at EXCEPT ![p] = "open"] /\ view' = [view EXCEPT ![p] = rule]
      /\ stale' = [stale EXCEPT ![p] = {}] /\ seen' = [seen EXCEPT ![p] = sequence]
      /\ UNCHANGED <<rule, dirty, invalidated, sequence, edited, changes, crashes>>
  BY DEF TransactionsEnd
<1>2. /\ patched' \in [Proc -> [Model -> Methods]] /\ doubt' \in [Proc -> SUBSET Model]
      /\ \A q \in Proc \ {p} : patched'[q] = patched[q] /\ doubt'[q] = doubt[q]
      /\ \/ patched'[p] = _register_hook(rule)
         \/ seen[p] = sequence /\ patched'[p] = patched[p] /\ doubt'[p] = doubt[p]
  <2>1. _register_hook(rule) \in [Model -> Methods]
    BY HookType DEF TypeOK
  <2>2. CASE seen[p] = sequence
    BY <2>2 DEF TypeOK, Methods
  <2>3. CASE seen[p] # sequence
    BY <2>1, <2>3 DEF TypeOK, Methods
  <2> QED  BY <2>2, <2>3
<1>3. TypeOK'
  BY <1>1, <1>2 DEF TypeOK, Methods
<1>4. RegistryFollows'
  <2> SUFFICES ASSUME NEW q \in Proc, NEW m \in Model
               PROVE  patched'[q][m] = Patches(InForce(q, m)') \/ Excused(q, m)'
    BY DEF RegistryFollows, Patches, _patch_methods, Confirmed
  <2>1. CASE q = p
    <3>1. InForce(q, m)' = rule[m]
      BY <1>1, <2>1 DEF InForce
    <3>2. CASE patched'[p] = _register_hook(rule)
      BY <2>1, <3>1, <3>2, HookType DEF TypeOK
    <3>3. CASE seen[p] = sequence /\ patched'[p] = patched[p] /\ doubt'[p] = doubt[p]
      <4>1. InForce(q, m) = rule[m]
        BY <1>1, <2>1 DEF InForce
      <4>2. Excused(q, m) => Excused(q, m)'
        BY <1>1, <2>1, <3>3 DEF Excused, TypeOK
      <4> QED
        BY <2>1, <3>1, <3>3, <4>1, <4>2 DEF RegistryFollows
    <3> QED  BY <1>2, <3>2, <3>3
  <2>2. CASE q # p
    <3>1. InForce(q, m)' = InForce(q, m)
      BY <1>1, <2>2 DEF InForce, TypeOK
    <3>2. Excused(q, m) => Excused(q, m)'
      BY <1>1, <1>2, <2>2 DEF Excused, TypeOK
    <3> QED
      BY <1>2, <2>2, <3>1, <3>2 DEF RegistryFollows
  <2> QED  BY <2>1, <2>2
<1>5. ViewsAreRules'
  BY <1>1 DEF ViewsAreRules, TypeOK
<1>6. EditsAreQuiet'
  <2> SUFFICES ASSUME NEW q \in Proc, NEW m \in Model, at'[q] = "open", ~invalidated[q],
                      m \in dirty[q], m \notin edited[q], m \notin stale'[q]
               PROVE  Patches(view'[q][m]) = Patches(rule[m])
    BY <1>1 DEF EditsAreQuiet, Patches, _patch_methods, Confirmed
  <2>1. q # p
    BY <1>1
  <2>2. at[q] = "open" /\ m \notin stale[q] /\ view'[q] = view[q]
    BY <1>1, <2>1 DEF TypeOK
  <2> QED
    BY <2>2 DEF EditsAreQuiet
<1>7. RowsAreLocked' /\ TransactionsEnd'
  BY <1>1 DEF RowsAreLocked, TransactionsEnd, TypeOK
<1> QED
  BY <1>3, <1>4, <1>5, <1>6, <1>7

LEMMA CommitStays ==
  ASSUME IInv, NEW p \in Proc, commit(p)
  PROVE  IInv'
<1> USE DEF IInv, commit
<1>1. /\ at[p] = "open" /\ dirty[p] \cap stale[p] = {}
      /\ UNCHANGED <<view, patched, invalidated, sequence, seen, changes, crashes>>
  OBVIOUS
<1>2. /\ rule' \in [Model -> Rule \cup {NoRule}]
      /\ \A m \in dirty[p] : rule'[m] = view[p][m]
      /\ \A m \in Model \ dirty[p] : rule'[m] = rule[m]
  BY DEF TypeOK
<1>3. /\ stale' \in [Proc -> SUBSET Model]
      /\ \A q \in Proc : stale'[q] = stale[q] \cup dirty[p]
  BY DEF TypeOK
<1>4. /\ at' \in [Proc -> {"idle", "open", "signal"}]
      /\ at'[p] = (IF invalidated[p] THEN "signal" ELSE "idle")
      /\ \A q \in Proc \ {p} : at'[q] = at[q]
  BY DEF TypeOK
<1>5. /\ dirty' \in [Proc -> SUBSET Model]
      /\ dirty'[p] = (IF invalidated[p] THEN dirty[p] ELSE {})
      /\ \A q \in Proc \ {p} : dirty'[q] = dirty[q]
  BY DEF TypeOK
<1>6. /\ edited' \in [Proc -> SUBSET Model] /\ edited'[p] = {}
      /\ \A q \in Proc \ {p} : edited'[q] = edited[q]
  BY DEF TypeOK
<1>7. /\ doubt' \in [Proc -> SUBSET Model] /\ doubt'[p] = doubt[p]
      /\ \A q \in Proc \ {p} : doubt'[q] = doubt[q] \cup edited[p]
  BY DEF TypeOK
<1>8. TypeOK'
  BY <1>1, <1>2, <1>3, <1>4, <1>5, <1>6, <1>7 DEF TypeOK
<1>9. RegistryFollows'
  <2> SUFFICES ASSUME NEW q \in Proc, NEW m \in Model
               PROVE  patched[q][m] = Patches(InForce(q, m)') \/ Excused(q, m)'
    BY <1>1 DEF RegistryFollows, Patches, _patch_methods, Confirmed
  <2>0. patched[q][m] = Patches(InForce(q, m)) \/ Excused(q, m)
    BY DEF RegistryFollows
  <2>1. CASE q = p
    <3>1. InForce(q, m)' = InForce(q, m)
      BY <1>1, <1>2, <1>4, <1>5, <2>1 DEF InForce
    <3>2. Excused(q, m) => Excused(q, m)'
      BY <1>1, <1>4, <1>5, <1>7, <2>1 DEF Excused
    <3> QED
      BY <2>0, <3>1, <3>2
  <2>2. CASE q # p
    <3>1. Excused(q, m) => Excused(q, m)'
      BY <1>1, <1>3, <1>4, <1>5, <1>7, <2>2 DEF Excused
    <3>2. CASE m \notin dirty[p]
      <4>1. InForce(q, m)' = InForce(q, m)
        BY <1>1, <1>2, <1>4, <1>5, <2>2, <3>2 DEF InForce
      <4> QED
        BY <2>0, <3>1, <4>1
    <3>3. CASE m \in dirty[p] /\ (invalidated[p] \/ m \in edited[p])
      BY <1>4, <1>5, <1>7, <2>2, <3>3 DEF Excused
    <3>4. CASE m \in dirty[p] /\ ~invalidated[p] /\ m \notin edited[p]
      <4>1. m \notin dirty[q] /\ m \notin stale[p]
        BY <1>1, <2>2, <3>4 DEF RowsAreLocked
      <4>2. Patches(view[p][m]) = Patches(rule[m])
        BY <1>1, <3>4, <4>1 DEF EditsAreQuiet
      <4>3. InForce(q, m) = rule[m] /\ InForce(q, m)' = view[p][m]
        BY <1>2, <1>5, <2>2, <3>4, <4>1 DEF InForce
      <4> QED
        BY <2>0, <3>1, <4>2, <4>3
    <3> QED  BY <3>2, <3>3, <3>4
  <2> QED  BY <2>1, <2>2
<1>10. ViewsAreRules'
  BY <1>1, <1>2, <1>3, <1>4, <1>5 DEF ViewsAreRules
<1>11. EditsAreQuiet'
  <2> SUFFICES ASSUME NEW q \in Proc, NEW m \in Model, at'[q] = "open", ~invalidated[q],
                      m \in dirty'[q], m \notin edited'[q], m \notin stale'[q]
               PROVE  Patches(view[q][m]) = Patches(rule'[m])
    BY <1>1 DEF EditsAreQuiet, Patches, _patch_methods, Confirmed
  <2>1. /\ q # p /\ at[q] = "open" /\ m \in dirty[q] /\ m \notin edited[q]
        /\ m \notin stale[q] /\ m \notin dirty[p]
    BY <1>3, <1>4, <1>5, <1>6
  <2> QED
    BY <1>2, <2>1 DEF EditsAreQuiet
<1>12. RowsAreLocked'
  BY <1>5 DEF RowsAreLocked
<1>13. TransactionsEnd'
  BY <1>1, <1>4, <1>5, <1>6 DEF TransactionsEnd
<1> QED
  BY <1>8, <1>9, <1>10, <1>11, <1>12, <1>13

LEMMA SignalStays ==
  ASSUME IInv, NEW p \in Proc, signal_changes(p)
  PROVE  IInv'
<1> USE DEF IInv, signal_changes
<1>1. /\ at[p] = "signal" /\ UNCHANGED <<rule, view, stale, patched, edited, doubt>>
      /\ sequence \in Nat /\ sequence' = sequence + 1 /\ \A q \in Proc : seen[q] \in 0 .. sequence
  BY DEF TypeOK
<1>2. /\ at' \in [Proc -> {"idle", "open", "signal"}] /\ at'[p] = "idle"
      /\ \A q \in Proc \ {p} : at'[q] = at[q]
  BY DEF TypeOK
<1>3. /\ dirty' \in [Proc -> SUBSET Model] /\ dirty'[p] = {}
      /\ \A q \in Proc \ {p} : dirty'[q] = dirty[q]
  BY DEF TypeOK
<1>4. /\ invalidated' \in [Proc -> BOOLEAN] /\ ~invalidated'[p]
      /\ \A q \in Proc \ {p} : invalidated'[q] = invalidated[q]
  BY DEF TypeOK
<1>5. /\ seen'[p] = seen[p] + 1 /\ \A q \in Proc \ {p} : seen'[q] = seen[q]
      /\ seen' \in [Proc -> 0 .. sequence']
  BY <1>1 DEF TypeOK
<1>6. TypeOK'
  BY <1>1, <1>2, <1>3, <1>4, <1>5 DEF TypeOK
<1>7. RegistryFollows'
  <2> SUFFICES ASSUME NEW q \in Proc, NEW m \in Model
               PROVE  patched[q][m] = Patches(InForce(q, m)') \/ Excused(q, m)'
    BY <1>1 DEF RegistryFollows, Patches, _patch_methods, Confirmed
  <2>1. CASE q = p
    <3>1. InForce(q, m)' = InForce(q, m)
      BY <1>1, <1>2, <2>1 DEF InForce
    <3>2. Excused(q, m) => Excused(q, m)'
      BY <1>1, <1>2, <1>3, <1>5, <2>1 DEF Excused
    <3> QED
      BY <3>1, <3>2 DEF RegistryFollows
  <2>2. CASE q # p
    <3>1. seen'[q] # sequence'
      BY <1>1, <1>5, <2>2
    <3> QED
      BY <3>1 DEF Excused
  <2> QED  BY <2>1, <2>2
<1>8. ViewsAreRules' /\ RowsAreLocked' /\ TransactionsEnd'
  BY <1>1, <1>2, <1>3, <1>4 DEF ViewsAreRules, RowsAreLocked, TransactionsEnd
<1>9. EditsAreQuiet'
  <2> SUFFICES ASSUME NEW q \in Proc, NEW m \in Model, at'[q] = "open", ~invalidated'[q],
                      m \in dirty'[q], m \notin edited[q], m \notin stale[q]
               PROVE  Patches(view[q][m]) = Patches(rule[m])
    BY <1>1 DEF EditsAreQuiet, Patches, _patch_methods, Confirmed
  <2> QED
    BY <1>2, <1>3, <1>4 DEF EditsAreQuiet
<1> QED
  BY <1>6, <1>7, <1>8, <1>9

LEMMA RollbackStays ==
  ASSUME IInv, NEW p \in Proc, rollback(p)
  PROVE  IInv'
<1> USE DEF IInv, rollback
<1>1. /\ at[p] = "open"
      /\ UNCHANGED <<rule, view, stale, patched, sequence, seen, changes, crashes>>
  OBVIOUS
<1>2. /\ at' \in [Proc -> {"idle", "open", "signal"}] /\ at'[p] = "idle"
      /\ \A q \in Proc \ {p} : at'[q] = at[q]
  BY DEF TypeOK
<1>3. /\ dirty' \in [Proc -> SUBSET Model] /\ dirty'[p] = {}
      /\ edited' \in [Proc -> SUBSET Model] /\ edited'[p] = {}
      /\ invalidated' \in [Proc -> BOOLEAN] /\ ~invalidated'[p]
      /\ \A q \in Proc \ {p} : /\ dirty'[q] = dirty[q] /\ edited'[q] = edited[q]
                               /\ invalidated'[q] = invalidated[q]
  BY DEF TypeOK
<1>4. /\ doubt' \in [Proc -> SUBSET Model] /\ doubt'[p] = doubt[p] \cup dirty[p]
      /\ \A q \in Proc \ {p} : doubt'[q] = doubt[q]
  BY DEF TypeOK
<1>5. TypeOK'
  BY <1>1, <1>2, <1>3, <1>4 DEF TypeOK
<1>6. RegistryFollows'
  <2> SUFFICES ASSUME NEW q \in Proc, NEW m \in Model
               PROVE  patched[q][m] = Patches(InForce(q, m)') \/ Excused(q, m)'
    BY <1>1 DEF RegistryFollows, Patches, _patch_methods, Confirmed
  <2>1. CASE q = p /\ m \in dirty[p]
    BY <1>4, <2>1 DEF Excused
  <2>2. CASE ~(q = p /\ m \in dirty[p])
    <3>1. InForce(q, m)' = InForce(q, m)
      BY <1>1, <1>2, <1>3, <2>2 DEF InForce
    <3>2. Excused(q, m) => Excused(q, m)'
      BY <1>1, <1>2, <1>3, <1>4, <2>2 DEF Excused
    <3> QED
      BY <3>1, <3>2 DEF RegistryFollows
  <2> QED  BY <2>1, <2>2
<1>7. ViewsAreRules' /\ RowsAreLocked' /\ TransactionsEnd'
  BY <1>1, <1>2, <1>3 DEF ViewsAreRules, RowsAreLocked, TransactionsEnd
<1>8. EditsAreQuiet'
  <2> SUFFICES ASSUME NEW q \in Proc, NEW m \in Model, at'[q] = "open", ~invalidated'[q],
                      m \in dirty'[q], m \notin edited'[q], m \notin stale[q]
               PROVE  Patches(view[q][m]) = Patches(rule[m])
    BY <1>1 DEF EditsAreQuiet, Patches, _patch_methods, Confirmed
  <2> QED
    BY <1>2, <1>3 DEF EditsAreQuiet
<1> QED
  BY <1>5, <1>6, <1>7, <1>8

LEMMA CrashStays ==
  ASSUME AuditConstants, IInv, NEW p \in Proc, crash(p)
  PROVE  IInv'
<1> USE DEF IInv, crash
<1>1. UNCHANGED <<rule, view, stale, sequence, changes>> /\ crashes' \in 0 .. MaxCrashes
  BY DEF TypeOK, AuditConstants
<1>2. /\ at' \in [Proc -> {"idle", "open", "signal"}] /\ at'[p] = "idle"
      /\ \A q \in Proc \ {p} : at'[q] = at[q]
  BY DEF TypeOK
<1>3. /\ dirty' \in [Proc -> SUBSET Model] /\ dirty'[p] = {}
      /\ edited' \in [Proc -> SUBSET Model] /\ edited'[p] = {}
      /\ invalidated' \in [Proc -> BOOLEAN] /\ ~invalidated'[p]
      /\ \A q \in Proc \ {p} : /\ dirty'[q] = dirty[q] /\ edited'[q] = edited[q]
                               /\ invalidated'[q] = invalidated[q]
  BY DEF TypeOK
<1>4. /\ patched' \in [Proc -> [Model -> Methods]]
      /\ \A m \in Model : patched'[p][m] = Patches(rule[m])
      /\ \A q \in Proc \ {p} : patched'[q] = patched[q]
  BY HookType DEF TypeOK, Methods
<1>5. /\ seen' \in [Proc -> 0 .. sequence] /\ \A q \in Proc \ {p} : seen'[q] = seen[q]
  BY DEF TypeOK
<1>6. /\ doubt' \in [Proc -> SUBSET Model]
      /\ \A q \in Proc \ {p} : /\ doubt[q] \subseteq doubt'[q]
                               /\ at[p] = "signal" => dirty[p] \subseteq doubt'[q]
  BY DEF TypeOK
<1>7. TypeOK'
  BY <1>1, <1>2, <1>3, <1>4, <1>5, <1>6 DEF TypeOK, Methods
<1>8. RegistryFollows'
  <2> SUFFICES ASSUME NEW q \in Proc, NEW m \in Model
               PROVE  patched'[q][m] = Patches(InForce(q, m)') \/ Excused(q, m)'
    BY DEF RegistryFollows, Patches, _patch_methods, Confirmed
  <2>1. CASE q = p
    BY <1>1, <1>2, <1>4, <2>1 DEF InForce
  <2>2. CASE q # p
    <3>1. InForce(q, m)' = InForce(q, m)
      BY <1>1, <1>2, <1>3, <2>2 DEF InForce
    <3>2. Excused(q, m) => Excused(q, m)'
      BY <1>1, <1>2, <1>3, <1>5, <1>6, <2>2 DEF Excused
    <3> QED
      BY <1>4, <2>2, <3>1, <3>2 DEF RegistryFollows
  <2> QED  BY <2>1, <2>2
<1>9. ViewsAreRules' /\ RowsAreLocked' /\ TransactionsEnd'
  BY <1>1, <1>2, <1>3 DEF ViewsAreRules, RowsAreLocked, TransactionsEnd
<1>10. EditsAreQuiet'
  <2> SUFFICES ASSUME NEW q \in Proc, NEW m \in Model, at'[q] = "open", ~invalidated'[q],
                      m \in dirty'[q], m \notin edited'[q], m \notin stale[q]
               PROVE  Patches(view[q][m]) = Patches(rule[m])
    BY <1>1 DEF EditsAreQuiet, Patches, _patch_methods, Confirmed
  <2> QED
    BY <1>2, <1>3 DEF EditsAreQuiet
<1> QED
  BY <1>7, <1>8, <1>9, <1>10
-----------------------------------------------------------------------------
(* Theorems *)

LEMMA Initially == ASSUME AuditConstants, Init PROVE IInv
<1> USE DEF Init
<1>1. TypeOK
  BY DEF TypeOK, AuditConstants
<1>2. RegistryFollows
  BY DraftsPatchNothing DEF RegistryFollows, InForce, Unpatched, Confirmed
<1> QED
  BY <1>1, <1>2
     DEF IInv, ViewsAreRules, EditsAreQuiet, RowsAreLocked, TransactionsEnd

LEMMA StutterStays == ASSUME IInv, UNCHANGED ruleVars PROVE IInv'
<1> USE DEF IInv, ruleVars
<1>1. TypeOK'
  BY DEF TypeOK
<1>2. RegistryFollows'
  BY DEF RegistryFollows, InForce, Excused, Patches, _patch_methods, Confirmed
<1>3. EditsAreQuiet'
  BY DEF EditsAreQuiet, Patches, _patch_methods, Confirmed
<1>4. ViewsAreRules' /\ RowsAreLocked' /\ TransactionsEnd'
  BY DEF ViewsAreRules, RowsAreLocked, TransactionsEnd
<1> QED
  BY <1>1, <1>2, <1>3, <1>4

LEMMA NextStays == ASSUME AuditConstants, IInv, Next PROVE IInv'
<1>1. CASE \E p \in Proc : begin(p) \/ commit(p) \/ signal_changes(p)
  BY <1>1, BeginStays, CommitStays, SignalStays
<1>2. CASE \E p \in Proc : rollback(p) \/ crash(p)
  BY <1>2, RollbackStays, CrashStays
<1>3. CASE \E p \in Proc, m \in Model : create(p, m) \/ write(p, m)
  BY <1>3, CreateStays, WriteStays
<1>4. CASE \E p \in Proc, m \in Model : set_to_confirmed(p, m) \/ set_to_draft(p, m) \/ unlink(p, m)
  BY <1>4, ConfirmStays, DraftStays, UnlinkStays
<1> QED
  BY <1>1, <1>2, <1>3, <1>4, Zenon DEF Next

\* The inductive invariant holds in every reachable state.
THEOREM Invariance == ASSUME AuditConstants PROVE Spec => []IInv
<1>1. Init => IInv
  BY Initially
<1>2. IInv /\ [Next]_ruleVars => IInv'
  BY NextStays, StutterStays
<1> QED
  BY <1>1, <1>2, PTL DEF Spec

\* Every variable of AuditRules keeps its type.
THEOREM TypeCorrectness == ASSUME AuditConstants PROVE Spec => []TypeOK
<1>1. IInv => TypeOK
  BY DEF IInv
<1> QED
  BY <1>1, Invariance, PTL

\* A process in sync with the others logs exactly the methods of the confirmed rules, but
\* for the models in doubt (_register_hook, _update_registry, registry signaling).
THEOREM RegistriesMatch == ASSUME AuditConstants PROVE Spec => []RegistryMatchesRules
<1>1. IInv => RegistryMatchesRules
  BY DEF IInv, RegistryMatchesRules, InSync, RegistryFollows, InForce, Excused
<1> QED
  BY <1>1, Invariance, PTL
=============================================================================
