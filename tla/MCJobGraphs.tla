---------------------------- MODULE MCJobGraphs ----------------------------
(***************************************************************************)
(* Instances for TLC of what happens to a graph of jobs outside the runner *)
(* and its workers: Delayables before its jobs are stored, JobDependencies *)
(* while they are performed.  A behaviour is one of the component `part`;  *)
(* the variables of the other stay as they are.  The names of              *)
(* JobDependencies keep their meaning here.                                *)
(***************************************************************************)
EXTENDS JobDependencies, Sequences, FiniteSets, TLC

VARIABLE part
-----------------------------------------------------------------------------
(* Graphs of delayables *)

CONSTANTS l1, l2, l3, l4, g1, g2, Leaf, Container, Keyed, MaxMembers, MaxOnDone
VARIABLES kind, members, edges, declared, onDone, existing, phase, root, built,
          generated, stored, queue, depends, performed
delayableVars == <<kind, members, edges, declared, onDone, existing, phase, root,
                   built, generated, stored, queue, depends, performed>>

Graph == INSTANCE Delayables
-----------------------------------------------------------------------------
(* Dependencies of jobs, in two sessions *)

CONSTANTS j1, j2, j3, s1, s2

Pair == j1 :> {} @@ j2 :> {} @@ j3 :> {j1, j2}
-----------------------------------------------------------------------------
GraphSymmetry ==
  UNION {Permutations(S) : S \in {{l1, l2}, {l3, l4}, {g1, g2}, {j1, j2}, {s1, s2}}}
-----------------------------------------------------------------------------
ASSUME Constants == Graph!DelayablesAssumption /\ DependenciesAssumption

graphVars == <<part, delayableVars, vars>>

GraphsInit == /\ part \in {"delayables", "dependencies"}
              /\ Graph!Init /\ Init

GraphsNext == /\ UNCHANGED part
              /\ \/ part = "delayables" /\ Graph!Next /\ UNCHANGED vars
                 \/ part = "dependencies" /\ Next /\ UNCHANGED delayableVars

GraphsSpec == GraphsInit /\ [][GraphsNext]_graphVars
-----------------------------------------------------------------------------

\* Types, in the two components; a topological sort counts no parent below zero.
TypesOK == Graph!TypeOK /\ TypeOK

\* Chains, groups and on_done are connected as they mean: a job follows nothing it was
\* not asked to follow, and all it was, unless a chain is at the end of a chain.
GraphIsIntended == Graph!GraphIsIntended
\* A job is stored only with all its parents, whichever identity keys exist.
ParentsAreStored == Graph!ParentsAreStored
\* Performed at once, the jobs run each once and after their parents.
DirectIsTopological == Graph!DirectIsTopological

=============================================================================
