------------------------------ MODULE Delayables ------------------------------
(***************************************************************************)
(* Graphs of jobs before they are stored: delayables, which become one job *)
(* each, are combined into chains and groups and connected with on_done;   *)
(* delay connects the graphs of all of them into one graph of delayables,  *)
(* and stores its jobs, finds that they exist by their identity keys, or   *)
(* performs them at once.                                                  *)
(*                                                                         *)
(* Everything happens in the memory of one session.  "declared" remembers  *)
(* what the caller has asked for.                                          *)
(***************************************************************************)
EXTENDS Naturals, FiniteSets, Sequences

CONSTANTS
  Leaf,        \* Delayable objects
  Container,   \* DelayableChain and DelayableGroup objects
  Keyed,       \* the delayables with an identity key, all different
  MaxMembers,  \* bound: arguments of chain and group
  MaxOnDone    \* bound: calls of on_done

Node == Leaf \cup Container

DelayablesAssumption ==
  /\ Leaf \cap Container = {}
  /\ IsFiniteSet(Node)
  /\ Keyed \subseteq Leaf
  /\ {MaxMembers, MaxOnDone} \subseteq Nat

Kinds == {"none", "chain", "group"}
Phases == {"build", "stored", "skipped", "direct"}
NoJob == [vertices |-> {}, edges |-> {}]

VARIABLES
  kind,       \* what a container is, "none" before it is created
  members,    \* its arguments
  edges,      \* the edges in the _graph of a node
  declared,   \* history: the pairs (earlier, later) asked for at a node
  onDone,     \* bounded by MaxOnDone
  existing,   \* the keyed delayables whose key an active row has
  phase,
  root,       \* the nodes that delay was called on: none, or one
  built,      \* the connected graph
  generated,  \* the delayables whose _generated_job is the existing record
  stored,     \* the delayables whose jobs are stored
  queue,      \* topological_sort: the vertices to yield
  depends,    \* topological_sort: depends_per_node
  performed   \* history: the order of _execute_graph_direct

graphVars == <<kind, members, edges, declared, onDone>>
jobVars == <<phase, root, built, generated, stored>>
directVars == <<queue, depends, performed>>
vars == <<graphVars, existing, jobVars, directVars>>

Elements(s) == {s[i] : i \in DOMAIN s}
Created == Leaf \cup {c \in Container : kind[c] # "none"}

-----------------------------------------------------------------------------
(* The connected graph *)

Init ==
  /\ kind = [c \in Container |-> "none"]
  /\ members = [c \in Container |-> <<>>]
  /\ edges = [n \in Node |-> {}]
  /\ declared = [n \in Node |-> {}]
  /\ onDone = 0
  /\ existing = {}
  /\ phase = "build"
  /\ root = {}
  /\ built = NoJob
  /\ generated = {}
  /\ stored = {}
  /\ queue = {}
  /\ depends = [l \in Leaf |-> 0]
  /\ performed = <<>>

\* vertices() of the _graph of a node.
Vertices(n) == (IF n \in Leaf THEN {n} ELSE Elements(members[n]))
               \cup {e[2] : e \in edges[n]}

Opposite(side) == IF side = "head" THEN "tail" ELSE "head"

\* _head and _tail.  A chain asks its first member for its tail, and its last
\* member for its head.
Ends[e \in {"head", "tail"} \X Node] ==
  LET side == e[1]
      n == e[2]
  IN CASE n \in Leaf -> {n}
       [] n \in Container /\ kind[n] = "chain" ->
            Ends[<<Opposite(side), members[n][IF side = "head" THEN 1 ELSE Len(members[n])]>>]
       [] OTHER -> UNION {Ends[<<side, m>>] : m \in Elements(members[n])}

\* The nodes that _connect_graphs visits from n.
Visited(n) ==
  LET V[k \in 0..Cardinality(Node)] ==
        IF k = 0 THEN {n} ELSE LET W == V[k-1] IN W \cup UNION {Vertices(m) : m \in W}
  IN V[Cardinality(Node)]

\* _merge_graph on one edge between nodes: each tail to each head.
Connected_heads_mutant(e) == Ends[<<"head", e[1]>>] \X Ends[<<"head", e[2]>>]
Connected(e) == Ends[<<"tail", e[1]>>] \X Ends[<<"head", e[2]>>]

\* The graph of delayables that n stands for.
connect_graphs(n) ==
  [vertices |-> UNION {Ends[<<"tail", v>>] : v \in UNION {Vertices(m) : m \in Visited(n)}},
   edges |-> UNION {Connected(e) : e \in UNION {edges[m] : m \in Visited(n)}}]

\* The pairs of delayables that E orders, directly or not.
Closure[E \in SUBSET (Leaf \X Leaf)] ==
  LET F == E \cup UNION {{<<e[1], f[2]>> : f \in {g \in E : g[1] = e[2]}} : e \in E}
  IN IF F = E THEN E ELSE Closure[F]

-----------------------------------------------------------------------------
(* Reference: what chain, group and on_done are documented to mean *)

\* The delayables inside a node.
Leaves[n \in Node] ==
  IF n \in Leaf THEN {n} ELSE UNION {Leaves[m] : m \in Elements(members[n])}

\* Everything in the earlier node comes before everything in the later one.
Intended(pairs) == Closure[UNION {Leaves[p[1]] \X Leaves[p[2]] : p \in pairs}]

Acyclic(E) == \A l \in Leaf : <<l, l>> \notin E

\* The caller asks for no order that contradicts itself.
Consistent == Acyclic(Intended(UNION {declared[m] : m \in Node}))

\* The caller asks for the pairs at n.
Declare(n, pairs) ==
  /\ declared' = [declared EXCEPT ![n] = @ \cup pairs]
  /\ Consistent'

-----------------------------------------------------------------------------
(* Construction *)

Arguments == UNION {[1..k -> Created] : k \in 1..MaxMembers}

Create(c, k, args) ==
  /\ phase = "build"
  /\ kind[c] = "none"
  /\ \A i, j \in DOMAIN args : args[i] = args[j] => i = j
  /\ kind' = [kind EXCEPT ![c] = k]
  /\ members' = [members EXCEPT ![c] = args]
  /\ UNCHANGED <<onDone, existing, jobVars, directVars>>

group(c) ==
  \E args \in Arguments :
    /\ Create(c, "group", args)
    /\ UNCHANGED <<edges, declared>>

chain(c) ==
  \E args \in Arguments :
    LET links == {<<args[i], args[i+1]>> : i \in 1..Len(args)-1}
    IN /\ Create(c, "chain", args)
       /\ edges' = [edges EXCEPT ![c] = links]
       /\ Declare(c, links)

\* The edges that n.on_done(child) adds: from the delayable, from the last
\* member of a chain, or from each member of a group.
OnDoneEdges(n, child) ==
  CASE n \in Leaf -> {<<n, child>>}
    [] n \in Container /\ kind[n] = "chain" -> {<<members[n][Len(members[n])], child>>}
    [] OTHER -> Elements(members[n]) \X {child}

on_done(n, child) ==
  /\ phase = "build"
  /\ onDone < MaxOnDone
  /\ onDone' = onDone + 1
  /\ {n, child} \subseteq Created
  /\ edges' = [edges EXCEPT ![n] = @ \cup OnDoneEdges(n, child)]
  /\ UNCHANGED <<kind, members, existing, jobVars, directVars>>
  /\ Declare(n, {<<n, child>>})

-----------------------------------------------------------------------------
(* DelayableGraph.delay *)

Build(n) ==
  /\ phase = "build"
  /\ n \in Created
  /\ root' = {n}
  /\ built' = connect_graphs(n)
  /\ existing' \in SUBSET (Keyed \cap built'.vertices)
  /\ UNCHANGED graphVars

\* The vertices with an identity key, all of which exist already.
AllExist(V) == V \cap Keyed # {} /\ V \cap Keyed \subseteq existing'

Stored_each_mutant(V) == V \ existing'  \* each job looks for its own key

\* The jobs that are stored: all of the graph or none.
Stored(V) == IF AllExist(V) THEN {} ELSE V

\* At least one job with an identity key is new, or none has a key.
delay(n) ==
  /\ Build(n)
  /\ ~AllExist(built'.vertices)
  /\ phase' = "stored"
  /\ stored' = Stored(built'.vertices)
  /\ UNCHANGED <<generated, directVars>>

\* All the identity keys exist: nothing is stored.  The loop that replaces the
\* generated jobs returns after its first turn.
delay_existing(n) ==
  /\ Build(n)
  /\ AllExist(built'.vertices)
  /\ phase' = "skipped"
  /\ stored' = Stored(built'.vertices)
  /\ \E v \in built'.vertices \cap Keyed : generated' = {v}
  /\ UNCHANGED directVars

DependsOn(v) == {u \in built.vertices : <<u, v>> \in built.edges}

\* root_vertices.
Roots_mutant(G) == {v \in G.vertices : \A w \in G.vertices : <<v, w>> \notin G.edges}
Roots(G) == {v \in G.vertices : \A u \in G.vertices : <<u, v>> \notin G.edges}

\* queue_job__no_delay: the jobs are performed in the order of topological_sort.
execute_graph_direct(n) ==
  /\ Build(n)
  /\ phase' = "direct"
  /\ queue' = Roots(built')
  /\ depends' = [v \in Leaf |-> Cardinality({e \in built'.edges : e[2] = v})]
  /\ UNCHANGED <<generated, stored, performed>>

\* topological_sort yields v: the vertices it was the last parent of are next.
Resolved_mutant(v) == {w \in Leaf : <<v, w>> \in built.edges}
Resolved(v) == {w \in Leaf : <<v, w>> \in built.edges /\ depends[w] = 1}

execute_direct(v) ==
  /\ v \in queue
  /\ performed' = Append(performed, v)
  /\ depends' = [w \in Leaf |-> IF <<v, w>> \in built.edges THEN depends[w] - 1 ELSE depends[w]]
  /\ queue' = (queue \ {v}) \cup Resolved(v)
  /\ UNCHANGED <<graphVars, existing, jobVars>>

Next ==
  \/ \E c \in Container : group(c) \/ chain(c)
  \/ \E n, child \in Node : on_done(n, child)
  \/ \E n \in Node : delay(n) \/ delay_existing(n) \/ execute_graph_direct(n)
  \/ \E v \in Leaf : execute_direct(v)

Spec == Init /\ [][Next]_vars

-----------------------------------------------------------------------------
(* Properties *)

TypeOK ==
  /\ kind \in [Container -> Kinds]
  /\ \A c \in Container : members[c] \in Seq(Node)
  /\ {edges, declared} \subseteq [Node -> SUBSET (Node \X Node)]
  /\ onDone \in Nat
  /\ existing \subseteq Keyed
  /\ phase \in Phases
  /\ root \subseteq Node
  /\ built \in [vertices : SUBSET Leaf, edges : SUBSET (Leaf \X Leaf)]
  /\ {generated, stored, queue} \subseteq SUBSET Leaf
  /\ depends \in [Leaf -> Nat]
  /\ performed \in Seq(Leaf)

\* What the caller has asked for at the nodes that delay visits.
Asked == Intended(UNION {UNION {declared[m] : m \in Visited(n)} : n \in root})

\* The delayables in a node, or behind it.
Reached == UNION {Leaves[m] : m \in UNION {Visited(n) : n \in root}}

\* A chain begins or ends with a node whose heads are not its tails, which
\* makes _head and _tail answer for the wrong side (ChainsAreSequential).
NestedEnds ==
  \E c \in (UNION {Visited(n) : n \in root}) \cap Container :
    /\ kind[c] = "chain"
    /\ \E i \in {1, Len(members[c])} :
         Ends[<<"head", members[c][i]>>] # Ends[<<"tail", members[c][i]>>]

\* The connected graph has a job for every delayable that delay reaches, and
\* orders them as chains, groups and on_done mean: never more, and exactly so
\* unless a chain is nested at the end of a chain.
GraphIsIntended ==
  LET order == Closure[built.edges]
  IN phase # "build" =>
       /\ built.vertices = Reached
       /\ order \subseteq Asked
       /\ order = Asked \/ NestedEnds

\* A job that is stored depends on stored jobs only, so that it does not wait
\* for a parent that an identity key has kept from being created.
ParentsAreStored == \A v \in stored : DependsOn(v) \subseteq stored

\* Without delay each job is performed once, after those it depends on, and
\* none is left out.
DirectIsTopological ==
  phase = "direct" =>
    /\ \A j \in DOMAIN performed :
         DependsOn(performed[j]) \subseteq {performed[i] : i \in 1..j-1}
    /\ \A i, j \in DOMAIN performed : i # j => performed[i] # performed[j]
    /\ queue = {} => Elements(performed) = built.vertices

\* delay.py:304 "A chain means that jobs must be executed sequentially."
ChainsAreSequential ==
  phase # "build" => Asked \subseteq Closure[built.edges]

=============================================================================
