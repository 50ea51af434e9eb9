------------------------- MODULE MCJobDependencies -------------------------
(* An instance of JobDependencies for TLC. *)
EXTENDS JobDependencies, TLC

CONSTANTS p1, p2, child, other

\* p1.on_done(other) beside chain(group(p1, p2), child): siblings with other parents
Skewed == p1 :> {} @@ p2 :> {} @@ child :> {p1, p2} @@ other :> {p1}

=============================================================================
