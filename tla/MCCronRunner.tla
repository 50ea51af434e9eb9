---------------------------- MODULE MCCronRunner ----------------------------
(* Instances of CronRunner for TLC. *)
EXTENDS CronRunner, TLC

\* chain(group(1, 2), 3)
Pair == 1 :> {} @@ 2 :> {} @@ 3 :> {1, 2}
\* And a second child of 1.
Fork == Pair @@ 4 :> {1}

=============================================================================
