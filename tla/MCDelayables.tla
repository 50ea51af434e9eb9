---------------------------- MODULE MCDelayables ----------------------------
(* Instances of Delayables for TLC. *)
EXTENDS Delayables, TLC

CONSTANTS a, b, c, d, x, y

\* The containers are alike, and so are the delayables with a key and those
\* without.
DelayableSymmetry ==
  {f @@ g @@ h : f \in Permutations({a, b}), g \in Permutations({c, d}),
                 h \in Permutations({x, y})}

=============================================================================
