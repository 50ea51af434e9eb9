----------------------------- MODULE MCChannels -----------------------------
(* Instances of Channels for TLC: three jobs and up to three channels. *)
EXTENDS Channels, TLC

CONSTANTS j1, j2, j3, root, a, b

Ranks == j1 :> 1 @@ j2 :> 2 @@ j3 :> 3
NoParents == [j \in {j1, j2, j3} |-> {}]

\* Two jobs in a channel and one in its sibling.
Apart == j1 :> a @@ j2 :> a @@ j3 :> b
Tree == a :> root @@ b :> root
TreeOrder == a :> 1 @@ b :> 2 @@ root :> 3

\* Channel a is sequential, b is not limited; the root is as narrow as a.
NarrowCapacity == a :> 1 @@ b :> 0 @@ root :> 1
\* Channel a is throttled.
ThrottleA == a :> 2 @@ b :> 0 @@ root :> 0

\* Everything in one sequential channel under the root.
Together == [j \in {j1, j2, j3} |-> a]
Line == a :> root
LineOrder == a :> 1 @@ root :> 2
LineCapacity == a :> 1 @@ root :> 1
LineThrottle == a :> 0 @@ root :> 0

\* j3 depends on j1, in the other channel.
AcrossParents == j1 :> {} @@ j2 :> {} @@ j3 :> {j1}

\* j2 depends on j1.
ChainParents == j1 :> {} @@ j2 :> {j1}
ChainRanks == j1 :> 1 @@ j2 :> 2
ChainChannels == j1 :> a @@ j2 :> a

=============================================================================
