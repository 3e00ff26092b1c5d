----------------------- MODULE MCSubscriptionRegistry -----------------------
(* SubscriptionRegistry on a small instance for TLC. *)
EXTENDS SubscriptionRegistry, TLC

Symmetry == Permutations(Nodes) \cup Permutations(EventTypes) \cup Permutations(Channels)
==============================================================================
