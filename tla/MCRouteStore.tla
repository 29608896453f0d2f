----------------------------- MODULE MCRouteStore -----------------------------
(* Instances of RouteStore for TLC.                                         *)
EXTENDS RouteStore, TLC

CONSTANTS c1, c2, k1, k2

\* Every client registers every key: two emitters behind one route.
SharedKeys == [c \in Clients |-> Keys]

\* Each client registers a key of its own.
OwnKeys == (c1 :> {k1} @@ c2 :> {k2})

\* With keys of their own the clients are alike, each taken with its key.
ClientSwap == (c1 :> c2 @@ c2 :> c1 @@ k1 :> k2 @@ k2 :> k1)

Symmetry == Permutations(Guids) \cup Permutations(Jobs) \cup {ClientSwap}

=============================================================================
