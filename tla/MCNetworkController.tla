------------------------ MODULE MCNetworkController ------------------------
(* Small instances of NetworkController for TLC. *)
EXTENDS NetworkController, TLC

CONSTANTS a, b, c

TwoClients == {a, b}
ThreeClients == {a, b, c}

\* Every client on a host of its own.
OwnAddresses == [x \in Clients |-> x]

\* The clients are interchangeable: addresses are permuted with them.
Symmetry == Permutations(Clients)
=============================================================================
