--------------------------- MODULE MCLockManager ---------------------------
(* Instances of LockManager for TLC.                                         *)
EXTENDS LockManager, TLC

CONSTANTS o1, o2, o3, p1, p2

\* Where the owners of an instance live.
OneProcess == [o \in Owners |-> p1]
OwnProcess == (o1 :> p1 @@ o2 :> p2)
ThirdShares == (o1 :> p1 @@ o2 :> p2 @@ o3 :> p1)

\* Requests are interchangeable; so are owners of one process, and two
\* processes together with their only owners.
RequestSymmetry == Permutations(Requests)
OwnerSymmetry == {a @@ b : a \in Permutations(Requests), b \in Permutations(Owners)}
ProcessSymmetry ==
  RequestSymmetry \cup
    {a @@ (o1 :> o2 @@ o2 :> o1) @@ (p1 :> p2 @@ p2 :> p1) : a \in RequestSymmetry}
=============================================================================
