------------------------ MODULE MCOrderBookRefinement ------------------------
(* Small instances of OrderBookRefinement for TLC. *)
EXTENDS OrderBookRefinement, TLC

CONSTANTS o1, o2, o3, o4

FourIds == {o1, o2, o3, o4}
TwoPrices == {1, 2}
NoneToTwoShares == {0, 1, 2}

\* No operator orders the ids: any permutation of them is a symmetry.
IdSymmetry == Permutations(OrderIds)

\* Bound: while an order of no shares is alive, at most three orders are.
EmptyOrdersAmongThree ==
  \/ \A id \in OrderIds : orders[id] # Null => orders[id].initial > 0
  \/ \E id \in OrderIds : orders[id] = Null

BoundedNext == RNext /\ EmptyOrdersAmongThree'

BoundedSpec == RInit /\ [][BoundedNext]_rvars
=============================================================================
