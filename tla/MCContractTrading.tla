-------------------------- MODULE MCContractTrading --------------------------
(* Small instances of ContractTrading for TLC. *)
EXTENDS ContractTrading, TLC

CONSTANTS s1, s2, o1, o2, o3

TwoSymbols == {s1, s2}
ThreeIds == {o1, o2, o3}
FlatLongAndShort == {-1, 0, 2}

\* No operator orders the ids or the symbols.
IdSymmetry == Permutations(OrderIds) \cup Permutations(Symbols)
=============================================================================
