------------------------ MODULE MCCppOrderBookBroker ------------------------
(* Small instances of CppOrderBookBroker for TLC. *)
EXTENDS CppOrderBookBroker

CONSTANTS c1, c2, c3, w1, w2

TwoOrders == {c1, c2}
ThreeOrders == {c1, c2, c3}
TwoIds == 1 .. 2
ThreeIds == 1 .. 3
OnePrice == {1}
TwoPrices == {1, 2}
OneShare == {1}
OneOrTwoShares == {1, 2}
ManagerOnly == {"pm"}
ManagerAndApi == {"pm", "api"}
KeptOrders == {"GoodTillCancel"}
BothTypes == {"GoodTillCancel", "FillAndKill"}
TwoSockets == {w1, w2}

\* No operator orders clients or sockets.
NameSymmetry == Permutations(Clients) \cup Permutations(Sockets)
=============================================================================
