---------------------------- MODULE MCCppTrading -----------------------------
(* A small instance of CppTrading for TLC. *)
EXTENDS CppTrading

CONSTANTS s1, o1, o2

OneSymbol == {s1}
TwoIds == {o1, o2}
LongAndShort == {-1, 1}
=============================================================================
