---------------------------- MODULE MCSimTrading -----------------------------
(* Small instances of SimTrading for TLC. *)
EXTENDS SimTrading

CONSTANTS s1, s2, o1, o2

OneSymbol == {s1}
TwoSymbols == {s1, s2}
TwoIds == {o1, o2}
LongOrShort == {-1, 0, 2}
OnlyLong == {2}
=============================================================================
