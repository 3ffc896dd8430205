----------------------------- MODULE MCTransfer -----------------------------
(***************************************************************************)
(* A small instance of Transfer: an agent Bot and a console Bot over one    *)
(* store, two ids, a small and a large file.  The large file fills the      *)
(* store, a Bot's quota and the working copies by itself, so every budget   *)
(* is met and exceeded.                                                     *)
(***************************************************************************)
EXTENDS Transfer, TLC

CONSTANTS b1, b2, small, large, t1, t2
TwoBots == {b1, b2}
Agents == {b1}
OneWay == {<<b1, b2>>}
SmallFiles == {<<b1, small>>}
Console == {b2}
TwoIds == {t1, t2}
Interchangeable == Permutations(TwoIds)
TwoDigests == {small, large}
Sizes == [d \in TwoDigests |-> IF d = small THEN 1 ELSE 2]
=============================================================================
