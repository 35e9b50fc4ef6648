------------------------------ MODULE MCMemPool ------------------------------
(* Small instances of MemPool for TLC. *)
EXTENDS MemPool, TLC

CONSTANTS p1, p2

TwoIds == {p1, p2}
Sym2   == Permutations(TwoIds)
=============================================================================
