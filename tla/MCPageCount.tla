----------------------------- MODULE MCPageCount -----------------------------
(* Small instances of PageCount for TLC. *)
EXTENDS PageCount, TLC

CONSTANTS w1, w2

TwoWorkers == {w1, w2}
=============================================================================
