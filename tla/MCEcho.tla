------------------------------- MODULE MCEcho --------------------------------
(* Small instances of EchoReactor for TLC. *)
EXTENDS EchoReactor, TLC

CONSTANTS c1, c2

TwoConns == {c1, c2}
Sym      == Permutations(TwoConns)

TwoFds    == {2, 3}
HighFds   == {3, 4}
NoFaults  == {}
AllFaults == FaultKinds
=============================================================================
