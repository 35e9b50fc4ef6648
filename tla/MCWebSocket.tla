----------------------------- MODULE MCWebSocket -----------------------------
(* Small instances of WebSocketServer for TLC. *)
EXTENDS WebSocketServer, TLC

CONSTANTS c1, c2

TwoConns == {c1, c2}
Sym      == Permutations(TwoConns)

TwoFds  == {2, 3}
OtherFd == {3}
NoFaults  == {}
AllFaults == FaultKinds
NoHabits  == {}
Rude      == {"abrupt", "pipelined", "unruly"}
Everything == AllKinds
SmallTalk  == {"upgrade", "upgrade0", "text", "close"}
=============================================================================
