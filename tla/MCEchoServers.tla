----------------------------- MODULE MCEchoServers -----------------------------
(* Small instances of EchoServers for TLC. *)
EXTENDS EchoServers, TLC

CONSTANTS c1, c2

TwoConns    == {c1, c2}
TwoFds      == {4, 5}
TwoAndOne   == c1 :> 2 @@ c2 :> 1
NoGarbage   == {}
AllPrograms == {"server", "server2", "server3", "server4", "server5", "server6", "reactor"}
Threads     == {"server2"}
=============================================================================
