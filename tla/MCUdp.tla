--------------------------------- MODULE MCUdp ---------------------------------
(* Small instances of UdpServer for TLC. *)
EXTENDS UdpServer, TLC

CONSTANTS p1, p2

TwoPeers   == {p1, p2}
ThreeFds   == 5..7
=============================================================================
