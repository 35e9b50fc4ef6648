--------------------------------- MODULE MCNet ---------------------------------
(* Small instances of NetStack for TLC. *)
EXTENDS NetStack, TLC

CONSTANTS h1, h2, d1, d2, d3

TwoHosts  == {h1, h2}
AllData   == {d1, d2, d3}

\* "00:0c:29:fb:c6:6b"
OurText   == <<0, 0, 16, 0, 12, 16, 2, 9, 16, 15, 11, 16, 12, 6, 16, 6, 11>>
OurCard   == [k \in 0..5 |-> <<0, 12, 41, 251, 198, 107>>[k + 1]]
OneHost   == {h1}
AllOnes   == [k \in 0..5 |-> 255]
Macs      == [h \in Host |-> [k \in 0..5 |-> IF k = 5 /\ h = h1 THEN 1 ELSE 2]]
NoAddress == <<>>

\* No carry, one carry, and the largest sum.
Sums      == d1 :> 0 @@ d2 :> 65536 @@ d3 :> 16 * 65535
SomeWords == {0, 65535}
=============================================================================
