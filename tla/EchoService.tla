----------------------------- MODULE EchoService -----------------------------
(***************************************************************************)
(* What an echo server promises each client, without descriptors, events   *)
(* or buffers: what comes back is always a prefix of what was sent, it     *)
(* only grows, and a connection whose client half-closed it is closed only *)
(* after everything came back.                                             *)
(***************************************************************************)
EXTENDS Integers, Sequences

CONSTANTS Conn, MaxBytes

VARIABLES
    asked,      \* asked[c]: how many bytes c sent
    answered,   \* answered[c]: what was sent back to c
    state       \* state[c]: "up", "left", "lost" or "down"

vars == <<asked, answered, state>>

Stream(c, n) == [k \in 1..n |-> <<c, k>>]

Init ==
    /\ asked = [c \in Conn |-> 0]
    /\ answered = [c \in Conn |-> <<>>]
    /\ state = [c \in Conn |-> "up"]

Ask(c) ==
    /\ state[c] = "up" /\ asked[c] < MaxBytes
    /\ asked' = [asked EXCEPT ![c] = @ + 1]
    /\ UNCHANGED <<answered, state>>

Answer(c) ==
    /\ state[c] \in {"up", "left"}
    /\ \E n \in (Len(answered[c]) + 1)..asked[c] :
          answered' = [answered EXCEPT ![c] = Stream(c, n)]
    /\ UNCHANGED <<asked, state>>

Leave(c) ==
    /\ state[c] = "up"
    /\ state' = [state EXCEPT ![c] = "left"]
    /\ UNCHANGED <<asked, answered>>

Lose(c) ==
    /\ state[c] \in {"up", "left"}
    /\ state' = [state EXCEPT ![c] = "lost"]
    /\ UNCHANGED <<asked, answered>>

Close(c) ==
    /\ \/ state[c] = "left" /\ answered[c] = Stream(c, asked[c])
       \/ state[c] = "lost"
    /\ state' = [state EXCEPT ![c] = "down"]
    /\ UNCHANGED <<asked, answered>>

Next == \E c \in Conn : Ask(c) \/ Answer(c) \/ Leave(c) \/ Lose(c) \/ Close(c)

Spec == Init /\ [][Next]_vars
=============================================================================
