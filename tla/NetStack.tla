-------------------------------- MODULE NetStack --------------------------------
(***************************************************************************)
(* The echo program on netmap `6 netstack/icmp_arp_udp_success.c`, and the *)
(* hosts of its segment.  main takes one frame from the receive ring for   *)
(* each poll() and answers ARP requests for its address, ICMP echo         *)
(* requests and UDP datagrams; what nm_inject() finds no room for is lost. *)
(*                                                                         *)
(* A frame is a record of the fields that the handlers read or write.  The *)
(* 32 bytes of an ICMP message are a model value with the sum of its words.*)
(* The hosts, their ARP tables and the rings are environment: a host sends *)
(* frames for any address, to the MAC address it has resolved or to all.   *)
(***************************************************************************)
EXTENDS Integers, Sequences, FiniteSets

CONSTANTS
    Host,           \* the other hosts; each stands for its IP address
    MyIp,           \* the address main answers for
    OtherIp,        \* an address of nobody, or of all
    hmac,           \* the text of its MAC address that main passes on
    HostMac,        \* HostMac[h]: the MAC address of host h
    OurMac,         \* the address of its card
    Known,          \* the hosts that know it from an earlier run of the program
    Broadcast,      \* the MAC address of all
    NoMac,
    Data,           \* payloads
    NoData,         \* an empty payload
    DataSum,        \* DataSum[d]: the sum of the 16 words of payload d
    Word,           \* bound: identifiers, sequence numbers and ports in use
    RxSlots,        \* slots of the receive ring
    TxSlots,        \* slots of the transmit ring
    MaxAsked        \* bound: different frames the hosts send

Short    == 256 * 256   \* as many values as an unsigned short has
Colon    == 16      \* stands for ':' in a text, and 0 to 15 for a digit
ETH_ALEN == 6
Mac      == [0..(ETH_ALEN - 1) -> 0..255]
Ip       == Host \cup {MyIp, OtherIp}

ASSUME HostAssumption ==
    /\ MyIp \notin Host /\ OtherIp \notin Host /\ MyIp # OtherIp
    /\ HostMac \in [Host -> Mac] /\ Broadcast \in Mac /\ NoMac \notin Mac
    /\ OurMac \in Mac /\ Known \subseteq Host
ASSUME DataAssumption ==
    /\ NoData \notin Data /\ DataSum \in [Data -> 0..(16 * (Short - 1))]
    /\ Word \subseteq 0..(Short - 1)
ASSUME TextAssumption == hmac \in Seq(0..Colon)
ASSUME SlotAssumption == RxSlots \in Nat /\ TxSlots \in Nat /\ MaxAsked \in Nat

VARIABLES
    rx,         \* frames in the receive ring
    tx,         \* frames in the transmit ring
    arp,        \* arp[h]: the MAC address host h has for MyIp, or NoMac
    asked       \* history: the frames of the hosts that reached the ring

vars == <<rx, tx, arp, asked>>

Init ==
    /\ rx = <<>> /\ tx = <<>> /\ asked = {}
    /\ arp = [h \in Host |-> IF h \in Known THEN OurMac ELSE NoMac]

-----------------------------------------------------------------------------
(* Helpers of the program *)

\* Two digits for each byte, and colons between them.
print_mac(mac) ==
    [k \in 1..(3 * ETH_ALEN - 1) |->
        CASE k % 3 = 1 -> mac[k \div 3] \div 16
          [] k % 3 = 2 -> mac[k \div 3] % 16
          [] OTHER     -> Colon]

\* Mutant of Digit: value, an unsigned char, is added to and not shifted.
Digit_Adds(value, ch) == (value + ch) % 256

\* A digit is shifted into value, an unsigned char.
Digit(value, ch) == ((value * 16) % 256) + ch

\* What str2mac leaves in mac: a colon, and the end, finish a byte.
str2mac(mac, str) ==
    LET scan[n \in 0..Len(str)] ==
            IF n = 0 THEN [mac |-> mac, i |-> 0, value |-> 0]
            ELSE LET s == scan[n - 1]
                 IN  IF str[n] = Colon
                     THEN [mac |-> [s.mac EXCEPT ![s.i] = s.value], i |-> s.i + 1, value |-> 0]
                     ELSE [s EXCEPT !.value = Digit(@, str[n])]
        last == scan[Len(str)]
    IN  [last.mac EXCEPT ![last.i] = last.value]

\* From the sum of the 16-bit words on: two foldings and the complement, as an
\* unsigned short.
in_cksum(sum) ==
    LET folded == (sum \div Short) + (sum % Short)
    IN  Short - 1 - ((folded + (folded \div Short)) % Short)

\* The sum of the words of an ICMP message, on a little-endian machine.
IcmpSum(m) == m.type + 256 * m.code + m.check + m.identifier + m.seq + DataSum[m.data]

-----------------------------------------------------------------------------
(* The three answers *)

\* memcpy() of the request, and then the fields that differ.
echo_arp_pkt(p) ==
    LET mac == str2mac(p.h_source, hmac)
    IN  [p EXCEPT !.h_dest = p.h_source, !.h_source = mac, !.oper = 2,
                  !.smac = mac, !.sip = p.dip, !.dmac = p.smac, !.dip = p.sip]

\* Only the headers: struct udppkt ends where the body begins.
echo_udp_pkt(p) ==
    [p EXCEPT !.h_dest = p.h_source, !.h_source = p.h_dest,
              !.saddr = p.daddr, !.daddr = p.saddr,
              !.source = p.dest, !.dest = p.source, !.body = NoData]

\* Mutant of echo_icmp_pkt: the addresses are swapped in place.
echo_icmp_pkt_InPlace(p) ==
    LET r == [p EXCEPT !.h_dest = p.h_source, !.h_source = p.h_dest,
                       !.saddr = p.daddr, !.daddr = p.daddr,
                       !.type = 0, !.code = 0, !.check = 0]
    IN  [r EXCEPT !.check = in_cksum(IcmpSum(r))]

\* Mutant of echo_icmp_pkt: the sum is taken over the old check field.
echo_icmp_pkt_KeepsCheck(p) ==
    LET r == [p EXCEPT !.h_dest = p.h_source, !.h_source = p.h_dest,
                       !.saddr = p.daddr, !.daddr = p.saddr, !.type = 0, !.code = 0]
    IN  [r EXCEPT !.check = in_cksum(IcmpSum(r))]

echo_icmp_pkt(p) ==
    LET r == [p EXCEPT !.h_dest = p.h_source, !.h_source = p.h_dest,
                       !.saddr = p.daddr, !.daddr = p.saddr,
                       !.type = 0, !.code = 0, !.check = 0]
    IN  [r EXCEPT !.check = in_cksum(IcmpSum(r))]

-----------------------------------------------------------------------------
(* The loop of main: one frame for each poll() *)

nm_nextpkt == rx # <<>> /\ rx' = Tail(rx)

nm_inject(p) == tx' = IF Len(tx) < TxSlots THEN Append(tx, p) ELSE tx

AnswerArp ==
    /\ nm_nextpkt
    /\ Head(rx).proto = "arp" /\ Head(rx).dip = MyIp
    /\ nm_inject(echo_arp_pkt(Head(rx)))
    /\ UNCHANGED <<arp, asked>>

AnswerUdp ==
    /\ nm_nextpkt
    /\ Head(rx).proto = "udp"
    /\ nm_inject(echo_udp_pkt(Head(rx)))
    /\ UNCHANGED <<arp, asked>>

AnswerIcmp ==
    /\ nm_nextpkt
    /\ Head(rx).proto = "icmp" /\ Head(rx).type = 8
    /\ nm_inject(echo_icmp_pkt(Head(rx)))
    /\ UNCHANGED <<arp, asked>>

\* IGMP, another protocol, another message or another address.
Ignore ==
    /\ nm_nextpkt
    /\ \/ Head(rx).proto = "other"
       \/ Head(rx).proto = "arp" /\ Head(rx).dip # MyIp
       \/ Head(rx).proto = "icmp" /\ Head(rx).type # 8
    /\ UNCHANGED <<tx, arp, asked>>

Main == AnswerArp \/ AnswerUdp \/ AnswerIcmp \/ Ignore

-----------------------------------------------------------------------------
(* The hosts *)

\* A frame that reaches the ring; one that finds it full is never seen.
Arrives(p) ==
    /\ Len(rx) < RxSlots
    /\ rx' = Append(rx, p)
    /\ asked' = asked \cup {p}
    /\ UNCHANGED <<tx, arp>>

\* Requests, and the announcements some systems send (oper 2).
ArpRequest(h, dip, oper) ==
    [proto |-> "arp", h_dest |-> Broadcast, h_source |-> HostMac[h], oper |-> oper,
     smac |-> HostMac[h], sip |-> h, dmac |-> Broadcast, dip |-> dip]

UdpRequest(h, mac, ip, source, dest, d) ==
    [proto |-> "udp", h_dest |-> mac, h_source |-> HostMac[h], saddr |-> h, daddr |-> ip,
     source |-> source, dest |-> dest, len |-> d, body |-> d]

IcmpRequest(h, mac, ip, type, id, seq, d) ==
    LET m == [proto |-> "icmp", h_dest |-> mac, h_source |-> HostMac[h], saddr |-> h,
              daddr |-> ip, type |-> type, code |-> 0, check |-> 0,
              identifier |-> id, seq |-> seq, data |-> d]
    IN  [m EXCEPT !.check = in_cksum(IcmpSum(m))]

\* Where host h sends a datagram that reaches the program: to the address it has
\* for MyIp, or to all.  main looks neither at h_dest nor at daddr.
Reaching(h) == {arp[h], Broadcast} \ {NoMac}

\* A host asks for MyIp, for another address or for its own.
Ask(h) == \E dip \in Ip, oper \in {1, 2} : Arrives(ArpRequest(h, dip, oper))

SendUdp(h) ==
    \E mac \in Reaching(h), ip \in Ip \ {h}, source, dest \in Word, d \in Data :
        Arrives(UdpRequest(h, mac, ip, source, dest, d))

\* An echo request (8) or another message, a time-stamp request for one.
SendIcmp(h) ==
    \E mac \in Reaching(h), ip \in Ip \ {h}, type \in {8, 13}, id, seq \in Word, d \in Data :
        Arrives(IcmpRequest(h, mac, ip, type, id, seq, d))

SendOther(h) ==
    Arrives([proto |-> "other", h_dest |-> Broadcast, h_source |-> HostMac[h]])

\* A new frame, as long as the bound allows; one that was sent before may be
\* sent again at any time.
SendNew(h) ==
    /\ Cardinality(asked) < MaxAsked
    /\ Ask(h) \/ SendUdp(h) \/ SendIcmp(h) \/ SendOther(h)

SendAgain == \E p \in asked : Arrives(p)

\* The next frame of the transmit ring reaches the host it is for, which
\* learns from an ARP reply that is for it.
Deliver ==
    /\ tx # <<>>
    /\ tx' = Tail(tx)
    /\ arp' = [h \in Host |->
                  IF /\ Head(tx).proto = "arp" /\ Head(tx).h_dest = HostMac[h]
                     /\ Head(tx).sip = MyIp /\ Head(tx).dip = h
                  THEN Head(tx).smac ELSE arp[h]]
    /\ UNCHANGED <<rx, asked>>

\* An entry of an ARP table times out.
Forget(h) ==
    /\ arp[h] # NoMac
    /\ arp' = [arp EXCEPT ![h] = NoMac]
    /\ UNCHANGED <<rx, tx, asked>>

Next ==
    \/ Main \/ Deliver \/ SendAgain
    \/ \E h \in Host : SendNew(h) \/ Forget(h)

Spec == Init /\ [][Next]_vars

-----------------------------------------------------------------------------
(* Properties *)

Frames(ring) == {ring[n] : n \in 1..Len(ring)}

\* What a host learns is the address the program was given as a text: str2mac
\* undoes print_mac.
HostsLearnUs == \A h \in Host : arp[h] # NoMac => print_mac(arp[h]) = hmac

\* Every frame that is sent answers one that a host sent: it goes back to that
\* host, at both layers, from the addresses the host had written to (a broadcast
\* address too), with its ports the other way round or its identifier, number
\* and payload.  No field is read after it was overwritten, and no answer has
\* parts of two questions.
Answers(p, q) ==
    /\ p.proto = q.proto /\ p.h_dest = q.h_source
    /\ p.proto = "arp" =>
           /\ q.dip = MyIp /\ p.sip = q.dip /\ p.h_source = p.smac
           /\ p.oper = 2 /\ p.dmac = q.smac /\ p.dip = q.sip
    /\ p.proto # "arp" => p.h_source = q.h_dest /\ p.saddr = q.daddr /\ p.daddr = q.saddr
    /\ p.proto = "udp" => p.source = q.dest /\ p.dest = q.source
    /\ p.proto = "icmp" =>
           q.type = 8 /\ p.identifier = q.identifier /\ p.seq = q.seq /\ p.data = q.data

RepliesReturn == \A p \in Frames(tx) : \E q \in asked : Answers(p, q)

\* A host that adds up an echo reply gets 0, whatever the 32 bytes of payload
\* and however often the sum runs over 16 bits.
ChecksumRight ==
    \A p \in Frames(tx) : p.proto = "icmp" => p.type = 0 /\ in_cksum(IcmpSum(p)) = 0
=============================================================================
