------------------------------- MODULE NetProofs -------------------------------
(***************************************************************************)
(* Theorems about the two programs that answer datagrams: NetStack, for    *)
(* any hosts, payloads and ring sizes, and UdpServer, for any set of peers *)
(* and of descriptors and any number of datagrams.                         *)
(***************************************************************************)
EXTENDS NetStack, UdpServer, TLAPS

LEMMA ShortNat == Short \in Nat /\ Short > 64
  BY DEF Short

\* Quotient and remainder are determined, and there always are some.
LEMMA Halves ==
    ASSUME NEW w \in Nat, w > 0, NEW n \in Nat, NEW q \in Nat, NEW r \in Nat, r < w, n = w * q + r
    PROVE  n \div w = q /\ n % w = r
  OBVIOUS

LEMMA Split ==
    ASSUME NEW w \in Nat, w > 0, NEW n \in Nat
    PROVE  \E q \in Nat : \E r \in Nat : r < w /\ n = w * q + r
<1>1. n \div w \in Nat /\ n % w \in Nat /\ n % w < w /\ n = w * (n \div w) + (n % w)
  OBVIOUS
<1>2. QED
  BY <1>1

\* in_cksum gives an unsigned short that makes the sum right: a receiver that
\* adds it to the same words folds them to 0.  An int that is not negative, as
\* the sum of in_cksum, is below the bound.
LEMMA CksumVerifies ==
    ASSUME NEW sum \in Nat, sum < Short * (Short - 1)
    PROVE  in_cksum(sum) \in 0..(Short - 1) /\ in_cksum(sum + in_cksum(sum)) = 0
<1>1. PICK q \in Nat : \E r \in Nat : r < Short /\ sum = Short * q + r
  <2>1. Short \in Nat /\ Short > 0
    BY ShortNat
  <2>2. QED
    BY <2>1, Split
<1>2. PICK r \in Nat : r < Short /\ sum = Short * q + r
  BY <1>1
<1>3. q < Short - 1
  BY <1>2 DEF Short
<1>4. sum \div Short = q /\ sum % Short = r
  BY <1>2, Halves, ShortNat
<1>5. CASE q + r < Short
  <2>1. in_cksum(sum) = Short - 1 - (q + r)
    <3>1. q + r = Short * 0 + (q + r)
      BY ShortNat
    <3>2. (q + r) \div Short = 0 /\ (q + r) % Short = q + r
      BY <1>5, <3>1, Halves, ShortNat
    <3>3. QED
      BY <1>4, <3>2 DEF in_cksum
  <2>2. sum + in_cksum(sum) = Short * q + (Short - 1 - q)
    BY <1>2, <2>1, ShortNat
  <2>3. (sum + in_cksum(sum)) \div Short = q /\ (sum + in_cksum(sum)) % Short = Short - 1 - q
    <3>1. sum + in_cksum(sum) \in Nat /\ Short - 1 - q \in Nat /\ Short - 1 - q < Short
      BY <1>3, <1>5, <2>1, ShortNat
    <3>2. QED
      BY <2>2, <3>1, Halves, ShortNat
  <2>4. in_cksum(sum + in_cksum(sum)) = 0
    <3>1. q + (Short - 1 - q) = Short - 1 /\ Short - 1 = Short * 0 + (Short - 1)
      BY ShortNat
    <3>2. (Short - 1) \div Short = 0 /\ (Short - 1) % Short = Short - 1
      BY <3>1, Halves, ShortNat
    <3>3. QED
      BY <2>3, <3>1, <3>2, ShortNat DEF in_cksum
  <2>5. QED
    BY <1>5, <2>1, <2>4, ShortNat
<1>6. CASE q + r >= Short
  <2>1. in_cksum(sum) = 2 * Short - 2 - (q + r)
    <3>1. /\ q + r = Short * 1 + (q + r - Short)
          /\ q + r - Short \in Nat /\ q + r - Short < Short
          /\ q + r + 1 = Short * 1 + (q + r + 1 - Short)
          /\ q + r + 1 - Short \in Nat /\ q + r + 1 - Short < Short
      BY <1>2, <1>3, <1>6, ShortNat
    <3>2. (q + r) \div Short = 1
      BY <3>1, Halves, ShortNat
    <3>3. (q + r + 1) % Short = q + r + 1 - Short
      BY <3>1, Halves, ShortNat
    <3>4. QED
      BY <1>4, <3>2, <3>3, ShortNat DEF in_cksum
  <2>2. sum + in_cksum(sum) = Short * (q + 1) + (Short - 2 - q)
    BY <1>2, <2>1, ShortNat
  <2>3. /\ (sum + in_cksum(sum)) \div Short = q + 1
        /\ (sum + in_cksum(sum)) % Short = Short - 2 - q
    <3>1. sum + in_cksum(sum) \in Nat /\ Short - 2 - q \in Nat /\ Short - 2 - q < Short
      BY <1>2, <1>3, <1>6, <2>1, ShortNat
    <3>2. QED
      BY <2>2, <3>1, Halves, ShortNat
  <2>4. in_cksum(sum + in_cksum(sum)) = 0
    <3>1. q + 1 + (Short - 2 - q) = Short - 1 /\ Short - 1 = Short * 0 + (Short - 1)
      BY ShortNat
    <3>2. (Short - 1) \div Short = 0 /\ (Short - 1) % Short = Short - 1
      BY <3>1, Halves, ShortNat
    <3>3. QED
      BY <2>3, <3>1, <3>2, ShortNat DEF in_cksum
  <2>5. QED
    BY <1>2, <1>3, <1>6, <2>1, <2>4, ShortNat
<1>7. QED
  BY <1>5, <1>6, ShortNat

-----------------------------------------------------------------------------
(* The texts of MAC addresses *)

\* What str2mac has read after n characters of the text of m.
Half(old, m, n) ==
    [mac   |-> [k \in 0..5 |-> IF k < n \div 3 THEN m[k] ELSE old[k]],
     i     |-> n \div 3,
     value |-> IF n % 3 = 0 THEN 0 ELSE IF n % 3 = 1 THEN m[n \div 3] \div 16 ELSE m[n \div 3]]

\* One character of str2mac.
Read(s, ch) ==
    IF ch = Colon
    THEN [mac |-> [s.mac EXCEPT ![s.i] = s.value], i |-> s.i + 1, value |-> 0]
    ELSE [s EXCEPT !.value = Digit(@, ch)]

LEMMA ReadNext ==
    ASSUME NEW old \in Mac, NEW m \in Mac, NEW n \in 1..17
    PROVE  Half(old, m, n) = Read(Half(old, m, n - 1), print_mac(m)[n])
<1>1. PICK j \in 0..5, d \in 0..2 : n = 3 * j + d
  <2>1. n \div 3 \in 0..5 /\ n % 3 \in 0..2 /\ n = 3 * (n \div 3) + (n % 3)
    OBVIOUS
  <2>. QED  BY <2>1
<1>2. n \div 3 = j /\ n % 3 = d
  BY <1>1
<1>3. PICK b \in 0..255 : b = m[j]
  BY DEF Mac, ETH_ALEN
<1>4. print_mac(m)[n] = IF d = 1 THEN b \div 16 ELSE IF d = 2 THEN b % 16 ELSE Colon
  <2>1. n \in 1..(3 * ETH_ALEN - 1)
    BY DEF ETH_ALEN
  <2>. QED  BY <1>2, <1>3, <2>1 DEF print_mac
<1>5. b \div 16 \in 0..15 /\ b % 16 \in 0..15 /\ (((b \div 16) * 16) % 256) + (b % 16) = b
      /\ ((0 * 16) % 256) + (b \div 16) = b \div 16
  OBVIOUS
<1>6. CASE d = 0
  <2>1. PICK i \in 0..4 : j = i + 1
    <3>1. j - 1 \in 0..4 /\ j = (j - 1) + 1
      BY <1>1, <1>6
    <3>. QED  BY <3>1
  <2>2. (n - 1) \div 3 = i /\ (n - 1) % 3 = 2
    BY <1>1, <1>6, <2>1
  <2>3. Half(old, m, n - 1) = [mac |-> [k \in 0..5 |-> IF k < i THEN m[k] ELSE old[k]],
                               i |-> i, value |-> m[i]]
    BY <2>2 DEF Half
  <2>4. Half(old, m, n) = [mac |-> [k \in 0..5 |-> IF k < i + 1 THEN m[k] ELSE old[k]],
                           i |-> i + 1, value |-> 0]
    BY <1>2, <1>6, <2>1 DEF Half
  <2>5. [k \in 0..5 |-> IF k < i + 1 THEN m[k] ELSE old[k]]
        = [[k \in 0..5 |-> IF k < i THEN m[k] ELSE old[k]] EXCEPT ![i] = m[i]]
    <3>1. \A k \in 0..5 : (k < i + 1) <=> (k < i \/ k = i)
      OBVIOUS
    <3>2. i \in 0..5
      OBVIOUS
    <3>. QED  BY <3>1, <3>2
  <2>. QED  BY <1>4, <1>6, <2>3, <2>4, <2>5 DEF Read
<1>7. CASE d = 1
  <2>1. (n - 1) \div 3 = j /\ (n - 1) % 3 = 0
    BY <1>1, <1>7
  <2>2. Half(old, m, n - 1) = [mac |-> [k \in 0..5 |-> IF k < j THEN m[k] ELSE old[k]],
                               i |-> j, value |-> 0]
    BY <2>1 DEF Half
  <2>3. Half(old, m, n) = [mac |-> [k \in 0..5 |-> IF k < j THEN m[k] ELSE old[k]],
                           i |-> j, value |-> b \div 16]
    BY <1>2, <1>3, <1>7 DEF Half
  <2>4. print_mac(m)[n] = b \div 16 /\ b \div 16 # Colon /\ Digit(0, b \div 16) = b \div 16
    BY <1>4, <1>5, <1>7 DEF Colon, Digit
  <2>. QED  BY <2>2, <2>3, <2>4 DEF Read
<1>8. CASE d = 2
  <2>1. (n - 1) \div 3 = j /\ (n - 1) % 3 = 1
    BY <1>1, <1>8
  <2>2. Half(old, m, n - 1) = [mac |-> [k \in 0..5 |-> IF k < j THEN m[k] ELSE old[k]],
                               i |-> j, value |-> b \div 16]
    BY <1>3, <2>1 DEF Half
  <2>3. Half(old, m, n) = [mac |-> [k \in 0..5 |-> IF k < j THEN m[k] ELSE old[k]],
                           i |-> j, value |-> b]
    BY <1>2, <1>3, <1>8 DEF Half
  <2>4. print_mac(m)[n] = b % 16 /\ b % 16 # Colon /\ Digit(b \div 16, b % 16) = b
    BY <1>4, <1>5, <1>8 DEF Colon, Digit
  <2>. QED  BY <2>2, <2>3, <2>4 DEF Read
<1>. QED  BY <1>6, <1>7, <1>8

\* str2mac undoes print_mac, whatever was in the array before.
LEMMA StrMacInverse ==
    ASSUME NEW old \in Mac, NEW m \in Mac
    PROVE  str2mac(old, print_mac(m)) = m
<1>. DEFINE str == print_mac(m)
            scan[n \in 0..Len(str)] ==
                IF n = 0 THEN [mac |-> old, i |-> 0, value |-> 0]
                ELSE LET s == scan[n - 1]
                     IN  IF str[n] = Colon
                         THEN [mac |-> [s.mac EXCEPT ![s.i] = s.value], i |-> s.i + 1, value |-> 0]
                         ELSE [s EXCEPT !.value = Digit(@, str[n])]
            all == [n \in 0..Len(str) |-> Half(old, m, n)]
            last == scan[Len(str)]
            start == [mac |-> old, i |-> 0, value |-> 0]
<1>1. str2mac(old, str) = [last.mac EXCEPT ![last.i] = last.value]
  BY Zenon DEF str2mac
<1>2. Len(str) = 17
  BY DEF print_mac, ETH_ALEN
<1>3. all[0] = start
  <2>1. Half(old, m, 0) = [mac |-> [k \in 0..5 |-> old[k]], i |-> 0, value |-> 0]
    BY DEF Half
  <2>2. old = [k \in 0..5 |-> old[k]]
    BY DEF Mac, ETH_ALEN
  <2>. QED  BY <1>2, <2>1, <2>2
<1>4. \A n \in 1..17 : all[n] = Read(all[n - 1], str[n])
  <2>1. \A n \in 1..17 : n \in 0..17 /\ n - 1 \in 0..17
    OBVIOUS
  <2>. QED  BY <1>2, <2>1, ReadNext
<1>5. all = [n \in 0..Len(str) |-> IF n = 0 THEN start ELSE Read(all[n - 1], str[n])]
  <2>2. ASSUME NEW n \in 0..17
        PROVE  all[n] = IF n = 0 THEN start ELSE Read(all[n - 1], str[n])
    <3>. HIDE DEF all, start, str
    <3>1. n = 0 \/ (n \in 1..17 /\ n # 0)
      OBVIOUS
    <3>. QED  BY <1>3, <1>4, <3>1
  <2>. QED  BY <1>2, <2>2
<1>6. scan = [n \in 0..Len(str) |-> IF n = 0 THEN start ELSE Read(scan[n - 1], str[n])]
  BY <1>5, Zenon DEF Read
<1>7. scan[0] = all[0] /\ \A n \in 1..17 : scan[n] = Read(scan[n - 1], str[n])
  <2>. HIDE DEF scan, all, start
  <2>1. \A n \in 1..17 : n \in 0..17 /\ n # 0
    OBVIOUS
  <2>. QED  BY <1>2, <1>3, <1>6, <2>1
<1>. HIDE DEF scan, all, str
<1>8. \A n \in 1..17 : scan[n - 1] = all[n - 1] => scan[n] = all[n]
  BY <1>4, <1>7
<1>9. scan[17] = all[17]
  <2>1. scan[1] = all[1] /\ scan[2] = all[2] /\ scan[3] = all[3]
    BY <1>7, <1>8
  <2>2. scan[4] = all[4] /\ scan[5] = all[5] /\ scan[6] = all[6]
    BY <1>8, <2>1
  <2>3. scan[7] = all[7] /\ scan[8] = all[8] /\ scan[9] = all[9]
    BY <1>8, <2>2
  <2>4. scan[10] = all[10] /\ scan[11] = all[11] /\ scan[12] = all[12]
    BY <1>8, <2>3
  <2>5. scan[13] = all[13] /\ scan[14] = all[14] /\ scan[15] = all[15]
    BY <1>8, <2>4
  <2>6. scan[16] = all[16]
    BY <1>8, <2>5
  <2>. QED  BY <1>8, <2>6
<1>10. all[17] = [mac |-> [k \in 0..5 |-> IF k < 5 THEN m[k] ELSE old[k]],
                  i |-> 5, value |-> m[5]]
  BY <1>2 DEF all, Half
<1>11. str2mac(old, str) = [[k \in 0..5 |-> IF k < 5 THEN m[k] ELSE old[k]] EXCEPT ![5] = m[5]]
  BY <1>1, <1>2, <1>9, <1>10
<1>12. \A k \in 0..5 : k < 5 \/ k = 5
  OBVIOUS
<1>. QED  BY <1>11, <1>12 DEF str, Mac, ETH_ALEN

-----------------------------------------------------------------------------
(* The frames of the two rings *)

AnyMac == Mac \cup {NoMac} \cup {str2mac(HostMac[h], hmac) : h \in Host}

ArpFrame ==
    [proto : {"arp"}, h_dest : AnyMac, h_source : AnyMac, oper : {1, 2},
     smac : AnyMac, sip : Ip, dmac : AnyMac, dip : Ip]
UdpFrame ==
    [proto : {"udp"}, h_dest : AnyMac, h_source : AnyMac, saddr : Ip, daddr : Ip,
     source : 0..(Short - 1), dest : 0..(Short - 1), len : Data, body : Data \cup {NoData}]
IcmpFrame ==
    [proto : {"icmp"}, h_dest : AnyMac, h_source : AnyMac, saddr : Ip, daddr : Ip,
     type : {0, 8, 13}, code : {0}, check : 0..(Short - 1), identifier : 0..(Short - 1),
     seq : 0..(Short - 1), data : Data]
OtherFrame == [proto : {"other"}, h_dest : AnyMac, h_source : AnyMac]
Frame == ArpFrame \cup UdpFrame \cup IcmpFrame \cup OtherFrame

\* What a host sends names that host as its source.
Names(p, h) ==
    /\ p.h_source = HostMac[h]
    /\ p.proto = "arp" => p.smac = HostMac[h] /\ p.sip = h

Questions  == {p \in Frame : \E h \in Host : Names(p, h)}
Right(p)   == p.proto = "icmp" => p.type = 0 /\ in_cksum(IcmpSum(p)) = 0
Named(p)   == p.proto = "arp" => p.smac = str2mac(p.h_dest, hmac)
Replies(Q) == {p \in Frame : (\E q \in Q : Answers(p, q)) /\ Right(p) /\ Named(p)}

IInv ==
    /\ asked \subseteq Questions
    /\ rx \in Seq(asked)
    /\ tx \in Seq(Replies(asked))
    /\ arp \in [Host -> AnyMac]
    /\ \A h \in Host : arp[h] \in {NoMac, OurMac, str2mac(HostMac[h], hmac)}

LEMMA MacType ==
    /\ \A h \in Host : HostMac[h] \in AnyMac /\ str2mac(HostMac[h], hmac) \in AnyMac
    /\ Broadcast \in AnyMac
  BY HostAssumption DEF AnyMac

\* The sum over an ICMP message is far from the bound of CksumVerifies.
LEMMA IcmpSumSmall ==
    ASSUME NEW m \in IcmpFrame
    PROVE  IcmpSum(m) \in Nat /\ IcmpSum(m) < 64 * Short
<1>1. DataSum[m.data] \in 0..(16 * (Short - 1))
  BY DataAssumption DEF IcmpFrame
<1>2. /\ m.type \in 0..13 /\ m.code = 0 /\ m.check \in 0..(Short - 1)
      /\ m.identifier \in 0..(Short - 1) /\ m.seq \in 0..(Short - 1)
  BY DEF IcmpFrame
<1>3. IcmpSum(m) = m.type + m.check + m.identifier + m.seq + DataSum[m.data]
  BY <1>1, <1>2, ShortNat DEF IcmpSum
<1>4. QED
  BY <1>1, <1>2, <1>3, ShortNat

\* Writing the result of in_cksum into a message with check 0 makes it right.
LEMMA ChecksumFits ==
    ASSUME NEW m \in IcmpFrame, m.check = 0,
           NEW n, n = [m EXCEPT !.check = in_cksum(IcmpSum(m))]
    PROVE  n \in IcmpFrame /\ in_cksum(IcmpSum(n)) = 0
<1>1. in_cksum(IcmpSum(m)) \in 0..(Short - 1) /\ in_cksum(IcmpSum(m) + in_cksum(IcmpSum(m))) = 0
  <2>1. IcmpSum(m) \in Nat /\ IcmpSum(m) < 64 * Short
    BY IcmpSumSmall
  <2>2. 64 * Short <= Short * (Short - 1)
    BY DEF Short
  <2>3. IcmpSum(m) < Short * (Short - 1)
    BY <2>1, <2>2, ShortNat
  <2>4. QED
    BY <2>1, <2>3, CksumVerifies
<1>2. n \in IcmpFrame
  BY <1>1 DEF IcmpFrame
<1>3. IcmpSum(n) = IcmpSum(m) + in_cksum(IcmpSum(m))
  <2>1. /\ n.type = m.type /\ n.code = m.code /\ n.check = in_cksum(IcmpSum(m))
        /\ n.identifier = m.identifier /\ n.seq = m.seq /\ n.data = m.data
    BY DEF IcmpFrame
  <2>2. /\ m.type \in Nat /\ m.code \in Nat /\ m.identifier \in Nat /\ m.seq \in Nat
        /\ DataSum[m.data] \in Nat
    BY DataAssumption DEF IcmpFrame
  <2>3. QED
    BY <1>1, <2>1, <2>2 DEF IcmpSum
<1>4. QED
  BY <1>1, <1>2, <1>3

-----------------------------------------------------------------------------
(* The inductive step *)

LEMMA InitInv == Init => IInv
<1>. SUFFICES ASSUME Init PROVE IInv
  OBVIOUS
<1>1. rx = <<>> /\ tx = <<>> /\ asked = {} /\ arp = [h \in Host |-> IF h \in Known THEN OurMac ELSE NoMac]
  BY DEF Init
<1>2. OurMac \in AnyMac /\ NoMac \in AnyMac
  BY HostAssumption DEF AnyMac
<1>. QED  BY <1>1, <1>2 DEF IInv

LEMMA AppendIn ==
    ASSUME NEW S, NEW q \in Seq(S), NEW p \in S
    PROVE  Append(q, p) \in Seq(S)
  OBVIOUS

LEMMA HeadIn ==
    ASSUME NEW S, NEW q \in Seq(S), q # <<>>
    PROVE  Head(q) \in S /\ Tail(q) \in Seq(S)
  OBVIOUS

LEMMA SeqMore ==
    ASSUME NEW S, NEW T, S \subseteq T, NEW q \in Seq(S)
    PROVE  q \in Seq(T)
  OBVIOUS

\* The frame at the head of the receive ring: one that a host sent.
LEMMA Taken ==
    ASSUME IInv, nm_nextpkt
    PROVE  /\ Head(rx) \in asked /\ Head(rx) \in Frame /\ rx' \in Seq(asked)
           /\ \E h \in Host : Names(Head(rx), h)
<1>1. Head(rx) \in asked /\ rx' \in Seq(asked)
  BY HeadIn DEF IInv, nm_nextpkt
<1>. QED  BY <1>1 DEF IInv, Questions

\* An answer is put into the transmit ring, or lost.
LEMMA InjectInv ==
    ASSUME IInv, NEW p \in Frame, Answers(p, Head(rx)), Right(p), Named(p),
           nm_nextpkt, nm_inject(p), UNCHANGED <<arp, asked>>
    PROVE  IInv'
<1>1. Head(rx) \in asked /\ rx' \in Seq(asked)
  BY Taken
<1>2. p \in Replies(asked)
  BY <1>1 DEF Replies
<1>3. tx' \in Seq(Replies(asked))
  BY <1>2, AppendIn DEF IInv, nm_inject
<1>4. Replies(asked)' = Replies(asked) /\ Questions' = Questions
  BY DEF Replies, Questions, Answers, Right, Named, Names
<1>. QED  BY <1>1, <1>3, <1>4 DEF IInv

\* A frame of a host arrives.
LEMMA ArriveInv ==
    ASSUME IInv, NEW p \in Questions, Arrives(p)
    PROVE  IInv'
<1>1. asked' = asked \cup {p} /\ rx' = Append(rx, p) /\ UNCHANGED <<tx, arp>>
  BY DEF Arrives
<1>2. asked' \subseteq Questions
  BY <1>1 DEF IInv
<1>3. rx' \in Seq(asked')
  <2>1. rx \in Seq(asked')
    BY <1>1, SeqMore DEF IInv
  <2>. QED  BY <1>1, <2>1, AppendIn
<1>4. tx' \in Seq(Replies(asked'))
  <2>1. Replies(asked) \subseteq Replies(asked')
    BY <1>1 DEF Replies
  <2>. QED  BY <1>1, <2>1, SeqMore DEF IInv
<1>5. Replies(asked') = Replies(asked)' /\ Questions' = Questions
  BY DEF Replies, Questions, Answers, Right, Named, Names
<1>. QED  BY <1>1, <1>2, <1>3, <1>4, <1>5 DEF IInv

LEMMA AnswerArpInv == ASSUME IInv, AnswerArp PROVE IInv'
<1> DEFINE p == Head(rx)
           r == echo_arp_pkt(p)
<1>1. p \in Frame
  BY Taken DEF AnswerArp
<1>2. p \in ArpFrame /\ p.dip = MyIp
  BY <1>1 DEF AnswerArp, Frame, ArpFrame, UdpFrame, IcmpFrame, OtherFrame
<1>3. PICK h \in Host : Names(p, h)
  BY Taken DEF AnswerArp
<1>4. p.h_source = HostMac[h] /\ p.smac = HostMac[h] /\ p.sip = h
  BY <1>2, <1>3 DEF Names, ArpFrame
<1>5. str2mac(p.h_source, hmac) \in AnyMac /\ HostMac[h] \in AnyMac
  BY <1>4, MacType
<1>6. /\ r \in ArpFrame /\ r.proto = "arp" /\ r.h_dest = p.h_source /\ r.oper = 2
      /\ r.sip = p.dip /\ r.dmac = p.smac /\ r.dip = p.sip
      /\ r.h_source = r.smac /\ r.smac = str2mac(r.h_dest, hmac)
  BY <1>2, <1>4, <1>5 DEF echo_arp_pkt, ArpFrame, Ip
<1>7. r \in Frame /\ Answers(r, p) /\ Right(r) /\ Named(r)
  BY <1>2, <1>6 DEF Answers, Right, Named, Frame, ArpFrame
<1>8. QED
  BY <1>7, InjectInv DEF AnswerArp

LEMMA AnswerUdpInv == ASSUME IInv, AnswerUdp PROVE IInv'
<1> DEFINE p == Head(rx)
           r == echo_udp_pkt(p)
<1>1. p \in Frame
  BY Taken DEF AnswerUdp
<1>2. p \in UdpFrame
  BY <1>1 DEF AnswerUdp, Frame, ArpFrame, UdpFrame, IcmpFrame, OtherFrame
<1>3. /\ r \in UdpFrame /\ r.proto = "udp" /\ r.h_dest = p.h_source /\ r.h_source = p.h_dest
      /\ r.saddr = p.daddr /\ r.daddr = p.saddr /\ r.source = p.dest /\ r.dest = p.source
  BY <1>2 DEF echo_udp_pkt, UdpFrame
<1>4. r \in Frame /\ Answers(r, p) /\ Right(r) /\ Named(r)
  BY <1>2, <1>3 DEF Answers, Right, Named, Frame, UdpFrame
<1>5. QED
  BY <1>4, InjectInv DEF AnswerUdp

LEMMA AnswerIcmpInv == ASSUME IInv, AnswerIcmp PROVE IInv'
<1> DEFINE p == Head(rx)
           m == [p EXCEPT !.h_dest = p.h_source, !.h_source = p.h_dest,
                          !.saddr = p.daddr, !.daddr = p.saddr,
                          !.type = 0, !.code = 0, !.check = 0]
           r == echo_icmp_pkt(p)
           Kept(f) == /\ f.h_dest = p.h_source /\ f.h_source = p.h_dest
                      /\ f.saddr = p.daddr /\ f.daddr = p.saddr
                      /\ f.identifier = p.identifier /\ f.seq = p.seq /\ f.data = p.data
<1>1. p \in Frame
  BY Taken DEF AnswerIcmp
<1>2. p \in IcmpFrame /\ p.type = 8
  BY <1>1 DEF AnswerIcmp, Frame, ArpFrame, UdpFrame, IcmpFrame, OtherFrame
<1>3. m \in IcmpFrame /\ m.check = 0 /\ m.type = 0 /\ Kept(m)
  <2> DEFINE k == [p EXCEPT !.h_dest = p.h_source, !.h_source = p.h_dest,
                            !.saddr = p.daddr, !.daddr = p.saddr]
             l == [k EXCEPT !.type = 0, !.code = 0, !.check = 0]
  <2>1. k \in IcmpFrame /\ Kept(k)
    BY <1>2 DEF IcmpFrame
  <2>2. l \in IcmpFrame /\ l.check = 0 /\ l.type = 0
    <3>1. 0 \in 0..(Short - 1) /\ 0 \in {0, 8, 13} /\ 0 \in {0}
      BY ShortNat
    <3>2. \A f \in IcmpFrame : [f EXCEPT !.type = 0] \in IcmpFrame /\ [f EXCEPT !.type = 0].type = 0
      BY <3>1 DEF IcmpFrame
    <3>3. \A f \in IcmpFrame : [f EXCEPT !.code = 0] \in IcmpFrame
                              /\ [f EXCEPT !.code = 0].type = f.type
      BY <3>1 DEF IcmpFrame
    <3>4. \A f \in IcmpFrame : [f EXCEPT !.check = 0] \in IcmpFrame
                              /\ [f EXCEPT !.check = 0].check = 0
                              /\ [f EXCEPT !.check = 0].type = f.type
      BY <3>1 DEF IcmpFrame
    <3>5. l = [[[k EXCEPT !.type = 0] EXCEPT !.code = 0] EXCEPT !.check = 0]
      OBVIOUS
    <3>6. QED
      BY ZenonT(40), <2>1, <3>2, <3>3, <3>4, <3>5
  <2>3. Kept(l)
    BY <2>1 DEF IcmpFrame
  <2>4. m = l
    OBVIOUS
  <2>5. QED
    BY <2>2, <2>3, <2>4
<1>4. r = [m EXCEPT !.check = in_cksum(IcmpSum(m))]
  BY DEF echo_icmp_pkt
<1>5. r \in IcmpFrame /\ in_cksum(IcmpSum(r)) = 0
  BY <1>3, <1>4, ChecksumFits
<1>6. r.proto = "icmp" /\ p.proto = "icmp" /\ r.type = 0 /\ Kept(r)
  BY <1>2, <1>3, <1>4 DEF IcmpFrame
<1>7. r \in Frame /\ Answers(r, p) /\ Right(r) /\ Named(r)
  BY <1>2, <1>5, <1>6 DEF Answers, Right, Named, Frame
<1>8. QED
  BY <1>7, InjectInv DEF AnswerIcmp

\* What a host sends is a question that names it.
LEMMA HostInv ==
    ASSUME IInv, NEW h \in Host, Ask(h) \/ SendUdp(h) \/ SendIcmp(h) \/ SendOther(h)
    PROVE  IInv'
<1>1. ASSUME NEW dip \in Ip, NEW oper \in {1, 2}, Arrives(ArpRequest(h, dip, oper))
      PROVE  IInv'
  <2>1. ArpRequest(h, dip, oper) \in ArpFrame
    BY MacType DEF ArpRequest, ArpFrame, Ip
  <2>2. Names(ArpRequest(h, dip, oper), h)
    BY DEF ArpRequest, Names
  <2>3. QED
    BY <1>1, <2>1, <2>2, ArriveInv DEF Frame, Questions
<1>2. Reaching(h) \subseteq AnyMac
  BY MacType DEF Reaching, IInv
<1>3. ASSUME NEW mac \in Reaching(h), NEW ip \in Ip, NEW source \in Word, NEW dest \in Word,
             NEW d \in Data, Arrives(UdpRequest(h, mac, ip, source, dest, d))
      PROVE  IInv'
  <2>1. UdpRequest(h, mac, ip, source, dest, d) \in UdpFrame
    BY <1>2, MacType, DataAssumption DEF UdpRequest, UdpFrame, Ip
  <2>2. Names(UdpRequest(h, mac, ip, source, dest, d), h)
    BY DEF UdpRequest, Names
  <2>3. QED
    BY <1>3, <2>1, <2>2, ArriveInv DEF Frame, Questions
<1>4. ASSUME NEW mac \in Reaching(h), NEW ip \in Ip, NEW type \in {8, 13},
             NEW id \in Word, NEW seq \in Word, NEW d \in Data,
             Arrives(IcmpRequest(h, mac, ip, type, id, seq, d))
      PROVE  IInv'
  <2> DEFINE m == [proto |-> "icmp", h_dest |-> mac, h_source |-> HostMac[h], saddr |-> h,
                   daddr |-> ip, type |-> type, code |-> 0, check |-> 0,
                   identifier |-> id, seq |-> seq, data |-> d]
             r == IcmpRequest(h, mac, ip, type, id, seq, d)
  <2>1. m \in IcmpFrame
    BY <1>2, MacType, DataAssumption, ShortNat DEF IcmpFrame, Ip
  <2>2. r = [m EXCEPT !.check = in_cksum(IcmpSum(m))] /\ m.check = 0
    BY DEF IcmpRequest
  <2>3. r \in IcmpFrame
    BY <2>1, <2>2, ChecksumFits
  <2>4. r.proto = "icmp" /\ r.h_source = HostMac[h]
    BY <2>2
  <2>5. Names(r, h)
    BY <2>4 DEF Names
  <2>6. QED
    BY <1>4, <2>3, <2>5, ArriveInv DEF Frame, Questions
<1>5. CASE SendOther(h)
  <2> DEFINE r == [proto |-> "other", h_dest |-> Broadcast, h_source |-> HostMac[h]]
  <2>1. r \in OtherFrame /\ Names(r, h)
    BY MacType DEF OtherFrame, Names
  <2>2. QED
    BY <1>5, <2>1, ArriveInv DEF SendOther, Frame, Questions
<1>6. QED
  BY <1>1, <1>3, <1>4, <1>5 DEF Ask, SendUdp, SendIcmp

LEMMA DeliverInv == ASSUME IInv, Deliver PROVE IInv'
<1>1. Head(tx) \in Replies(asked) /\ tx' \in Seq(Replies(asked)) /\ UNCHANGED <<rx, asked>>
  BY HeadIn DEF IInv, Deliver
<1>2. Head(tx).proto = "arp" =>
          Head(tx).smac \in AnyMac /\ Head(tx).smac = str2mac(Head(tx).h_dest, hmac)
  BY <1>1 DEF Replies, Named, Frame, ArpFrame, UdpFrame, IcmpFrame, OtherFrame
<1>3. arp' \in [Host -> AnyMac]
  BY <1>2 DEF IInv, Deliver
<1>4. \A h \in Host : arp'[h] \in {NoMac, OurMac, str2mac(HostMac[h], hmac)}
  BY <1>2 DEF IInv, Deliver
<1>5. Replies(asked)' = Replies(asked) /\ Questions' = Questions
  BY <1>1 DEF Replies, Questions, Answers, Right, Named, Names
<1>6. QED
  BY <1>1, <1>3, <1>4, <1>5 DEF IInv

LEMMA StepInv == IInv /\ [Next]_vars => IInv'
<1> SUFFICES ASSUME IInv, [Next]_vars PROVE IInv'
  OBVIOUS
<1>. Replies(asked') = Replies(asked)' /\ Questions' = Questions
  BY DEF Replies, Questions, Answers, Right, Named, Names
<1>1. CASE Ignore
  <2>1. UNCHANGED <<tx, arp, asked>> /\ nm_nextpkt
    BY <1>1 DEF Ignore
  <2>. QED  BY <2>1, Taken DEF IInv
<1>2. ASSUME NEW h \in Host, Forget(h) PROVE IInv'
  BY <1>2 DEF Forget, IInv, AnyMac
<1>3. CASE SendAgain
  BY <1>3, ArriveInv DEF SendAgain, IInv
<1>4. CASE UNCHANGED vars
  BY <1>4 DEF vars, IInv
<1>5. QED
  BY <1>1, <1>2, <1>3, <1>4, AnswerArpInv, AnswerUdpInv, AnswerIcmpInv, HostInv, DeliverInv
     DEF Next, Main, SendNew

-----------------------------------------------------------------------------
\* The inductive invariant holds in every reachable state.
THEOREM NetInvariant == Spec => []IInv
  BY InitInv, StepInv, PTL DEF Spec

LEMMA InTheRing == IInv => \A p \in Frames(tx) : p \in Replies(asked)
  BY DEF IInv, Frames

\* Each frame the program sends answers one that a host sent, field by field,
\* whatever the hosts send, to its own address or to all, and however often.
THEOREM NetRepliesReturn == Spec => []RepliesReturn
<1>1. IInv => RepliesReturn
  BY InTheRing DEF RepliesReturn, Replies
<1>2. QED
  BY <1>1, NetInvariant, PTL

\* Each echo reply verifies at its receiver, whatever its 32 bytes of payload.
THEOREM NetChecksumRight == Spec => []ChecksumRight
<1>1. IInv => ChecksumRight
  BY InTheRing DEF ChecksumRight, Replies, Right
<1>2. QED
  BY <1>1, NetInvariant, PTL

\* When the text the program was given is that of its card, every host that
\* resolves the program's address learns just that one, whatever its own is.
THEOREM NetHostsLearnUs ==
    ASSUME hmac = print_mac(OurMac)
    PROVE  Spec => []HostsLearnUs
<1>1. IInv => HostsLearnUs
  <2>. SUFFICES ASSUME IInv, NEW h \in Host, arp[h] # NoMac PROVE print_mac(arp[h]) = hmac
    BY DEF HostsLearnUs
  <2>1. arp[h] \in {OurMac, str2mac(HostMac[h], hmac)}
    BY DEF IInv
  <2>2. str2mac(HostMac[h], hmac) = OurMac
    BY HostAssumption, StrMacInverse
  <2>. QED  BY <2>1, <2>2
<1>2. QED
  BY <1>1, NetInvariant, PTL

-----------------------------------------------------------------------------
(* UdpServer *)

Making == {"bind", "connect", "epoll_ctl"}

\* Where datagrams may wait in a socket that udp_accept made.
Attended(fd) == fd \in watched \/ (fd = new_sd /\ pc = "epoll_ctl")

\* What was reported is still to be read, because only main reads; a socket is
\* connected only when it is watched or about to be.
UdpIInv ==
    /\ TypeOK
    /\ NothingForgotten
    /\ pc = "wait" => events = {}
    /\ \A fd \in events \ {ListenFd} : fd \in Fd /\ queue[fd] # <<>>
    /\ \A fd \in Fd : peerOf[fd] # NoPeer => Attended(fd)
    /\ pc \in Making => new_sd \in Fd
    /\ pc \in {"socket"} \cup Making => peer_addr \in Peer

LEMMA UdpInitInv == UdpInit => UdpIInv
<1> SUFFICES ASSUME UdpInit PROVE UdpIInv
  OBVIOUS
<1>1. <<>> \in Seq(Peer \X (1..MaxSent)) /\ 0 \in 0..MaxSent
  BY SizeAssumption
<1>2. TypeOK
  BY <1>1, FdAssumption DEF UdpInit, TypeOK, Sockets
<1>3. QED
  BY <1>2, FdAssumption DEF UdpInit, UdpIInv, NothingForgotten, Sockets, Accepting, Making, Attended

LEMMA AppendNotEmpty ==
    ASSUME NEW S, NEW q \in Seq(S), NEW d \in S
    PROVE  Append(q, d) \in Seq(S) /\ Append(q, d) # <<>>
<1>1. Append(q, d) \in Seq(S) /\ Len(Append(q, d)) = Len(q) + 1 /\ Len(q) \in Nat
  OBVIOUS
<1>2. QED
  BY <1>1

LEMMA UdpSendInv ==
    ASSUME UdpIInv, NEW p \in Peer, Send(p)
    PROVE  UdpIInv'
<1> USE FdAssumption, PeerAssumption, SizeAssumption
<1> USE DEF UdpIInv, TypeOK, Sockets, Making, Attended
<1>1. /\ UNCHANGED <<opened, peerOf, watched, events, pc, new_sd, peer_addr, running>>
      /\ sent' \in [Peer -> 0..MaxSent] /\ sent[p] + 1 \in 1..MaxSent
  BY DEF Send, serverVars
<1>2. CASE UNCHANGED <<queue, edge>>
  BY <1>1, <1>2 DEF NothingForgotten
<1>3. CASE \E fd \in Receivers(p) :
               /\ queue' = [queue EXCEPT ![fd] = Append(@, <<p, sent[p] + 1>>)]
               /\ edge' = (edge \/ fd = ListenFd)
  <2>1. PICK fd \in Receivers(p) :
               /\ queue' = [queue EXCEPT ![fd] = Append(@, <<p, sent[p] + 1>>)]
               /\ edge' = (edge \/ fd = ListenFd)
    BY <1>3
  <2>2. \/ fd = ListenFd
        \/ fd \in Fd /\ fd = new_sd /\ pc = "connect"
        \/ fd \in Fd /\ peerOf[fd] = p
    BY DEF Receivers, Connected
  <2>3. fd \in Sockets /\ queue[fd] \in Seq(Peer \X (1..MaxSent))
    BY <2>2
  <2>4. Append(queue[fd], <<p, sent[p] + 1>>) \in Seq(Peer \X (1..MaxSent)) \ {<<>>}
    <3>1. <<p, sent[p] + 1>> \in Peer \X (1..MaxSent)
      BY <1>1
    <3>2. QED
      BY <2>3, <3>1, AppendNotEmpty
  <2>5. /\ queue' \in [Sockets -> Seq(Peer \X (1..MaxSent))]
        /\ queue'[fd] # <<>>
        /\ \A g \in Sockets : g # fd => queue'[g] = queue[g]
    BY <2>1, <2>3, <2>4
  <2>6. TypeOK' /\ edge' \in BOOLEAN
    BY <1>1, <2>1, <2>5
  <2>7. NothingForgotten'
    BY ZenonT(40), <1>1, <2>1, <2>2, <2>5 DEF NothingForgotten, Accepting
  <2>8. QED
    BY <1>1, <2>5, <2>6, <2>7
<1>4. QED
  BY <1>2, <1>3 DEF Send

\* The head of a queue that is not empty, and what is left.
LEMMA QueueHead ==
    ASSUME NEW q \in Seq(Peer \X (1..MaxSent)), q # <<>>
    PROVE  Head(q)[1] \in Peer /\ Tail(q) \in Seq(Peer \X (1..MaxSent))
<1>1. Head(q) \in Peer \X (1..MaxSent) /\ Tail(q) \in Seq(Peer \X (1..MaxSent))
  OBVIOUS
<1>2. QED
  BY <1>1

LEMMA UdpServerInv ==
    ASSUME UdpIInv, Server
    PROVE  UdpIInv'
<1> USE FdAssumption, PeerAssumption, SizeAssumption
<1> USE DEF UdpIInv, TypeOK, Sockets, Making, Attended, NothingForgotten, Accepting
<1>1. CASE epoll_wait
  <2>1. /\ events' = Reported /\ pc = "wait" /\ pc' = "events"
        /\ UNCHANGED <<opened, peerOf, queue, watched, new_sd, peer_addr, running, sent>>
        /\ edge' = FALSE
    BY <1>1 DEF epoll_wait
  <2>2. /\ Reported \subseteq Sockets
        /\ \A fd \in Reported \ {ListenFd} : fd \in Fd /\ queue[fd] # <<>>
        /\ edge /\ queue[ListenFd] # <<>> => ListenFd \in Reported
    BY DEF Reported
  <2>3. TypeOK'
    BY <2>1, <2>2
  <2>4. NothingForgotten'
    BY <2>1, <2>2
  <2>5. QED
    BY <2>1, <2>2, <2>3, <2>4
<1>2. CASE AcceptEvent
  BY <1>2 DEF AcceptEvent, kernelVars
<1>3. ASSUME NEW fd \in Fd, read_data(fd) PROVE UdpIInv'
  <2>1. queue' = [queue EXCEPT ![fd] = Tail(queue[fd])] /\ queue[fd] # <<>>
    BY <1>3 DEF read_data
  <2>2. /\ queue' \in [Sockets -> Seq(Peer \X (1..MaxSent))]
        /\ \A g \in Sockets : g # fd => queue'[g] = queue[g]
    BY <2>1, QueueHead
  <2>3. /\ events' = events \ {fd} /\ pc' \in {"wait", "events"} /\ pc = "events"
        /\ events' # {} <=> pc' = "events"
        /\ UNCHANGED <<opened, peerOf, edge, watched, new_sd, peer_addr, running, sent>>
    BY <1>3 DEF read_data, NextEvent
  <2>4. queue[fd] # <<>> => fd \in watched
    BY <2>3
  <2>5. QED
    BY <2>1, <2>2, <2>3, <2>4
<1>4. CASE RecvFrom
  <2>1. /\ queue' = [queue EXCEPT ![ListenFd] = Tail(queue[ListenFd])]
        /\ peer_addr' = Head(queue[ListenFd])[1] /\ queue[ListenFd] # <<>>
        /\ pc = "recvfrom" /\ pc' = "socket"
        /\ UNCHANGED <<opened, peerOf, edge, watched, events, new_sd, running, sent>>
    BY <1>4 DEF RecvFrom
  <2>2. /\ queue' \in [Sockets -> Seq(Peer \X (1..MaxSent))]
        /\ peer_addr' \in Peer
        /\ \A g \in Fd : queue'[g] = queue[g]
    BY <2>1, QueueHead
  <2>3. QED
    BY <2>1, <2>2
<1>5. CASE Drained
  BY <1>5 DEF Drained, NextEvent, kernelVars
<1>6. CASE Socket
  BY <1>6 DEF Socket
<1>7. CASE SocketFails
  BY <1>7 DEF SocketFails, kernelVars
<1>8. CASE Bind
  BY <1>8 DEF Bind, kernelVars
<1>9. CASE Connect
  BY <1>9 DEF Connect
<1>10. CASE Watch
  BY <1>10 DEF Watch
<1>11. QED
  BY <1>1, <1>2, <1>3, <1>4, <1>5, <1>6, <1>7, <1>8, <1>9, <1>10 DEF Server

LEMMA UdpStepInv == UdpIInv /\ [UdpNext]_udpVars => UdpIInv'
<1> SUFFICES ASSUME UdpIInv, [UdpNext]_udpVars PROVE UdpIInv'
  OBVIOUS
<1>1. CASE UNCHANGED udpVars
  BY <1>1 DEF UdpIInv, TypeOK, Sockets, Making, Attended, NothingForgotten, Accepting,
              udpVars, kernelVars, serverVars
<1>2. QED
  BY <1>1, UdpSendInv, UdpServerInv DEF UdpNext

\* The inductive invariant holds in every reachable state.
THEOREM UdpInvariant == UdpSpec => []UdpIInv
  BY UdpInitInv, UdpStepInv, PTL DEF UdpSpec

\* No datagram is ever left where main does not look: the edge-triggered
\* listening socket is drained to EAGAIN and each connected socket is watched.
THEOREM UdpNothingForgotten == UdpSpec => []NothingForgotten
<1>1. UdpIInv => NothingForgotten
  BY DEF UdpIInv
<1>2. QED
  BY <1>1, UdpInvariant, PTL

\* read_data never waits on one of the blocking sockets.
THEOREM UdpNoBlockingRead == UdpSpec => []NoBlockingRead
<1>1. UdpIInv => NoBlockingRead
  BY DEF UdpIInv, NoBlockingRead
<1>2. QED
  BY <1>1, UdpInvariant, PTL
=============================================================================
