SPECIFICATION Spec
CONSTANTS
    h1 = h1
    h2 = h2
    d1 = d1
    d2 = d2
    d3 = d3
    Host <- TwoHosts
    MyIp = MyIp
    OtherIp = OtherIp
    hmac <- OurText
    HostMac <- Macs
    OurMac <- OurCard
    Known <- OneHost
    Broadcast <- AllOnes
    NoMac <- NoAddress
    Data <- AllData
    NoData = NoData
    DataSum <- Sums
    Word <- SomeWords
    RxSlots = 1
    TxSlots = 2
    MaxAsked = 2
INVARIANTS
    HostsLearnUs
    RepliesReturn
    ChecksumRight
