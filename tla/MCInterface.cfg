SPECIFICATION FairSpec
CONSTANTS
    EntryTTL = 4
    ReplyTTL = 2
    Broadcast = Broadcast
    NoMac = NoMac
    Malformed = Malformed
    Mac = mac0
    Ip = ip0
    Hops = {h1, h2}
    Macs = {m1, m2}
    Datagrams = 3
    TickSizes = {1, 3}
INVARIANTS
    TypeOK
    WaitsForPendingRequest
    SentToFreshAddress
    SentOnceInOrder
PROPERTIES
    RequestsRateLimited
    QueuesEmpty
