SPECIFICATION Spec
CONSTANTS
    EntryTTL = 4
    ReplyTTL = 2
    Broadcast = Broadcast
    NoMac = NoMac
    Malformed = Malformed
    AddrBits = 4
    RoutePrefix = 5
    Hosts <- MCHosts
    Routers <- MCRouters
    Ips <- MCIps
    HostNextHop <- MCHostNextHop
    Routes <- MCRoutes
    Links <- MCLinks
    Destinations = {2, 5, 6, 13}
    Ttls = {1, 3}
    MaxSent = 1
INVARIANT
    ArrivesAsDocumented
