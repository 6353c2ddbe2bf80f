SPECIFICATION MCSpec
CONSTANTS
    eth = eth
    wlan = wlan
    addr = addr
    r4 = r4
    r5 = r5
    r6 = r6
    multi = multi
    Links = {eth, wlan}
    Addresses = {addr}
    Routes = {r4, r5, r6, multi}
    Uses <- MCUses
    Inet6 = {r6}
    DefaultRoutes = {r4, r5, r6, multi}
    Preference <- MCRank
    DeleteMatches <- MCDelete
    QueueLength = 2
    SocketErrors = TRUE
    MaxChanges = 2
    MaxFailures = 1
    MaxStarts = 2
INVARIANTS
    NothingMissedSilently
    EventsTellModel
PROPERTIES
    Converges
CHECK_DEADLOCK FALSE
