SPECIFICATION FairSpec
CONSTANTS
    d = d
    g = g
    t = t
    None = None
    Addr <- MCAddr
    Prefixes <- MCPrefixes
    First <- MCFirst
    Refused = {3}
    Pool = {2, 3}
    Names <- MCNames
    GeoIP <- MCGeoIP
    GeoSite <- MCGeoSite
    MaxGeositeDomains = 1
    Ifaces = {"eth0"}
    Desireds <- MCDesireds
    Starts <- MCStarts
    Answers <- MCAnswers
    Bogons = {3}
    HostAddrs = {1}
    Workers = 1
    MaxWrites = 1
    MaxFaults = 1
INVARIANTS
    NoOverlap
    EndpointsKeptOut
    PublishedIsInstalled
    NoLostAnswer
PROPERTIES
    RoutesConverge
CHECK_DEADLOCK FALSE
