SPECIFICATION Spec
\* A daemon whose containers and networks are all gone emits nothing more.
CHECK_DEADLOCK FALSE
CONSTANTS
    c1 = c1  c2 = c2
    n1 = n1  n2 = n2  n3 = n3  n4 = n4  n5 = n5
    zA = zA  zB = zB  zC = zC  zD = zD  zW = zW  z6 = z6
    a1 = a1  b1 = b1  d1 = d1  d2 = d2  e1 = e1  v1 = v1
    web = web  db = db  blue = blue  long = long
    dbFqdn = dbFqdn  blueFqdn = blueFqdn
    BadName = BadName  None = None
    Container = {c1, c2}
    Network = {n4}
    CName = {web, db}
    Zone <- MCZone
    Covers <- MCCovers
    Ip <- MCIp
    ZonesOf <- MCZonesOf
    Subnet <- MCSubnet
    Offers <- MCOffers
    InitName <- MCInitName
    Fqdn <- MCFqdn
    DnsName <- MCDnsName
    ComposeNames <- SharedComposeNames
    InspectFails = FALSE
    MayBePaused = FALSE
    MaxPending = 3
INVARIANT SkippedWhenRegistered
