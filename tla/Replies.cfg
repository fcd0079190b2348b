SPECIFICATION FairResolverSpec
CONSTANTS
    v4 = v4  v6 = v6
    zone4 = zone4  zone6 = zone6
    web = web  db = db
    r1 = r1  r2 = r2
    None = None
    Network = {}
    Subnet <- NoNetwork
    ZonesOf <- NoNetwork
    DnsName = {web, db}
    Authority = {r1, r2}
    Ip = {v4, v6}
    Zone = {zone4, zone6}
    Covers <- DualCovers
    V4 = {v4}
    Query = {q1}
    Records <- StaticRecords
INVARIANTS
    ResolverTypeOK
    WrapperInv
    RenameMoves
    PtrHasForward
    CatalogFollows
PROPERTIES
    CallsAtomic
    PtrConfirmed
    RepliesSettled
    QueriesAnswered
    CallsEnd
