------------------------------- MODULE Resolver -------------------------------
(***************************************************************************)
(* The DNS side of docker-dns-rs (crates/docker-dns-rs/src/dns_listener.rs *)
(* and the static records of config.rs) next to AuthorityWrapper.          *)
(*                                                                         *)
(* The server runs handle_request in a task of its own for every query.  A *)
(* name that a static record mentions is answered from the static records; *)
(* any other one from the catalog, under its read lock.  The monitor takes *)
(* the same lock for writing when a zone comes or goes.  The lock is a     *)
(* tokio RwLock: first come, first served, so that a writer that waits     *)
(* holds back the readers that come after it.                              *)
(***************************************************************************)
EXTENDS AuthorityWrapper

CONSTANTS
    Query,      \* queries in progress at a time
    Records     \* the static records, pairs <<name, address>>

ASSUME ResolverAssumption ==
    /\ Records \subseteq Pair
    /\ DnsName \cap Ip = {}

VARIABLES
    queries,    \* the state of each query
    waiting     \* is the monitor in catalog.write().await?

resolverVars == <<queries, waiting>>

\* A query asks for a DNS name or for the reverse name of an address.
Key == DnsName \cup Ip
QType == {"A", "AAAA", "PTR", "ANY"}
\* The types that a name of that kind has records of, and ANY.
Types(key) == IF key \in Ip THEN {"PTR", "ANY"} ELSE {"A", "AAAA", "ANY"}

TypeOf(ip) == IF ip \in V4 THEN "A" ELSE "AAAA"

OfType(type, key, data) ==
    IF key \in Ip
    THEN {n \in data : type \in {"PTR", "ANY"}}
    ELSE {ip \in data : type \in {TypeOf(ip), "ANY"}}

StaticKeys == UNION {{r[1], r[2]} : r \in Records}

\* Mutant: a record is entered under the reverse name only.
InterceptsReverse(key) == {r[1] : r \in {s \in Records : s[2] = key}}

\* DnsRequestHandler::new enters each record under its name and, as a PTR,
\* under the reverse name of its address; duplicates make no difference.
Intercepts(key) ==
    {r[2] : r \in {s \in Records : s[1] = key}} \cup
    {r[1] : r \in {s \in Records : s[2] = key}}

\* The catalog picks the longest zone name that fits.
Closest(zones, ip) ==
    LET covering == {z \in zones : ip \in Covers[z]}
    IN  {z \in covering : \A y \in covering : Covers[z] \subseteq Covers[y]}

Served == {z \in Zone : catalog[z] # None}

\* Mutant: answers come from reverse_zones.
LookedUpInWrapper(key) ==
    IF key \in Ip
    THEN UNION {{n \in DnsName : <<key, n>> \in ptrs[reverseZones[z]]} : z \in Closest(Registered, key)}
    ELSE {ip \in Ip : <<key, ip>> \in fwd}

\* Catalog::handle_request; set_up_catalog has put the forward zone there.
LookedUp(key) ==
    IF key \in Ip
    THEN UNION {{n \in DnsName : <<key, n>> \in ptrs[catalog[z]]} : z \in Closest(Served, key)}
    ELSE {ip \in Ip : <<key, ip>> \in fwd}
-----------------------------------------------------------------------------
At(place) == {q \in Query : queries[q].at = place}

Idle == [at |-> "idle", key |-> None, type |-> None, data |-> {}]

ResolverInit ==
    /\ Init
    /\ queries = [q \in Query |-> Idle]
    /\ waiting = FALSE

Ask(q) ==
    /\ queries[q].at = "idle"
    /\ \E key \in Key : \E type \in Types(key) :
         queries' = [queries EXCEPT ![q] = [at |-> "asked", key |-> key, type |-> type, data |-> {}]]
    /\ UNCHANGED <<vars, waiting>>

\* The response is sent, or sending it fails.
Reply(q, data) ==
    \E outcome \in {[Idle EXCEPT !.at = "answered", !.data = data], [Idle EXCEPT !.at = "failed"]} :
        queries' = [queries EXCEPT ![q] = outcome]

\* A name with static records never reaches the catalog, not even when none
\* of them is of the type asked for.
Intercept(q) ==
    LET key == queries[q].key
    IN  /\ queries[q].at = "asked"
        /\ key \in StaticKeys
        /\ Reply(q, OfType(queries[q].type, key, Intercepts(key)))
        /\ UNCHANGED <<vars, waiting>>

\* Mutant: readers overtake a writer that waits.
ReadCatalogBarges(q) ==
    /\ queries[q].at = "asked"
    /\ queries[q].key \notin StaticKeys
    /\ queries' = [queries EXCEPT ![q].at = "reading"]
    /\ UNCHANGED <<vars, waiting>>

\* Mutant: try_read() until it succeeds, instead of waiting in line.
ReadCatalogTries(q) ==
    /\ queries[q].at = "asked"
    /\ queries[q].key \notin StaticKeys
    /\ ~waiting
    /\ queries' = [queries EXCEPT ![q].at = "reading"]
    /\ UNCHANGED <<vars, waiting>>

\* catalog.read().await
ReadCatalog(q) ==
    /\ queries[q].at = "asked"
    /\ queries[q].key \notin StaticKeys
    /\ queries' = [queries EXCEPT ![q].at = IF waiting THEN "queued" ELSE "reading"]
    /\ UNCHANGED <<vars, waiting>>

\* The read lock is held until the response is on its way.
Lookup(q) ==
    /\ queries[q].at = "reading"
    /\ Reply(q, OfType(queries[q].type, queries[q].key, LookedUp(queries[q].key)))
    /\ UNCHANGED <<vars, waiting>>

Forget(q) ==
    /\ queries[q].at \in {"answered", "failed"}
    /\ queries' = [queries EXCEPT ![q] = Idle]
    /\ UNCHANGED <<vars, waiting>>

\* Mutant: the catalog is locked before reverse_zones is changed.
AwaitCatalogEarly ==
    /\ Turn("insert")
    /\ ~waiting
    /\ waiting' = TRUE
    /\ UNCHANGED <<vars, queries>>

\* catalog.write().await, which no reader may hold back but those before it.
AwaitCatalog ==
    /\ Turn("catalog")
    /\ ~waiting
    /\ waiting' = TRUE
    /\ UNCHANGED <<vars, queries>>

\* A section of the monitor.  The one that writes the catalog needs the lock
\* for itself, and then lets in the readers that have queued up.
MonitorSection ==
    /\ Next
    /\ Turn("catalog") => waiting /\ At("reading") = {}
    /\ waiting' = FALSE
    /\ queries' = [q \in Query |-> IF queries[q].at = "queued"
                                   THEN [queries[q] EXCEPT !.at = "reading"] ELSE queries[q]]

Serve(q) == Intercept(q) \/ ReadCatalog(q) \/ Lookup(q)

ResolverNext ==
    \/ \E q \in Query : Ask(q) \/ Intercept(q) \/ ReadCatalog(q) \/ Lookup(q) \/ Forget(q)
    \/ AwaitCatalog
    \/ MonitorSection

ResolverSpec == ResolverInit /\ [][ResolverNext]_<<vars, resolverVars>>

(***************************************************************************)
(* The runtime polls a task that can run: a query that was asked and a     *)
(* call of the monitor that was begun both go on.  Nothing makes clients   *)
(* ask or the monitor call.                                                *)
(***************************************************************************)
FairResolverSpec ==
    /\ ResolverSpec
    /\ \A q \in Query : WF_<<vars, resolverVars>>(Serve(q))
    /\ WF_<<vars, resolverVars>>(AwaitCatalog \/ (todo # <<>> /\ MonitorSection))
-----------------------------------------------------------------------------
\* Queries wait for the monitor only while it waits for the catalog, which it
\* does only for the section that writes it.
ResolverTypeOK ==
    /\ TypeOK
    /\ queries \in [Query -> [at : {"idle", "asked", "queued", "reading", "answered", "failed"},
                              key : Key \cup {None}, type : QType \cup {None},
                              data : (SUBSET DnsName) \cup (SUBSET Ip)]]
    /\ waiting \in BOOLEAN
    /\ At("queued") # {} => waiting
    /\ waiting => Turn("catalog")

Answered(q) == queries[q].at # "answered" /\ queries'[q].at = "answered"

\* Would a forward lookup of the name, made now, return the address?
Resolves(name, ip) ==
    IF name \in StaticKeys THEN ip \in Intercepts(name) ELSE <<name, ip>> \in fwd

\* Is the call in progress about to withdraw the PTR record?
Leaving(name, ip) ==
    \/ \E i \in Pending("remove_ptr") : todo[i].name = name /\ todo[i].ip = ip
    \/ \E i \in Pending("move") : todo[i].old = name /\ ip \in todo[i].ips

(***************************************************************************)
(* dns_listener.rs:57-77, table.rs:126-131, 213-228.  A reverse lookup is  *)
(* answered with names that resolve back to the address at that moment,    *)
(* from static records and containers alike, but for a record that is      *)
(* being withdrawn and for a container's name that a static record hides.  *)
(***************************************************************************)
PtrConfirmed ==
    [][\A q \in Query : Answered(q) /\ queries[q].key \in Ip =>
          LET ip == queries[q].key
          IN \A name \in queries'[q].data :
               \/ Resolves(name, ip)
               \/ Leaving(name, ip)
               \/ ip \notin StaticKeys /\ name \in StaticKeys]_<<vars, resolverVars>>

\* What LookedUp was when the last call of the monitor ended.
Settled(key) ==
    IF key \in Ip
    THEN {n \in DnsName : \E z \in Closest(committed.catalog, key) :
             <<z, key, n>> \in committed.table.ptr}
    ELSE AddressesOf(committed.table, key)

(***************************************************************************)
(* table.rs:98-239, monitor.rs:534-580.  A query that is answered while    *)
(* the monitor is in the middle of a call differs from the answer before   *)
(* the call in records of the names the call is about, and in no others; a *)
(* zone that comes, goes or is replaced does so in one piece.              *)
(***************************************************************************)
RepliesSettled ==
    [][\A q \in Query : Answered(q) /\ queries[q].key \notin StaticKeys =>
          LET key == queries[q].key
              before == OfType(queries[q].type, key, Settled(key))
          IN \A x \in Key :
               (x \in queries'[q].data) # (x \in before) =>
                   AboutName(IF key \in Ip THEN x ELSE key)]_<<vars, resolverVars>>

(***************************************************************************)
(* dns_listener.rs:160-165.  Every query gets its answer, however often    *)
(* zones come and go: it waits behind one write of the catalog at most.    *)
(***************************************************************************)
QueriesAnswered ==
    \A q \in Query : queries[q].at = "asked" ~> queries[q].at \in {"answered", "failed"}

(***************************************************************************)
(* monitor.rs:546, 576.  However many queries there are, they do not keep  *)
(* the monitor from the catalog: every call it begins comes to its end.    *)
(***************************************************************************)
CallsEnd == todo # <<>> ~> todo = <<>>
=============================================================================
