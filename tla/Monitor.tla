------------------------------- MODULE Monitor -------------------------------
(***************************************************************************)
(* The monitor task of docker-dns-rs (crates/docker-dns-rs/src/docker/     *)
(* monitor.rs) next to a Docker daemon: start() reads what exists, then    *)
(* consume_events handles one event at a time and keeps the DNS records    *)
(* (RecordTable) in step with the containers.                              *)
(*                                                                         *)
(* One action per event handler.  A handler awaits the daemon at most once *)
(* (its inspect), and the rest of it touches only the monitor's own state, *)
(* which no other task writes: the handler is one step, taken at the       *)
(* moment of that inspect.  start() awaits the daemon many times, and each *)
(* of those reads is a step of its own.                                    *)
(***************************************************************************)
EXTENDS DockerDaemon, RecordTable

CONSTANTS
    Fqdn,           \* Fqdn[x]: the DNS name to_full_names makes of container
                    \* name x, or BadName when x does not parse as one
    BadName,
    ComposeNames,   \* ComposeNames[c]: the names append_compose_names adds for
                    \* the labels of c, which never change
    InspectFails,   \* may an inspect of something that exists fail?
    MayBePaused     \* may a container be paused while start() lists?

ASSUME MonitorAssumption ==
    /\ Fqdn \in [CName -> DnsName \cup {BadName}]
    /\ BadName \notin DnsName
    /\ ComposeNames \in [Container -> SUBSET DnsName]
    /\ InspectFails \in BOOLEAN
    /\ MayBePaused \in BOOLEAN

VARIABLES
    phase,        \* "boot", "networks" (start() registers them), "consume", "failed"
    todo,         \* the networks listed by start() and not yet registered
    containers,   \* Monitor.containers
    networks,     \* keys of Monitor.networks; the value is always ZonesOf[n]
    table,        \* Monitor.authority_wrapper
    catalog       \* the reverse zones the catalog serves

monitorVars == <<phase, todo, containers, networks, table, catalog>>
vars == <<daemonVars, monitorVars>>

\* The cache entry of a container.  NetworkIps is the set of its addresses,
\* and an absent network has none.
ContainerState ==
    [cached : BOOLEAN, names : SUBSET DnsName, networks : [Network -> SUBSET Ip]]

NotCached == [cached |-> FALSE, names |-> {}, networks |-> [n \in Network |-> {}]]

CachedAddresses(st) == UNION {st.networks[n] : n \in Network}

\* The records a cache entry stands for, those a die event will withdraw.
Claims(c) == containers[c].names \X CachedAddresses(containers[c])

MonitorTypeOK ==
    /\ phase \in {"boot", "networks", "consume", "failed"}
    /\ todo \in SUBSET Network
    /\ containers \in [Container -> ContainerState]
    /\ networks \in SUBSET Network
    /\ table \in Table
    /\ catalog \in SUBSET Zone

MonitorInit ==
    /\ phase = "boot"
    /\ todo = {}
    /\ containers = [c \in Container |-> NotCached]
    /\ networks = {}
    /\ table = EmptyTable
    /\ catalog = {}

\* Mutant: a name that does not parse is kept.
FullNamesUnfiltered(raw) == {Fqdn[x] : x \in raw}

\* to_full_names: names that do not parse are skipped.
FullNames(raw) == {Fqdn[x] : x \in raw} \ {BadName}

\* get_all_names_from_inspect and get_all_names_from_event, for container
\* name x; start() uses FullNames({x}) only.
AllNames(c, x) == FullNames({x}) \cup ComposeNames[c]
-----------------------------------------------------------------------------
\* Mutant: an occupied entry takes the names of the latest inspect.
EntryWithLatestNames(c, names) ==
    [cached |-> TRUE, names |-> names, networks |-> containers[c].networks]

\* The entry API: an occupied entry keeps the names it has.
Entry(c, names) ==
    IF containers[c].cached THEN containers[c]
    ELSE [cached |-> TRUE, names |-> names, networks |-> [n \in Network |-> {}]]

\* Mutant: the addresses are published and not remembered.
RegisteredWithoutAddresses(c, names) == Entry(c, names)

\* register_container_networks: what it leaves in the cache, given the names
\* for a new entry, and the records it adds.  Addresses an occupied entry had
\* are overwritten, their records are not removed.
Registered(c, names) ==
    [Entry(c, names) EXCEPT !.networks =
        [n \in Network |-> IF att[c][n] # {} THEN att[c][n] ELSE @[n]]]

Overwrites(c) ==
    \E n \in Attached(c) : containers[c].networks[n] \ att[c][n] # {}

RegisteredPairs(c, names) == Entry(c, names).names \X Addresses(c)

\* Mutant: the zones are not remembered under the network.
RegisterNetworkForgets(n) ==
    /\ table' = AddReverseZones(table, ZonesOf[n])
    /\ catalog' = catalog \cup ZonesOf[n]
    /\ UNCHANGED networks

\* register_network once its inspect has succeeded.
RegisterNetwork(n) ==
    /\ table' = AddReverseZones(table, ZonesOf[n])
    /\ catalog' = catalog \cup ZonesOf[n]
    /\ networks' = networks \cup {n}

\* Removing these records may take some that a cache entry still stands for.
RemovalHazard(pairs) ==
    hazard' = hazard \cup
        (IF \E c \in Container : Claims(c)' \cap pairs # {} THEN {"claim_lost"} ELSE {})

\* An inspect that fails though the object exists is recorded.
InspectError(exists) ==
    /\ exists => InspectFails
    /\ hazard' = hazard \cup (IF exists THEN {"inspect_failed"} ELSE {})
-----------------------------------------------------------------------------
(***************************************************************************)
(* start()                                                                 *)
(***************************************************************************)
StartListNetworks ==
    /\ phase = "boot"
    /\ phase' = "networks"
    /\ todo' = {n \in Network : net[n] = "alive"}
    /\ hazard' = hazard \ {"missed_network"}
    /\ UNCHANGED <<daemonState, streamState, containers, networks, table, catalog>>

StartRegisterNetwork(n) ==
    /\ phase = "networks"
    /\ n \in todo
    /\ todo' = todo \ {n}
    /\ \/ net[n] = "alive" /\ RegisterNetwork(n) /\ UNCHANGED hazard
       \/ InspectError(net[n] = "alive") /\ UNCHANGED <<networks, table, catalog>>
    /\ UNCHANGED <<daemonState, streamState, phase, containers>>

\* list_containers reports names and addresses, so there is no inspect.  One
\* that is paused at this moment is not "running" to the daemon; nothing else
\* in the monitor looks at that, and the events of pausing are ignored.
StartListContainers ==
    /\ phase = "networks"
    /\ todo = {}
    /\ phase' = "consume"
    /\ \E paused \in SUBSET {c \in Container : status[c] = "running"} :
         LET running == {c \in Container : status[c] = "running"} \ paused
             names(c) == FullNames({cname[c]})
         IN /\ paused # {} => MayBePaused
            /\ containers' = [c \in Container |->
                   IF c \in running THEN Registered(c, names(c)) ELSE containers[c]]
            /\ \E f \in Finders(table, AddressesInUse) :
                 table' = Upsert(table, f, UNION {RegisteredPairs(c, names(c)) : c \in running})
            /\ hazard' = (hazard \ {"missed_container"})
                   \cup (IF \E c \in running : ComposeNames[c] # {} THEN {"compose_omitted"} ELSE {})
                   \cup (IF paused # {} THEN {"paused_skipped"} ELSE {})
    /\ UNCHANGED <<daemonState, streamState, todo, networks, catalog>>

\* A failed list ends the task, and with it the program.
StartFails ==
    /\ phase = "boot" \/ (phase = "networks" /\ todo = {})
    /\ phase' = "failed"
    /\ UNCHANGED <<daemonVars, todo, containers, networks, table, catalog>>
-----------------------------------------------------------------------------
(***************************************************************************)
(* consume_events: receive the next event and run its handler.             *)
(***************************************************************************)
Receive(actions) ==
    /\ phase = "consume"
    /\ stream # <<>>
    /\ Head(stream).action \in actions
    /\ stream' = Tail(stream)
    /\ UNCHANGED <<daemonState, subscribed, phase, todo>>

HandleContainerStart ==
    /\ Receive({"start"})
    /\ LET c == Head(stream).container
           names == AllNames(c, cname[c])
       IN \/ /\ status[c] # "removed"
             /\ containers' = [containers EXCEPT ![c] = Registered(c, names)]
             /\ \E f \in Finders(table, Addresses(c)) :
                  table' = Upsert(table, f, RegisteredPairs(c, names))
             /\ hazard' = hazard \cup (IF Overwrites(c) THEN {"overwritten"} ELSE {})
          \/ /\ InspectError(status[c] # "removed")
             /\ UNCHANGED <<containers, table>>
    /\ UNCHANGED <<networks, catalog>>

\* Mutant: the cached names stay as they were.
HandleContainerRenameForgetsCache ==
    /\ Receive({"rename"})
    /\ LET old == Fqdn[Head(stream).old]
           new == Fqdn[Head(stream).new]
       IN /\ BadName \notin {old, new}
          /\ \E f \in Finders(table, AddressesOf(table, old)) :
               table' = Rename(table, f, old, new)
    /\ UNCHANGED <<hazard, containers, networks, catalog>>

\* The records under the old name are renamed whether or not the container is
\* cached; a name that does not parse makes rename return Err first.
HandleContainerRename ==
    /\ Receive({"rename"})
    /\ LET ev  == Head(stream)
           c   == ev.container
           old == Fqdn[ev.old]
           new == Fqdn[ev.new]
           clash == \E d \in Container \ {c} : old \in containers[d].names
           stale == /\ containers[c].cached
                    /\ ~(containers[c].names \subseteq {old} \cup AllNames(c, ev.new))
           kept == (containers[c].names \ {old}) \cup
                       (IF old \in containers[c].names THEN {new} ELSE {})
           unfounded == containers[c].cached /\ ~(AllNames(c, ev.new) \subseteq kept)
       IN \/ /\ BadName \in {old, new}
             /\ hazard' = hazard \cup {"rename_refused"}
             /\ UNCHANGED <<containers, table>>
          \/ /\ BadName \notin {old, new}
             /\ \E f \in Finders(table, AddressesOf(table, old)) :
                  table' = Rename(table, f, old, new)
             /\ containers' = IF containers[c].cached
                  THEN [containers EXCEPT ![c].names = AllNames(c, ev.new)]
                  ELSE containers
             /\ hazard' = hazard \cup (IF clash THEN {"rename_clash"} ELSE {})
                                 \cup (IF stale THEN {"rename_stale"} ELSE {})
                                 \cup (IF unfounded THEN {"rename_unfounded"} ELSE {})
    /\ UNCHANGED <<networks, catalog>>

HandleContainerDie ==
    /\ Receive({"die"})
    /\ LET c   == Head(stream).container
           ips == CachedAddresses(containers[c])
       IN /\ containers' = [containers EXCEPT ![c] = NotCached]
          /\ \E f \in Finders(table, ips) :
               table' = RemoveAddresses(table, f, Claims(c))
          /\ RemovalHazard(Claims(c))
    /\ UNCHANGED <<networks, catalog>>

\* With the addresses it already has for the network, the handler returns
\* early; different ones replace the old records.
HandleNetworkConnect ==
    /\ Receive({"connect"})
    /\ LET c == Head(stream).container
           n == Head(stream).network
           st  == Entry(c, AllNames(c, cname[c]))
           old == st.networks[n]
           new == att[c][n]
       IN \/ /\ status[c] # "removed" /\ new # {}
             /\ containers' = [containers EXCEPT ![c] = [st EXCEPT !.networks[n] = new]]
             /\ \/ old = new /\ UNCHANGED <<table, hazard>>
                \/ /\ old # new
                   /\ \E f \in Finders(table, old \cup new) :
                        table' = Upsert(RemoveAddresses(table, f, st.names \X old),
                                        f, st.names \X new)
                   /\ RemovalHazard(st.names \X (old \ new))
          \/ /\ status[c] # "removed" /\ new = {}
             /\ UNCHANGED <<containers, table, hazard>>
          \/ /\ InspectError(status[c] # "removed")
             /\ UNCHANGED <<containers, table>>
    /\ UNCHANGED <<networks, catalog>>

\* Mutant: the records go and the cached addresses stay.
HandleNetworkDisconnectKeepsAddresses ==
    /\ Receive({"disconnect"})
    /\ LET c   == Head(stream).container
           ips == containers[c].networks[Head(stream).network]
       IN /\ UNCHANGED containers
          /\ \E f \in Finders(table, ips) :
               table' = RemoveAddresses(table, f, containers[c].names \X ips)
    /\ UNCHANGED <<hazard, networks, catalog>>

\* An entry or a network that is not cached has no addresses to remove.
HandleNetworkDisconnect ==
    /\ Receive({"disconnect"})
    /\ LET c == Head(stream).container
           n == Head(stream).network
           st == containers[c]
       IN /\ containers' = [containers EXCEPT ![c].networks[n] = {}]
          /\ \E f \in Finders(table, st.networks[n]) :
               table' = RemoveAddresses(table, f, st.names \X st.networks[n])
          /\ RemovalHazard(st.names \X st.networks[n])
    /\ UNCHANGED <<networks, catalog>>

HandleNetworkCreate ==
    /\ Receive({"create"})
    /\ LET n == Head(stream).network
       IN \/ /\ n \notin networks /\ net[n] = "alive"
             /\ RegisterNetwork(n)
             /\ UNCHANGED hazard
          \/ /\ n \notin networks
             /\ InspectError(net[n] = "alive")
             /\ UNCHANGED <<networks, table, catalog>>
          \/ /\ n \in networks
             /\ UNCHANGED <<networks, table, catalog, hazard>>
    /\ UNCHANGED containers

\* deregister_network
HandleNetworkDestroy ==
    /\ Receive({"destroy"})
    /\ LET n == Head(stream).network
           zones == IF n \in networks THEN ZonesOf[n] ELSE {}
       IN /\ networks' = networks \ {n}
          /\ table' = RemoveReverseZones(table, zones)
          /\ catalog' = catalog \ zones
    /\ UNCHANGED <<containers, hazard>>

\* Other types and actions, and events without the attributes a handler needs.
IgnoreEvent ==
    /\ Receive({"other"})
    /\ UNCHANGED <<hazard, containers, networks, table, catalog>>

MonitorStep ==
    \/ StartListNetworks
    \/ \E n \in Network : StartRegisterNetwork(n)
    \/ StartListContainers
    \/ HandleContainerStart
    \/ HandleContainerRename
    \/ HandleContainerDie
    \/ HandleNetworkConnect
    \/ HandleNetworkDisconnect
    \/ HandleNetworkCreate
    \/ HandleNetworkDestroy
    \/ IgnoreEvent

MonitorNext == MonitorStep \/ StartFails
-----------------------------------------------------------------------------
Init == DaemonInit /\ MonitorInit

Next == (DaemonNext /\ UNCHANGED monitorVars) \/ MonitorNext

Spec == Init /\ [][Next]_vars

TypeOK == DaemonTypeOK /\ MonitorTypeOK
-----------------------------------------------------------------------------
(***************************************************************************)
(* Safety                                                                  *)
(***************************************************************************)
\* The PTR query for an address reaches one zone only: no address is covered
\* by two registered reverse zones (what find_reverse_authority relies on,
\* table.rs:86).  Needs every network event since the listing of start().
AtMostOneReverseZone ==
    \A ip \in Ip : \A y, z \in Matches(table, ip) : y = z

OneReverseZone == "missed_network" \notin hazard => AtMostOneReverseZone

\* reverse_zones, the catalog and Monitor.networks are three copies of one
\* fact: they agree after every handler, whatever order networks that share
\* zones came and went in.
ZonesAgree ==
    "missed_network" \notin hazard =>
        /\ table.zones = UNION {ZonesOf[n] : n \in networks}
        /\ catalog = table.zones

\* Every PTR record is in the registered zone of its address and mirrors an
\* A or AAAA record: a reverse lookup never names a host whose name does not
\* resolve back.
PtrBacked ==
    "missed_network" \notin hazard =>
        \A r \in table.ptr :
            /\ r[1] \in Matches(table, r[2])
            /\ <<r[3], r[2]>> \in table.fwd

\* What keeps the zones apart, step by step.  Networks that exist have
\* disjoint subnets, and a registered network that is gone has its destroy
\* event in the stream; since events keep their order, when a create event is
\* handled every registered network that is gone was still there together
\* with the new one.  (The inductive invariant behind OneReverseZone,
\* ZonesAgree and PtrBacked.)
NetworkEvent(action, n) == [action |-> action, network |-> n]

Pending(action, n) == \E i \in 1 .. Len(stream) : stream[i] = NetworkEvent(action, n)

NetworksApart(S) == \A m, n \in S : m # n => ~Overlap(m, n)

StreamOrdered ==
    /\ \A n \in Network : Pending("create", n) => net[n] # "absent"
    /\ \A n \in Network : Pending("destroy", n) => net[n] = "destroyed"
    /\ \A i, j \in 1 .. Len(stream) : \A m, n \in Network :
          (/\ i < j
           /\ stream[i] = NetworkEvent("create", n)
           /\ stream[j] = NetworkEvent("destroy", m)
           /\ net[n] = "alive") => ~Overlap(m, n)

RegisteredNetworks ==
    /\ \A n \in networks \cup todo : net[n] = "alive" \/ Pending("destroy", n)
    /\ NetworksApart(networks \cup todo)
    /\ table.zones = UNION {ZonesOf[n] : n \in networks}
    /\ catalog = table.zones

NetworksInv ==
    /\ NetworksApart({n \in Network : net[n] = "alive"})
    /\ StreamOrdered
    /\ phase = "boot" => todo = {} /\ networks = {} /\ table = EmptyTable /\ catalog = {}
    /\ phase = "consume" => todo = {}
    /\ "missed_network" \notin hazard => RegisteredNetworks

\* No record is orphaned: each A or AAAA record is claimed by a cached
\* container, so that a later die or disconnect can still withdraw it.
RecordsOwned ==
    hazard \cap {"rename_clash", "rename_stale", "overwritten"} = {} =>
        table.fwd \subseteq UNION {Claims(c) : c \in Container}

\* The converse: every record that a cache entry stands for is published.
\* handle_network_connect returns early on the strength of it (monitor.rs:439).
ClaimsPublished ==
    hazard \cap {"rename_clash", "rename_unfounded", "claim_lost"} = {} =>
        \A c \in Container : Claims(c) \subseteq table.fwd

\* Every event the daemon has emitted is handled.
Idle == phase = "consume" /\ stream = <<>>

\* The names that c is to be found by: its own, and those of its compose
\* service where they were published and no rename has taken them.
Reaches(c) ==
    (IF hazard \cap {"compose_omitted", "rename_unfounded"} # {}
     THEN FullNames({cname[c]}) ELSE AllNames(c, cname[c])) \X Addresses(c)

\* These flags leave containers findable by their own names.
Harmless == {"missed_network", "rename_unfounded", "compose_omitted"}

\* Caught up, the monitor publishes nothing out of date: every record is a
\* current name of a container with an address the container still has.
RecordsCurrent ==
    \A p \in table.fwd : \E c \in Container :
        /\ status[c] \in {"created", "running"}
        /\ p \in AllNames(c, cname[c]) \X Addresses(c)

Sound ==
    /\ Idle
    /\ hazard \subseteq Harmless \cup {"inspect_failed", "paused_skipped", "claim_lost"}
    => RecordsCurrent

\* Caught up, every running container is found by its names at all of its
\* addresses.
Complete ==
    Idle /\ hazard \subseteq Harmless =>
        \A c \in Container :
            status[c] = "running" => Reaches(c) \subseteq table.fwd

\* What keeps the cache and the stream together, whatever order the events of
\* a container come in and however far the daemon is ahead.  The stream: each
\* rename continues the one before, and the last event that concerns a name, an
\* endpoint or the life of a container agrees with the daemon's state.
ContainerEvent(action, c) == [action |-> action, container |-> c]
EndpointEvent(action, c, n) == [action |-> action, container |-> c, network |-> n]

InStream(ev) == \E i \in 1 .. Len(stream) : stream[i] = ev

RenamesOf(c) ==
    {i \in 1 .. Len(stream) : stream[i].action = "rename" /\ stream[i].container = c}

Followed(ev, by) ==
    \A i \in 1 .. Len(stream) : stream[i] = ev => \E j \in i + 1 .. Len(stream) : stream[j] = by

RenamesChain(c) ==
    \A i \in RenamesOf(c) :
        \/ stream[i].new = cname[c]
        \/ \E j \in RenamesOf(c) : i < j /\ stream[j].old = stream[i].new

StreamCurrent ==
    /\ subscribed \/ stream = <<>>
    /\ \A c \in Container :
         /\ RenamesChain(c)
         /\ status[c] = "running" => Followed(ContainerEvent("die", c), ContainerEvent("start", c))
         /\ status[c] = "exited" => Followed(ContainerEvent("start", c), ContainerEvent("die", c))
         /\ status[c] = "removed" => Attached(c) = {}
         /\ \A n \in Network :
              /\ att[c][n] # {} =>
                   Followed(EndpointEvent("disconnect", c, n), EndpointEvent("connect", c, n))
              /\ status[c] = "exited" =>
                   Followed(EndpointEvent("connect", c, n), ContainerEvent("die", c))

\* The cache: it agrees with the daemon, or an event that will correct it is
\* in the stream.
NamesFollow(c) ==
    containers[c].cached /\ RenamesOf(c) = {} =>
        /\ containers[c].names \subseteq AllNames(c, cname[c])
        /\ "compose_omitted" \in hazard \/ AllNames(c, cname[c]) \subseteq containers[c].names

AddressesFollow(c) ==
    /\ \A n \in Network :
         \/ containers[c].networks[n] \subseteq att[c][n]
         \/ InStream(EndpointEvent("disconnect", c, n))
    /\ status[c] = "exited" /\ CachedAddresses(containers[c]) # {} =>
         InStream(ContainerEvent("die", c))

AddressesArrive(c) ==
    status[c] = "running" =>
        \A n \in Network :
            \/ att[c][n] \subseteq containers[c].networks[n]
            \/ InStream(EndpointEvent("connect", c, n))
            \/ InStream(ContainerEvent("start", c))

\* The names c has had since the oldest rename in the stream.
OwnNames(c) == {Fqdn[cname[c]]} \cup {Fqdn[stream[i].old] : i \in RenamesOf(c)}

\* One of them is published, even when its compose names are not.
OwnNamePublished(c) ==
    containers[c].cached /\ BadName \notin OwnNames(c) =>
        \E y \in containers[c].names \cap OwnNames(c) :
            {y} \X CachedAddresses(containers[c]) \subseteq table.fwd

CacheFollows ==
    phase = "consume" /\ "missed_container" \notin hazard =>
        \A c \in Container :
            /\ AddressesFollow(c)
            /\ "rename_refused" \notin hazard => NamesFollow(c)
            /\ hazard \cap {"inspect_failed", "paused_skipped"} = {} => AddressesArrive(c)
            /\ hazard \cap {"rename_refused", "rename_clash", "rename_stale",
                            "overwritten", "claim_lost"} = {} => OwnNamePublished(c)

\* (The inductive invariant behind Sound and Complete, with RecordsOwned and
\* ClaimsPublished.)
CatchUpInv ==
    /\ StreamCurrent
    /\ \A c \in Container : ~containers[c].cached => CachedAddresses(containers[c]) = {}
    /\ CacheFollows
-----------------------------------------------------------------------------
(***************************************************************************)
(* What comments in the code say, and the code does not do                 *)
(***************************************************************************)
\* monitor.rs:440: stale records are removed when a container turns out to
\* have other addresses.  handle_network_connect does so;
\* register_container_networks, run by the start event, does not.
StaleRecordsRemoved == Idle /\ hazard \subseteq {"overwritten"} => RecordsCurrent

\* monitor.rs:439: a connect event is skipped when the same addresses were
\* registered before.  A record that two containers stand for goes with the
\* first of them, and the second one's connect event is skipped all the same.
SkippedWhenRegistered ==
    Idle /\ hazard \subseteq {"claim_lost"} =>
        \A c \in Container : Claims(c) \subseteq table.fwd

\* monitor.rs:654: the zones of existing networks come first, so that PTR
\* records are in place.  A container on a network created after the listing
\* is registered without PTR records, and nothing adds them later.
PtrComplete ==
    Idle /\ hazard = {} =>
        \A p \in table.fwd :
            Matches(table, p[2]) # {} =>
                \E z \in Matches(table, p[2]) : <<z, p[2], p[1]>> \in table.ptr
-----------------------------------------------------------------------------
(***************************************************************************)
(* Liveness.  The runtime polls a task that can run, and every request to  *)
(* the daemon returns: over TCP by the timeout of Daemon::build at the     *)
(* latest, over the UNIX socket because the daemon answers.  So the        *)
(* listener subscribes and the monitor keeps handling events.  Nothing is  *)
(* assumed of the daemon's events: they may never end.                     *)
(***************************************************************************)
Fairness == WF_vars(Subscribe /\ UNCHANGED monitorVars) /\ WF_vars(MonitorStep)

FairSpec == Spec /\ Fairness

Disturbed(c) == []<><<status'[c] # status[c] \/ cname'[c] # cname[c] \/ att'[c] # att[c]>>_daemonState

\* The entry of c holds no address c has given up, and a running c resolves.
InStep(c) ==
    /\ CachedAddresses(containers[c]) \subseteq Addresses(c)
    /\ status[c] = "running" => Reaches(c) \subseteq table.fwd

\* However busy the rest of the daemon stays, the records of a container that
\* is left alone become right and stay right: the handlers of other
\* containers' events never disturb them again.
Converges ==
    \A c \in Container :
        \/ Disturbed(c)
        \/ []<>(hazard \ Harmless # {})
        \/ <>[](phase = "failed" \/ InStep(c))
=============================================================================
