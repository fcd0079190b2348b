----------------------------- MODULE RecordProofs -----------------------------
(***************************************************************************)
(* Theorems about the records the monitor keeps: no PTR record outlives    *)
(* its forward record, no forward record outlives the cache entry that can *)
(* withdraw it, and what a cache entry stands for is published.            *)
(***************************************************************************)
EXTENDS MonitorProofs

USE AddressingAssumption, DaemonAssumption, MonitorAssumption
-----------------------------------------------------------------------------
(***************************************************************************)
(* PTR records                                                             *)
(***************************************************************************)
\* Each step of start() and each handler leaves every PTR record in the zone
\* of its address and beside its forward record.
LEMMA MonitorBacked ==
    ASSUME TypeOK, OneZoneEach(table), Backed(table), MonitorNext, phase # "boot"
    PROVE  Backed(table')
  <1>0. table \in Table /\ DaemonTypeOK /\ MonitorTypeOK
    BY DEF TypeOK, MonitorTypeOK
  <1>a. \A n \in Network : RegisterNetwork(n) => Backed(table')
    BY <1>0, ReverseZonesBacked DEF RegisterNetwork
  <1>1. CASE StartListNetworks \/ StartFails \/ IgnoreEvent
    BY <1>1 DEF StartListNetworks, StartFails, IgnoreEvent
  <1>2. ASSUME NEW n \in Network, StartRegisterNetwork(n) PROVE Backed(table')
    BY <1>2, <1>a DEF StartRegisterNetwork
  <1>3. CASE StartListContainers
    <2> DEFINE names(c) == FullNames({cname[c]})
               Pairs(R) == UNION {RegisteredPairs(c, names(c)) : c \in R}
    <2>1. \A c \in Container : names(c) \in SUBSET DnsName
      BY <1>0, NamesType DEF DaemonTypeOK
    <2>0. PICK running \in SUBSET Container :
             \E f \in Finders(table, AddressesInUse) : table' = Upsert(table, f, Pairs(running))
      BY <1>3 DEF StartListContainers
    <2> DEFINE pairs == Pairs(running)
    <2>2. PICK f \in Finders(table, AddressesInUse) : table' = Upsert(table, f, pairs)
      BY <2>0
    <2> HIDE DEF names
    <2>3. \A c \in Container : Addresses(c) \subseteq AddressesInUse
      BY DEF AddressesInUse
    <2>4. \A c \in Container : RegisteredPairs(c, names(c)) \in SUBSET (DnsName \X AddressesInUse)
      BY <2>1, <2>3, RegisteredType
    <2>5. pairs \in SUBSET (DnsName \X AddressesInUse)
      BY <2>4
    <2> HIDE DEF pairs
    <2> QED  BY <1>0, <2>2, <2>5, AddressesType, UpsertBacked
  <1>4. CASE HandleContainerStart
    <2> DEFINE c == Head(stream).container
               names == AllNames(c, cname[c])
               pairs == RegisteredPairs(c, names)
    <2>0. Receive({"start"})
      BY <1>4 DEF HandleContainerStart
    <2>1. c \in Container
      BY <2>0, ReceiveType, EventType
    <2>2. names \in SUBSET DnsName
      BY <1>0, <2>1, NamesType DEF DaemonTypeOK
    <2>3. pairs \in SUBSET (DnsName \X Addresses(c))
      BY <2>1, <2>2, RegisteredType
    <2>4. table' = table \/ \E f \in Finders(table, Addresses(c)) : table' = Upsert(table, f, pairs)
      BY <1>4 DEF HandleContainerStart
    <2>5. Addresses(c) \in SUBSET Ip
      BY <2>1, AddressesType
    <2> HIDE DEF pairs, c
    <2> QED  BY <1>0, <2>3, <2>4, <2>5, UpsertBacked
  <1>5. CASE HandleContainerRename
    <2> DEFINE ev == Head(stream)
               old == Fqdn[ev.old]
               new == Fqdn[ev.new]
    <2>0. Receive({"rename"})
      BY <1>5 DEF HandleContainerRename
    <2>1. ev.old \in CName /\ ev.new \in CName
      BY <2>0, ReceiveType, EventType
    <2>2. CASE BadName \in {old, new}
      BY <1>5, <2>2 DEF HandleContainerRename
    <2>3. CASE BadName \notin {old, new}
      <3>1. PICK f \in Finders(table, AddressesOf(table, old)) : table' = Rename(table, f, old, new)
        BY <1>5, <2>3 DEF HandleContainerRename
      <3>2. old \in DnsName /\ new \in DnsName
        BY <2>1, <2>3
      <3> QED  BY <1>0, <3>1, <3>2, RenameBacked
    <2> QED  BY <2>2, <2>3
  <1>6. CASE HandleContainerDie
    <2> DEFINE c == Head(stream).container
               ips == CachedAddresses(containers[c])
               pairs == containers[c].names \X ips
    <2>0. Receive({"die"})
      BY <1>6 DEF HandleContainerDie
    <2>1. c \in Container
      BY <2>0, ReceiveType, EventType
    <2>2. ips \in SUBSET Ip /\ containers[c].names \in SUBSET DnsName
      BY <1>0, <2>1, AddressesType DEF MonitorTypeOK, ContainerState
    <2>3. PICK f \in Finders(table, ips) : table' = RemoveAddresses(table, f, pairs)
      BY <1>6 DEF HandleContainerDie, Claims
    <2>4. pairs \in SUBSET (DnsName \X ips)
      BY <2>2
    <2> HIDE DEF ips, pairs
    <2> QED  BY <1>0, <2>2, <2>3, <2>4, RemoveAddressesBacked
  <1>7. CASE HandleNetworkConnect
    <2> DEFINE c == Head(stream).container
               n == Head(stream).network
               st == Entry(c, AllNames(c, cname[c]))
               old == st.networks[n]
               new == att[c][n]
    <2>0. Receive({"connect"})
      BY <1>7 DEF HandleNetworkConnect
    <2>1. c \in Container /\ n \in Network
      BY <2>0, ReceiveType, EventType
    <2>2. st \in ContainerState
      BY <1>0, <2>1, NamesType, EntryType DEF DaemonTypeOK
    <2>3. new \in SUBSET Ip /\ old \in SUBSET Ip /\ st.names \in SUBSET DnsName
      BY <1>0, <2>1, <2>2 DEF DaemonTypeOK, ContainerState
    <2>4. \/ table' = table
          \/ \E f \in Finders(table, old \cup new) :
               table' = Upsert(RemoveAddresses(table, f, st.names \X old), f, st.names \X new)
      BY <1>7 DEF HandleNetworkConnect
    <2> HIDE DEF st, old, new
    <2>5. ASSUME NEW f \in Finders(table, old \cup new),
                 table' = Upsert(RemoveAddresses(table, f, st.names \X old), f, st.names \X new)
          PROVE  Backed(table')
      <3> DEFINE t == RemoveAddresses(table, f, st.names \X old)
      <3>0. table' = Upsert(t, f, st.names \X new)
        BY <2>5
      <3>1. t \in Table /\ t.zones = table.zones
        BY <1>0, RemoveAddressesType
      <3>5. Backed(t)
        <4>1. /\ old \cup new \in SUBSET Ip
              /\ st.names \X old \in SUBSET (DnsName \X (old \cup new))
          BY <2>3
        <4> QED  BY <1>0, <4>1, RemoveAddressesBacked
      <3> HIDE DEF t
      <3>2. f \in Finders(t, old \cup new) /\ OneZoneEach(t)
        <4>1. Finders(t, old \cup new) = Finders(table, old \cup new)
          BY <3>1, FindersSameZones
        <4>2. OneZoneEach(t)
          BY <3>1 DEF OneZoneEach, Matches
        <4> QED  BY <4>1, <4>2
      <3>3. old \cup new \in SUBSET Ip
        BY <2>3
      <3>4. /\ st.names \X old \in SUBSET (DnsName \X (old \cup new))
            /\ st.names \X new \in SUBSET (DnsName \X (old \cup new))
        BY <2>3
      <3> QED  BY <3>0, <3>1, <3>2, <3>3, <3>4, <3>5, UpsertBacked
    <2> QED  BY <2>4, <2>5
  <1>8. CASE HandleNetworkDisconnect
    <2> DEFINE c == Head(stream).container
               n == Head(stream).network
               ips == containers[c].networks[n]
               pairs == containers[c].names \X ips
    <2>0. Receive({"disconnect"})
      BY <1>8 DEF HandleNetworkDisconnect
    <2>1. c \in Container /\ n \in Network
      BY <2>0, ReceiveType, EventType
    <2>2. ips \in SUBSET Ip /\ containers[c].names \in SUBSET DnsName
      BY <1>0, <2>1 DEF MonitorTypeOK, ContainerState
    <2>3. PICK f \in Finders(table, ips) : table' = RemoveAddresses(table, f, pairs)
      BY <1>8 DEF HandleNetworkDisconnect
    <2>4. pairs \in SUBSET (DnsName \X ips)
      BY <2>2
    <2> HIDE DEF ips, pairs
    <2> QED  BY <1>0, <2>2, <2>3, <2>4, RemoveAddressesBacked
  <1>9. CASE HandleNetworkCreate
    <2>0. Receive({"create"})
      BY <1>9 DEF HandleNetworkCreate
    <2>1. Head(stream).network \in Network
      BY <2>0, ReceiveType, EventType
    <2> QED  BY <1>9, <1>a, <2>1 DEF HandleNetworkCreate
  <1>10. CASE HandleNetworkDestroy
    <2> DEFINE n == Head(stream).network
               zones == IF n \in networks THEN ZonesOf[n] ELSE {}
    <2>1. zones \in SUBSET Zone
      BY <1>0 DEF MonitorTypeOK
    <2>2. table' = RemoveReverseZones(table, zones)
      BY <1>10 DEF HandleNetworkDestroy
    <2> QED  BY <1>0, <2>1, <2>2, ReverseZonesBacked
  <1> QED  BY <1>1, <1>2, <1>3, <1>4, <1>5, <1>6, <1>7, <1>8, <1>9, <1>10
           DEF MonitorNext, MonitorStep

\* Only the listing of start() clears "missed_network", at a moment when there
\* are no records; no other step of the monitor does.
LEMMA MissedNetworkStays ==
    ASSUME TypeOK, MonitorNext, phase # "boot", "missed_network" \notin hazard'
    PROVE  "missed_network" \notin hazard
  BY ContainerSteps
  DEF MonitorNext, MonitorStep, StartListNetworks, StartRegisterNetwork, StartListContainers,
      StartFails, HandleNetworkCreate, HandleNetworkDestroy, InspectError, daemonVars

\* A reverse lookup never names a host whose name does not resolve back: every
\* PTR record is in the registered zone of its address and mirrors an A or
\* AAAA record, provided no network event was missed.
THEOREM PtrBackedHolds == Spec => []PtrBacked
  <1>1. Init => PtrBacked
    BY DEF Init, MonitorInit, EmptyTable, PtrBacked
  <1>2. PtrBacked <=> ("missed_network" \notin hazard => Backed(table))
    BY DEF PtrBacked, Backed
  <1>3. TypeOK /\ NetworksInv /\ PtrBacked /\ [Next]_vars => PtrBacked'
    <2> SUFFICES ASSUME TypeOK, NetworksInv, PtrBacked, [Next]_vars,
                        "missed_network" \notin hazard'
                 PROVE  Backed(table')
      BY DEF PtrBacked, Backed
    <2>1. CASE DaemonNext /\ UNCHANGED monitorVars
      <3>1. "missed_network" \notin hazard
        BY <2>1, DaemonSteps DEF Subscribe, NetworkCreate, NetworkDestroy, Emit
      <3> QED  BY <1>2, <2>1, <3>1 DEF monitorVars
    <2>2. CASE MonitorNext /\ phase = "boot"
      <3>1. table' = EmptyTable
        BY <2>2, MonitorSteps DEF NetworksInv, MonitorNext, MonitorStep, StartListNetworks,
           StartRegisterNetwork, StartListContainers, StartFails, HandleContainerStart,
           HandleContainerRename, HandleContainerDie, HandleNetworkConnect,
           HandleNetworkDisconnect, HandleNetworkCreate, HandleNetworkDestroy, IgnoreEvent, Receive
      <3> QED  BY <3>1 DEF EmptyTable, Backed
    <2>3. CASE MonitorNext /\ phase # "boot"
      <3>1. "missed_network" \notin hazard
        BY <2>3, MissedNetworkStays
      <3>2. OneZoneEach(table)
        BY <3>1, OneZoneEachHolds DEF NetworksInv
      <3> QED  BY <1>2, <2>3, <3>1, <3>2, MonitorBacked
    <2>4. CASE UNCHANGED vars
      BY <1>2, <2>4 DEF vars, monitorVars, daemonVars
    <2> QED  BY <2>1, <2>2, <2>3, <2>4 DEF Next
  <1> QED  BY <1>1, <1>3, TypeCorrect, NetworksInvariant, PTL DEF Spec
-----------------------------------------------------------------------------
(***************************************************************************)
(* A and AAAA records.  Every one is claimed by a cache entry.  Claims are *)
(* lost in three ways only, each of which leaves its mark in hazard:       *)
(* a rename takes another container's records or drops a name, or the      *)
(* start handler overwrites addresses.                                     *)
(***************************************************************************)
Unowned == {"rename_clash", "rename_stale", "overwritten"}

\* What RecordsOwned needs of the cache: start() finds it empty, and an absent
\* entry claims nothing.
CacheInv ==
    /\ phase \in {"boot", "networks"} => \A c \in Container : ~containers[c].cached
    /\ \A c \in Container : ~containers[c].cached => containers[c].names = {}

\* Cache entry c of cache C has the name and the address of record p.
Claimed(C, c, p) ==
    p[1] \in C[c].names /\ \E n \in Network : p[2] \in C[c].networks[n]

AllClaimed(C, F) == \A p \in F : \E c \in Container : Claimed(C, c, p)

\* Claims in terms of names and networks, for any cache and set of records.
LEMMA ClaimsForm ==
    ASSUME NEW C \in [Container -> ContainerState], NEW F \in SUBSET Pair
    PROVE  F \subseteq UNION {C[c].names \X CachedAddresses(C[c]) : c \in Container}
             <=> AllClaimed(C, F)
  <1>1. ASSUME NEW p \in F, NEW c \in Container
        PROVE  p \in C[c].names \X CachedAddresses(C[c]) <=> Claimed(C, c, p)
    BY DEF CachedAddresses, Claimed, Pair
  <1> QED  BY <1>1 DEF AllClaimed

\* No step of the monitor takes back one of the three marks.
LEMMA MarksStay ==
    ASSUME MonitorNext, hazard' \cap Unowned = {}
    PROVE  hazard \cap Unowned = {}
  <1>1. CASE StartListNetworks \/ StartListContainers \/ StartFails
    BY <1>1 DEF StartListNetworks, StartListContainers, StartFails, daemonVars, Unowned
  <1>2. CASE \/ \E n \in Network : StartRegisterNetwork(n)
             \/ HandleContainerStart \/ HandleNetworkCreate
    BY <1>2 DEF StartRegisterNetwork, HandleContainerStart, HandleNetworkCreate, InspectError
  <1>3. CASE HandleContainerRename
    BY <1>3 DEF HandleContainerRename
  <1>4. CASE HandleContainerDie \/ HandleNetworkDisconnect
    BY <1>4, RemovalMarks DEF HandleContainerDie, HandleNetworkDisconnect
  <1>5. CASE HandleNetworkConnect
    <2>1. \A pairs : RemovalHazard(pairs) => hazard \subseteq hazard'
      BY RemovalMarks
    <2> QED  BY <1>5, <2>1 DEF HandleNetworkConnect, InspectError
  <1>6. CASE HandleNetworkDestroy \/ IgnoreEvent
    BY <1>6 DEF HandleNetworkDestroy, IgnoreEvent
  <1> QED  BY <1>1, <1>2, <1>3, <1>4, <1>5, <1>6 DEF MonitorNext, MonitorStep

\* start() is over when the handlers run, and an entry that a step leaves or
\* makes absent has no names.
LEMMA MonitorCache ==
    ASSUME TypeOK, CacheInv, MonitorNext
    PROVE  CacheInv'
  <1>0. containers \in [Container -> ContainerState]
    BY DEF TypeOK, MonitorTypeOK
  <1>1. CASE StartListNetworks \/ StartFails \/ \E n \in Network : StartRegisterNetwork(n)
    BY <1>1 DEF StartListNetworks, StartFails, StartRegisterNetwork, CacheInv
  <1>2. CASE StartListContainers
    <2>1. \A c \in Container : \A names : Registered(c, names).cached
      BY DEF Registered, Entry, CacheInv
    <2> QED  BY <1>2, <2>1 DEF StartListContainers, CacheInv
  <1>3. ASSUME phase = "consume", phase' = phase,
               \A c \in Container : ~containers'[c].cached => containers'[c].names = {}
        PROVE  CacheInv'
    BY <1>3 DEF CacheInv
  <1>4. CASE HandleContainerStart
    <2>1. \A c \in Container : \A names : Registered(c, names).cached
      BY DEF Registered, Entry, CacheInv
    <2> QED  BY <1>0, <1>3, <1>4, <2>1 DEF HandleContainerStart, Receive, CacheInv
  <1>5. CASE HandleContainerRename
    <2>1. Receive({"rename"})
      BY <1>5 DEF HandleContainerRename
    <2> DEFINE c == Head(stream).container
               N == AllNames(c, Head(stream).new)
    <2>2. c \in Container
      BY <2>1, ReceiveType, EventType
    <2>3. \/ containers' = containers
          \/ containers[c].cached /\ containers' = [containers EXCEPT ![c].names = N]
      BY <1>5 DEF HandleContainerRename
    <2> HIDE DEF c, N
    <2>4. [containers[c] EXCEPT !.names = N].cached = containers[c].cached
      BY <1>0, <2>2 DEF ContainerState
    <2>5. \A d \in Container : containers'[d] = containers[d] \/ containers'[d].cached
      BY <1>0, <2>2, <2>3, <2>4
    <2> QED  BY <1>3, <2>1, <2>5 DEF Receive, CacheInv
  <1>6. CASE HandleContainerDie
    BY <1>0, <1>3, <1>6 DEF HandleContainerDie, Receive, CacheInv, NotCached
  <1>7. CASE HandleNetworkConnect
    <2> DEFINE c == Head(stream).container
               n == Head(stream).network
               st == Entry(c, AllNames(c, cname[c]))
    <2>1. Receive({"connect"})
      BY <1>7 DEF HandleNetworkConnect
    <2>2. c \in Container /\ n \in Network
      BY <2>1, ReceiveType, EventType
    <2>3. st \in ContainerState /\ st.cached
      <3>1. cname[c] \in CName
        BY <2>2 DEF TypeOK, DaemonTypeOK
      <3> QED  BY <2>2, <3>1, NamesType, EntryType DEF Entry
    <2>4. [st EXCEPT !.networks[n] = att[c][n]].cached
      BY <2>3 DEF ContainerState
    <2>5. \/ containers' = containers
          \/ containers' = [containers EXCEPT ![c] = [st EXCEPT !.networks[n] = att[c][n]]]
      BY <1>7 DEF HandleNetworkConnect
    <2> HIDE DEF st, c, n
    <2>6. \A d \in Container : containers'[d] = containers[d] \/ containers'[d].cached
      BY <1>0, <2>2, <2>4, <2>5
    <2> QED  BY <1>3, <2>1, <2>6 DEF Receive, CacheInv
  <1>8. CASE HandleNetworkDisconnect
    <2> DEFINE c == Head(stream).container
               n == Head(stream).network
    <2>1. Receive({"disconnect"}) /\ containers' = [containers EXCEPT ![c].networks[n] = {}]
      BY <1>8 DEF HandleNetworkDisconnect
    <2>2. c \in Container
      BY <2>1, ReceiveType, EventType
    <2> HIDE DEF c, n
    <2>3. /\ containers'[c].cached = containers[c].cached
          /\ containers'[c].names = containers[c].names
          /\ \A d \in Container \ {c} : containers'[d] = containers[d]
      BY <1>0, <2>1, <2>2 DEF ContainerState
    <2>4. \A d \in Container : ~containers'[d].cached => containers'[d].names = {}
      BY <2>3 DEF CacheInv
    <2> QED  BY <1>3, <2>1, <2>4 DEF Receive
  <1>9. CASE HandleNetworkCreate \/ HandleNetworkDestroy \/ IgnoreEvent
    BY <1>3, <1>9 DEF HandleNetworkCreate, HandleNetworkDestroy, IgnoreEvent, Receive, CacheInv
  <1> QED  BY <1>1, <1>2, <1>4, <1>5, <1>6, <1>7, <1>8, <1>9 DEF MonitorNext, MonitorStep

\* register_container_networks claims what it adds, and without overwriting
\* addresses keeps what the entry claimed.
LEMMA RegisteredClaims ==
    ASSUME TypeOK, CacheInv, NEW c \in Container, NEW names \in SUBSET DnsName,
           NEW D, D[c] = Registered(c, names), NEW p \in Pair
    PROVE  /\ ~Overwrites(c) /\ Claimed(containers, c, p) => Claimed(D, c, p)
           /\ p \in RegisteredPairs(c, names) => Claimed(D, c, p)
  <1> DEFINE E == Entry(c, names)
  <1>0. E \in ContainerState /\ containers[c] \in ContainerState
    BY EntryType DEF TypeOK, MonitorTypeOK
  <1>1. /\ D[c].names = E.names
        /\ \A n \in Network : D[c].networks[n] = IF att[c][n] # {} THEN att[c][n] ELSE E.networks[n]
    BY <1>0 DEF Registered, ContainerState
  <1>2. ASSUME ~Overwrites(c), Claimed(containers, c, p) PROVE Claimed(D, c, p)
    <2>1. containers[c].cached
      BY <1>2 DEF Claimed, CacheInv
    <2>2. E = containers[c]
      BY <2>1 DEF Entry
    <2>3. PICK n \in Network : p[2] \in containers[c].networks[n]
      BY <1>2 DEF Claimed
    <2>4. p[2] \in D[c].networks[n]
      BY <1>1, <1>2, <2>2, <2>3 DEF Overwrites, Attached
    <2> QED  BY <1>1, <1>2, <2>2, <2>4 DEF Claimed
  <1>3. ASSUME p \in RegisteredPairs(c, names) PROVE Claimed(D, c, p)
    <2>1. p[1] \in E.names /\ p[2] \in Addresses(c)
      BY <1>3 DEF RegisteredPairs
    <2>2. PICK n \in Network : p[2] \in att[c][n]
      BY <2>1 DEF Addresses
    <2> QED  BY <1>1, <2>1, <2>2 DEF Claimed
  <1> QED  BY <1>2, <1>3

\* Each step of start() and each handler that leaves no mark in hazard keeps
\* every record claimed.
LEMMA MonitorClaims ==
    ASSUME TypeOK, CacheInv, AllClaimed(containers, table.fwd), MonitorNext,
           hazard' \cap Unowned = {}
    PROVE  AllClaimed(containers', table'.fwd)
  <1>0. DaemonTypeOK /\ MonitorTypeOK /\ table \in Table /\ table.fwd \in SUBSET Pair
    BY DEF TypeOK, MonitorTypeOK, Table
  <1>1. containers' \in [Container -> ContainerState] /\ table' \in Table /\ table'.fwd \in SUBSET Pair
    <2>1. TypeOK'
      BY MonitorType
    <2> QED  BY <2>1 DEF TypeOK, MonitorTypeOK, Table
  <1>a. ASSUME NEW c \in Container, \A d \in Container \ {c} : containers'[d] = containers[d],
               \A p \in table'.fwd :
                  \/ Claimed(containers', c, p)
                  \/ p \in table.fwd /\ ~Claimed(containers, c, p)
        PROVE  AllClaimed(containers', table'.fwd)
    <2> SUFFICES ASSUME NEW p \in table'.fwd
                 PROVE  \E d \in Container : Claimed(containers', d, p)
      BY DEF AllClaimed
    <2>1. CASE Claimed(containers', c, p)
      BY <2>1
    <2>2. CASE p \in table.fwd /\ ~Claimed(containers, c, p)
      <3>1. PICK d \in Container : Claimed(containers, d, p)
        BY <2>2 DEF AllClaimed
      <3> QED  BY <1>a, <2>2, <3>1 DEF Claimed
    <2> QED  BY <1>a, <2>1, <2>2
  <1>b. ASSUME UNCHANGED containers, table'.fwd = table.fwd
        PROVE  AllClaimed(containers', table'.fwd)
    BY <1>b DEF AllClaimed, Claimed
  <1>c. ASSUME NEW f, NEW A, NEW B
        PROVE  Upsert(RemoveAddresses(table, f, A), f, B).fwd = (table.fwd \ A) \cup B
    <2> DEFINE t == RemoveAddresses(table, f, A)
    <2>1. t \in Table
      BY <1>0, RemoveAddressesType
    <2>2. t.fwd = table.fwd \ A
      BY <1>0 DEF RemoveAddresses, Table
    <2> HIDE DEF t
    <2>3. Upsert(t, f, B).fwd = t.fwd \cup B
      BY <2>1 DEF Upsert, Table
    <2> QED  BY <2>2, <2>3 DEF t
  <1>2. CASE StartListNetworks \/ StartFails \/ IgnoreEvent
    BY <1>2, <1>b DEF StartListNetworks, StartFails, IgnoreEvent
  <1>3. CASE HandleNetworkCreate \/ HandleNetworkDestroy \/ \E n \in Network : StartRegisterNetwork(n)
    BY <1>0, <1>3, <1>b DEF HandleNetworkCreate, HandleNetworkDestroy, StartRegisterNetwork,
       RegisterNetwork, AddReverseZones, RemoveReverseZones, Table
  <1>4. CASE StartListContainers
    <2> DEFINE names(c) == FullNames({cname[c]})
               Pairs(R) == UNION {RegisteredPairs(c, names(c)) : c \in R}
    <2>1. table.fwd = {}
      BY <1>4 DEF StartListContainers, CacheInv, AllClaimed, Claimed
    <2>2. PICK running \in SUBSET Container :
             /\ containers' = [c \in Container |->
                    IF c \in running THEN Registered(c, names(c)) ELSE containers[c]]
             /\ \E f : table' = Upsert(table, f, Pairs(running))
      BY <1>4 DEF StartListContainers
    <2> DEFINE pairs == Pairs(running)
    <2>3. \A c \in Container : names(c) \in SUBSET DnsName
      BY <1>0, NamesType DEF DaemonTypeOK
    <2> HIDE DEF names
    <2>4. table'.fwd = pairs
      BY <1>0, <2>1, <2>2 DEF Upsert, Table
    <2>5. ASSUME NEW p \in table'.fwd PROVE \E c \in Container : Claimed(containers', c, p)
      <3>1. PICK c \in running : p \in RegisteredPairs(c, names(c))
        BY <2>4
      <3>2. containers'[c] = Registered(c, names(c)) /\ p \in Pair
        BY <1>1, <2>2
      <3> HIDE DEF pairs
      <3> QED  BY <2>3, <3>1, <3>2, RegisteredClaims
    <2> QED  BY <2>5 DEF AllClaimed
  <1>5. CASE HandleContainerStart
    <2> DEFINE c == Head(stream).container
               names == AllNames(c, cname[c])
    <2>1. c \in Container /\ names \in SUBSET DnsName
      <3>1. Receive({"start"})
        BY <1>5 DEF HandleContainerStart
      <3>2. c \in Container
        BY <3>1, ReceiveType, EventType
      <3> QED  BY <1>0, <3>2, NamesType DEF DaemonTypeOK
    <2>2. CASE UNCHANGED <<containers, table>>
      BY <2>2, <1>b
    <2>3. CASE ~UNCHANGED <<containers, table>>
      <3>1. /\ containers' = [containers EXCEPT ![c] = Registered(c, names)]
            /\ \E f : table' = Upsert(table, f, RegisteredPairs(c, names))
            /\ ~Overwrites(c)
        BY <1>5, <2>3 DEF HandleContainerStart, Unowned
      <3>2. table'.fwd = table.fwd \cup RegisteredPairs(c, names)
        BY <1>0, <3>1 DEF Upsert, Table
      <3> HIDE DEF c, names
      <3>3. /\ containers'[c] = Registered(c, names)
            /\ \A d \in Container \ {c} : containers'[d] = containers[d]
        BY <1>0, <2>1, <3>1 DEF MonitorTypeOK
      <3>4. \A p \in Pair : /\ Claimed(containers, c, p) => Claimed(containers', c, p)
                            /\ p \in RegisteredPairs(c, names) => Claimed(containers', c, p)
        BY <2>1, <3>1, <3>3, RegisteredClaims
      <3>5. \A p \in table'.fwd : p \in Pair /\ (p \in table.fwd \/ p \in RegisteredPairs(c, names))
        BY <1>1, <3>2
      <3>6. \A p \in table'.fwd : \/ Claimed(containers', c, p)
                                  \/ p \in table.fwd /\ ~Claimed(containers, c, p)
        BY <3>4, <3>5
      <3> QED  BY <1>a, <2>1, <3>3, <3>6
    <2> QED  BY <2>2, <2>3
  <1>7. CASE HandleContainerDie
    <2> DEFINE c == Head(stream).container
               pairs == containers[c].names \X CachedAddresses(containers[c])
    <2>1. c \in Container
      <3>1. Receive({"die"})
        BY <1>7 DEF HandleContainerDie
      <3> QED  BY <3>1, ReceiveType, EventType
    <2>2. /\ containers' = [containers EXCEPT ![c] = NotCached]
          /\ \E f : table' = RemoveAddresses(table, f, pairs)
      BY <1>7 DEF HandleContainerDie, Claims
    <2>3. table'.fwd = table.fwd \ pairs
      BY <1>0, <2>2 DEF RemoveAddresses, Table
    <2>4. \A p \in Pair : Claimed(containers, c, p) => p \in pairs
      BY DEF Claimed, CachedAddresses, Pair
    <2> HIDE DEF c, pairs
    <2>5. \A d \in Container \ {c} : containers'[d] = containers[d]
      BY <1>0, <2>1, <2>2 DEF MonitorTypeOK
    <2>6. \A p \in table'.fwd : p \in table.fwd /\ ~Claimed(containers, c, p)
      BY <1>0, <2>3, <2>4
    <2>7. \A p \in table'.fwd : \/ Claimed(containers', c, p)
                                \/ p \in table.fwd /\ ~Claimed(containers, c, p)
      BY <2>6
    <2> QED  BY <1>a, <2>1, <2>5, <2>7
  <1>6. CASE HandleContainerRename
    <2> DEFINE ev == Head(stream)
               c == ev.container
               old == Fqdn[ev.old]
               new == Fqdn[ev.new]
               names == AllNames(c, ev.new)
               ips == AddressesOf(table, old)
    <2>1. c \in Container
      <3>1. Receive({"rename"})
        BY <1>6 DEF HandleContainerRename
      <3> QED  BY <3>1, ReceiveType, EventType
    <2>2. CASE UNCHANGED <<containers, table>>
      BY <2>2, <1>b
    <2>3. CASE ~UNCHANGED <<containers, table>>
      <3>1. /\ new # BadName
            /\ \E f : table' = Rename(table, f, old, new)
            /\ containers' = IF containers[c].cached
                              THEN [containers EXCEPT ![c].names = names] ELSE containers
            /\ \A d \in Container \ {c} : old \notin containers[d].names
            /\ containers[c].cached => containers[c].names \subseteq {old} \cup names
        BY <1>6, <2>3 DEF HandleContainerRename, Unowned
      <3>2. table'.fwd = (table.fwd \ ({old} \X ips)) \cup ({new} \X ips)
        BY <1>0, <3>1 DEF Rename, Table
      <3>3. new \in names
        BY <3>1 DEF AllNames, FullNames
      <3>4. ips = {ip \in Ip : <<old, ip>> \in table.fwd}
        BY DEF AddressesOf
      <3> HIDE DEF c, old, new, names, ips
      <3>5. /\ \A d \in Container \ {c} : containers'[d] = containers[d]
            /\ containers[c].cached =>
                  /\ containers'[c].names = names
                  /\ containers'[c].networks = containers[c].networks
        BY <1>0, <2>1, <3>1 DEF MonitorTypeOK, ContainerState
      <3>6. \A p : Claimed(containers, c, p) => containers[c].cached
        BY <2>1 DEF Claimed, CacheInv
      <3>7. ASSUME NEW p \in {new} \X ips PROVE Claimed(containers', c, p)
        <4> DEFINE q == <<old, p[2]>>
        <4>1. q \in table.fwd /\ p[1] = new
          BY <3>4
        <4>2. PICK d \in Container : Claimed(containers, d, q)
          BY <4>1 DEF AllClaimed
        <4>3. d = c
          BY <3>1, <4>2 DEF Claimed
        <4> QED  BY <3>3, <3>5, <3>6, <4>1, <4>2, <4>3 DEF Claimed
      <3>8. ASSUME NEW p \in table.fwd \ ({old} \X ips), Claimed(containers, c, p)
            PROVE  Claimed(containers', c, p)
        <4>1. p[1] # old
          BY <1>0, <3>4 DEF Pair
        <4>2. containers[c].cached
          BY <3>6, <3>8
        <4> QED  BY <3>1, <3>5, <3>8, <4>1, <4>2 DEF Claimed
      <3> QED  BY <1>a, <2>1, <3>2, <3>5, <3>7, <3>8
    <2> QED  BY <2>2, <2>3
  <1>8. CASE HandleNetworkConnect
    <2> DEFINE c == Head(stream).container
               n == Head(stream).network
               st == Entry(c, AllNames(c, cname[c]))
               old == st.networks[n]
               new == att[c][n]
    <2>1. c \in Container /\ n \in Network
      <3>1. Receive({"connect"})
        BY <1>8 DEF HandleNetworkConnect
      <3> QED  BY <3>1, ReceiveType, EventType
    <2>2. CASE UNCHANGED <<containers, table>>
      BY <2>2, <1>b
    <2>3. CASE ~UNCHANGED <<containers, table>>
      <3>1. st \in ContainerState
        BY <1>0, <2>1, NamesType, EntryType DEF DaemonTypeOK
      <3>2. /\ containers' = [containers EXCEPT ![c] = [st EXCEPT !.networks[n] = new]]
            /\ \/ old = new /\ table' = table
               \/ \E f : table' = Upsert(RemoveAddresses(table, f, st.names \X old),
                                         f, st.names \X new)
        BY <1>8, <2>3 DEF HandleNetworkConnect
      <3>3. containers[c].cached => st = containers[c]
        BY DEF Entry
      <3>4. old = st.networks[n]
        OBVIOUS
      <3> HIDE DEF c, n, st, old, new
      <3>5. \A d \in Container \ {c} : containers'[d] = containers[d]
        BY <1>0, <2>1, <3>2 DEF MonitorTypeOK
      <3>6. /\ containers'[c].names = st.names
            /\ \A m \in Network : containers'[c].networks[m] = IF m = n THEN new ELSE st.networks[m]
        BY <1>0, <2>1, <3>1, <3>2 DEF MonitorTypeOK, ContainerState
      <3>7. \A p \in table'.fwd :
               \/ p \in st.names \X new
               \/ p \in table.fwd /\ (p \notin st.names \X old \/ old = new)
        BY <1>c, <3>2
      <3>8. ASSUME NEW p \in st.names \X new PROVE Claimed(containers', c, p)
        BY <2>1, <3>6 DEF Claimed
      <3>9. ASSUME NEW p \in table.fwd, p \notin st.names \X old \/ old = new,
                   Claimed(containers, c, p)
            PROVE  Claimed(containers', c, p)
        <4>1. st = containers[c]
          BY <2>1, <3>3, <3>9 DEF Claimed, CacheInv
        <4>2. PICK m \in Network : p[2] \in st.networks[m]
          BY <3>9, <4>1 DEF Claimed
        <4>3. p[1] \in st.names /\ p = <<p[1], p[2]>>
          BY <1>0, <3>9, <4>1 DEF Claimed, Pair
        <4> QED  BY <3>4, <3>6, <3>9, <4>2, <4>3 DEF Claimed
      <3> QED  BY <1>a, <2>1, <3>5, <3>7, <3>8, <3>9
    <2> QED  BY <2>2, <2>3
  <1>9. CASE HandleNetworkDisconnect
    <2> DEFINE c == Head(stream).container
               n == Head(stream).network
               old == containers[c].networks[n]
               pairs == containers[c].names \X old
    <2>1. c \in Container /\ n \in Network
      <3>1. Receive({"disconnect"})
        BY <1>9 DEF HandleNetworkDisconnect
      <3> QED  BY <3>1, ReceiveType, EventType
    <2>2. /\ containers' = [containers EXCEPT ![c].networks[n] = {}]
          /\ \E f : table' = RemoveAddresses(table, f, pairs)
      BY <1>9 DEF HandleNetworkDisconnect
    <2>3. table'.fwd = table.fwd \ pairs
      BY <1>0, <2>2 DEF RemoveAddresses, Table
    <2> HIDE DEF c, n
    <2>4. \A d \in Container \ {c} : containers'[d] = containers[d]
      BY <1>0, <2>1, <2>2 DEF MonitorTypeOK
    <2>5. /\ containers'[c].names = containers[c].names
          /\ \A m \in Network \ {n} : containers'[c].networks[m] = containers[c].networks[m]
      BY <1>0, <2>1, <2>2 DEF MonitorTypeOK, ContainerState
    <2>6. ASSUME NEW p \in table.fwd \ pairs, Claimed(containers, c, p)
          PROVE  Claimed(containers', c, p)
      <3>1. PICK m \in Network : p[2] \in containers[c].networks[m]
        BY <2>6 DEF Claimed
      <3>2. m # n
        BY <1>0, <2>6, <3>1 DEF Claimed, Pair
      <3> QED  BY <2>5, <2>6, <3>1, <3>2 DEF Claimed
    <2> HIDE DEF pairs
    <2> QED  BY <1>a, <2>1, <2>3, <2>4, <2>6
  <1> QED  BY <1>2, <1>3, <1>4, <1>5, <1>6, <1>7, <1>8, <1>9 DEF MonitorNext, MonitorStep

\* No record is orphaned: each A or AAAA record is claimed by a cached
\* container, so that a later die or disconnect can still withdraw it, unless
\* a rename clashed or came late or a start event overwrote addresses.
THEOREM RecordsOwnedHolds == Spec => []RecordsOwned
  <1> DEFINE Inv == CacheInv /\ (hazard \cap Unowned = {} => AllClaimed(containers, table.fwd))
  <1>1. Init => Inv
    BY DEF Init, MonitorInit, EmptyTable, NotCached, CacheInv, AllClaimed
  <1>2. TypeOK /\ Inv /\ [Next]_vars => Inv'
    <2> SUFFICES ASSUME TypeOK, Inv, [Next]_vars PROVE Inv'
      OBVIOUS
    <2>1. CASE DaemonNext /\ UNCHANGED monitorVars
      <3>1. hazard \subseteq hazard'
        BY <2>1, DaemonSteps DEF Subscribe, NetworkCreate, NetworkDestroy, Emit
      <3> QED  BY <2>1, <3>1 DEF monitorVars, CacheInv, AllClaimed, Claimed
    <2>2. CASE MonitorNext
      BY <2>2, MarksStay, MonitorCache, MonitorClaims
    <2>3. CASE UNCHANGED vars
      BY <2>3 DEF vars, monitorVars, daemonVars, CacheInv, AllClaimed, Claimed
    <2> QED  BY <2>1, <2>2, <2>3 DEF Next
  <1>3. TypeOK /\ Inv => RecordsOwned
    <2> SUFFICES ASSUME TypeOK, AllClaimed(containers, table.fwd)
                 PROVE  table.fwd \subseteq UNION {Claims(c) : c \in Container}
      BY DEF RecordsOwned, Unowned
    <2>1. containers \in [Container -> ContainerState] /\ table.fwd \in SUBSET Pair
      BY DEF TypeOK, MonitorTypeOK, Table
    <2> QED  BY <2>1, ClaimsForm DEF Claims
  <1> QED  BY <1>1, <1>2, <1>3, TypeCorrect, PTL DEF Spec
-----------------------------------------------------------------------------
(***************************************************************************)
(* The converse of RecordsOwned: every record that a cache entry stands    *)
(* for is published.  With it, handle_network_connect may return early     *)
(* when it finds the addresses of an endpoint in the cache.                *)
(***************************************************************************)

\* The ways in which a cache entry comes to stand for a record that is not
\* there: a rename takes it away or makes it up, or it goes for another claim.
Unpublished == {"rename_clash", "rename_unfounded", "claim_lost"}

AllPublished(C, F) == \A c \in Container : \A p \in Pair : Claimed(C, c, p) => p \in F

\* Only the listings of start() clear marks, those of missed events.
LEMMA MarksAccumulate ==
    ASSUME MonitorNext, NEW m \in hazard, m \notin {"missed_network", "missed_container"}
    PROVE  m \in hazard'
  <1>1. CASE StartListNetworks \/ StartListContainers \/ StartFails
    BY <1>1 DEF StartListNetworks, StartListContainers, StartFails, daemonVars
  <1>2. CASE \/ \E n \in Network : StartRegisterNetwork(n)
             \/ HandleContainerStart \/ HandleNetworkCreate
    BY <1>2 DEF StartRegisterNetwork, HandleContainerStart, HandleNetworkCreate, InspectError
  <1>3. CASE HandleContainerRename
    BY <1>3 DEF HandleContainerRename
  <1>4. CASE HandleContainerDie \/ HandleNetworkDisconnect
    BY <1>4, RemovalMarks DEF HandleContainerDie, HandleNetworkDisconnect
  <1>5. CASE HandleNetworkConnect
    <2>1. \A pairs : RemovalHazard(pairs) => hazard \subseteq hazard'
      BY RemovalMarks
    <2> QED  BY <1>5, <2>1 DEF HandleNetworkConnect, InspectError
  <1>6. CASE HandleNetworkDestroy \/ IgnoreEvent
    BY <1>6 DEF HandleNetworkDestroy, IgnoreEvent
  <1> QED  BY <1>1, <1>2, <1>3, <1>4, <1>5, <1>6 DEF MonitorNext, MonitorStep

\* A removal that leaves no mark takes no record that an entry stands for
\* afterwards.
LEMMA RemovalSparesClaims ==
    ASSUME TypeOK', NEW pairs, RemovalHazard(pairs), "claim_lost" \notin hazard',
           NEW c \in Container, NEW p \in Pair, Claimed(containers', c, p)
    PROVE  p \notin pairs
  <1>1. Claims(c)' \cap pairs = {}
    BY DEF RemovalHazard
  <1>2. p \in containers'[c].names \X CachedAddresses(containers'[c])
    BY DEF Claimed, CachedAddresses, Pair
  <1> QED  BY <1>1, <1>2 DEF Claims

\* An entry that register_container_networks leaves stands for the records it
\* adds and for those the entry stood for.
LEMMA RegisteredClaimsOnly ==
    ASSUME TypeOK, NEW c \in Container, NEW names \in SUBSET DnsName,
           NEW D, D[c] = Registered(c, names), NEW p \in Pair, Claimed(D, c, p)
    PROVE  p \in RegisteredPairs(c, names) \/ Claimed(containers, c, p)
  <1> DEFINE E == Entry(c, names)
  <1>0. E \in ContainerState
    BY EntryType
  <1>1. /\ D[c].names = E.names
        /\ \A n \in Network : D[c].networks[n] = IF att[c][n] # {} THEN att[c][n] ELSE E.networks[n]
    BY <1>0 DEF Registered, ContainerState
  <1>2. p[1] \in E.names /\ p = <<p[1], p[2]>>
    BY <1>1 DEF Claimed, Pair
  <1>3. PICK n \in Network : p[2] \in D[c].networks[n]
    BY DEF Claimed
  <1>4. CASE att[c][n] # {}
    <2>1. p[2] \in Addresses(c)
      BY <1>1, <1>3, <1>4 DEF Addresses
    <2> QED  BY <1>2, <2>1 DEF RegisteredPairs
  <1>5. CASE att[c][n] = {}
    <2>1. p[2] \in E.networks[n]
      BY <1>1, <1>3, <1>5
    <2>2. E = containers[c]
      BY <2>1 DEF Entry
    <2> QED  BY <1>2, <2>1, <2>2 DEF Claimed
  <1> QED  BY <1>4, <1>5

\* The forward records when the addresses of an endpoint are replaced.
LEMMA ReplaceForward ==
    ASSUME NEW t \in Table, NEW A, NEW B, NEW f
    PROVE  Upsert(RemoveAddresses(t, f, A), f, B).fwd = (t.fwd \ A) \cup B
  <1> DEFINE r == RemoveAddresses(t, f, A)
  <1>1. r \in Table
    BY RemoveAddressesType
  <1>2. r.fwd = t.fwd \ A
    BY DEF RemoveAddresses, Table
  <1> HIDE DEF r
  <1>3. Upsert(r, f, B).fwd = r.fwd \cup B
    BY <1>1 DEF Upsert, Table
  <1> QED  BY <1>2, <1>3 DEF r

\* Each step of start() and each handler that leaves no mark in hazard keeps
\* published what the cache entries stand for.
LEMMA MonitorPublishes ==
    ASSUME TypeOK, CacheInv, AllPublished(containers, table.fwd), MonitorNext,
           hazard' \cap Unpublished = {}
    PROVE  AllPublished(containers', table'.fwd)
  <1>0. DaemonTypeOK /\ MonitorTypeOK /\ table \in Table /\ table.fwd \in SUBSET Pair
    BY DEF TypeOK, MonitorTypeOK, Table
  <1>1. TypeOK' /\ containers' \in [Container -> ContainerState]
    <2>1. TypeOK'
      BY MonitorType
    <2> QED  BY <2>1 DEF TypeOK, MonitorTypeOK
  <1>a. ASSUME NEW c \in Container, \A d \in Container \ {c} : containers'[d] = containers[d],
               \A p \in Pair : Claimed(containers', c, p) => p \in table'.fwd,
               \A p \in table.fwd \ table'.fwd : \A d \in Container \ {c} :
                   ~Claimed(containers', d, p)
        PROVE  AllPublished(containers', table'.fwd)
    <2> SUFFICES ASSUME NEW d \in Container \ {c}, NEW p \in Pair, Claimed(containers', d, p)
                 PROVE  p \in table'.fwd
      BY <1>a DEF AllPublished
    <2>1. Claimed(containers, d, p)
      BY <1>a DEF Claimed
    <2>2. p \in table.fwd
      BY <2>1 DEF AllPublished
    <2> QED  BY <1>a, <2>2
  <1>b. ASSUME UNCHANGED containers, table'.fwd = table.fwd
        PROVE  AllPublished(containers', table'.fwd)
    BY <1>b DEF AllPublished, Claimed
  <1>2. CASE StartListNetworks \/ StartFails \/ IgnoreEvent
    BY <1>2, <1>b DEF StartListNetworks, StartFails, IgnoreEvent
  <1>3. CASE HandleNetworkCreate \/ HandleNetworkDestroy \/ \E n \in Network : StartRegisterNetwork(n)
    BY <1>0, <1>3, <1>b DEF HandleNetworkCreate, HandleNetworkDestroy, StartRegisterNetwork,
       RegisterNetwork, AddReverseZones, RemoveReverseZones, Table
  <1>4. CASE StartListContainers
    <2> DEFINE names(c) == FullNames({cname[c]})
               Pairs(R) == UNION {RegisteredPairs(c, names(c)) : c \in R}
    <2>1. \A c \in Container : names(c) \in SUBSET DnsName
      BY <1>0, NamesType DEF DaemonTypeOK
    <2>2. PICK running \in SUBSET Container :
             /\ containers' = [c \in Container |->
                    IF c \in running THEN Registered(c, names(c)) ELSE containers[c]]
             /\ \E f : table' = Upsert(table, f, Pairs(running))
      BY <1>4 DEF StartListContainers
    <2> DEFINE pairs == Pairs(running)
    <2>3. \A c \in Container : \A p \in Pair : ~Claimed(containers, c, p)
      BY <1>4 DEF StartListContainers, CacheInv, Claimed
    <2> HIDE DEF names
    <2>4. pairs \subseteq table'.fwd
      BY <1>0, <2>2 DEF Upsert, Table
    <2> SUFFICES ASSUME NEW c \in Container, NEW p \in Pair, Claimed(containers', c, p)
                 PROVE  p \in table'.fwd
      BY DEF AllPublished
    <2>5. c \in running
      BY <2>2, <2>3 DEF Claimed
    <2>6. containers'[c] = Registered(c, names(c))
      BY <2>2, <2>5
    <2>7. p \in RegisteredPairs(c, names(c))
      BY <2>1, <2>3, <2>6, RegisteredClaimsOnly
    <2> QED  BY <2>4, <2>5, <2>7
  <1>5. CASE HandleContainerStart
    <2> DEFINE c == Head(stream).container
               names == AllNames(c, cname[c])
    <2>1. c \in Container /\ names \in SUBSET DnsName
      <3>1. Receive({"start"})
        BY <1>5 DEF HandleContainerStart
      <3>2. c \in Container
        BY <3>1, ReceiveType, EventType
      <3> QED  BY <1>0, <3>2, NamesType DEF DaemonTypeOK
    <2>2. CASE UNCHANGED <<containers, table>>
      BY <2>2, <1>b
    <2>3. CASE ~UNCHANGED <<containers, table>>
      <3>1. /\ containers' = [containers EXCEPT ![c] = Registered(c, names)]
            /\ \E f : table' = Upsert(table, f, RegisteredPairs(c, names))
        BY <1>5, <2>3 DEF HandleContainerStart
      <3>2. table'.fwd = table.fwd \cup RegisteredPairs(c, names)
        BY <1>0, <3>1 DEF Upsert, Table
      <3> HIDE DEF c, names
      <3>3. /\ containers'[c] = Registered(c, names)
            /\ \A d \in Container \ {c} : containers'[d] = containers[d]
        BY <1>0, <2>1, <3>1 DEF MonitorTypeOK
      <3>4. ASSUME NEW p \in Pair, Claimed(containers', c, p) PROVE p \in table'.fwd
        <4>1. p \in RegisteredPairs(c, names) \/ Claimed(containers, c, p)
          BY <2>1, <3>3, <3>4, RegisteredClaimsOnly
        <4> QED  BY <2>1, <3>2, <4>1 DEF AllPublished
      <3> QED  BY <1>a, <2>1, <3>2, <3>3, <3>4
    <2> QED  BY <2>2, <2>3
  <1>6. CASE HandleContainerRename
    <2> DEFINE ev == Head(stream)
               c == ev.container
               old == Fqdn[ev.old]
               new == Fqdn[ev.new]
               names == AllNames(c, ev.new)
               ips == AddressesOf(table, old)
    <2>1. c \in Container
      <3>1. Receive({"rename"})
        BY <1>6 DEF HandleContainerRename
      <3> QED  BY <3>1, ReceiveType, EventType
    <2>2. CASE UNCHANGED <<containers, table>>
      BY <2>2, <1>b
    <2>3. CASE ~UNCHANGED <<containers, table>>
      <3>1. /\ \E f : table' = Rename(table, f, old, new)
            /\ containers' = IF containers[c].cached
                              THEN [containers EXCEPT ![c].names = names] ELSE containers
            /\ \A d \in Container \ {c} : old \notin containers[d].names
            /\ containers[c].cached => names \subseteq (containers[c].names \ {old}) \cup
                                         (IF old \in containers[c].names THEN {new} ELSE {})
        BY <1>6, <2>3 DEF HandleContainerRename, Unpublished
      <3>2. table'.fwd = (table.fwd \ ({old} \X ips)) \cup ({new} \X ips)
        BY <1>0, <3>1 DEF Rename, Table
      <3>3. ips = {ip \in Ip : <<old, ip>> \in table.fwd}
        BY DEF AddressesOf
      <3> HIDE DEF c, old, new, names, ips
      <3>4. \A d \in Container \ {c} : containers'[d] = containers[d]
        BY <1>0, <2>1, <3>1 DEF MonitorTypeOK
      <3>5. ASSUME NEW p \in table.fwd \ table'.fwd, NEW d \in Container \ {c}
            PROVE  ~Claimed(containers', d, p)
        <4>1. p[1] = old
          BY <3>2, <3>5
        <4> QED  BY <3>1, <3>4, <4>1 DEF Claimed
      <3>6. ASSUME NEW p \in Pair, Claimed(containers', c, p) PROVE p \in table'.fwd
        <4>1. p = <<p[1], p[2]>> /\ p[2] \in Ip
          BY DEF Pair
        <4>2. containers[c].cached
          BY <2>1, <3>1, <3>6 DEF Claimed, CacheInv
        <4>3. containers'[c].names = names /\ containers'[c].networks = containers[c].networks
          BY <1>0, <2>1, <3>1, <4>2 DEF MonitorTypeOK, ContainerState
        <4>4. \A x \in containers[c].names : <<x, p[2]>> \in Pair => <<x, p[2]>> \in table.fwd
          BY <2>1, <3>6, <4>3 DEF AllPublished, Claimed
        <4>5. containers[c].names \in SUBSET DnsName
          BY <1>0, <2>1 DEF MonitorTypeOK, ContainerState
        <4>6. \A x \in containers[c].names : <<x, p[2]>> \in table.fwd
          BY <4>1, <4>4, <4>5 DEF Pair
        <4>7. p[1] \in names
          BY <3>6, <4>3 DEF Claimed
        <4>8. CASE p[1] \in containers[c].names \ {old}
          BY <3>2, <4>1, <4>6, <4>8
        <4>9. CASE old \in containers[c].names /\ p[1] = new
          <5>1. p[2] \in ips
            BY <3>3, <4>1, <4>6, <4>9
          <5> QED  BY <3>2, <4>1, <4>9, <5>1
        <4> QED  BY <3>1, <4>2, <4>7, <4>8, <4>9
      <3> QED  BY <1>a, <2>1, <3>4, <3>5, <3>6
    <2> QED  BY <2>2, <2>3
  <1>7. CASE HandleContainerDie
    <2> DEFINE c == Head(stream).container
               pairs == Claims(c)
    <2>1. c \in Container
      <3>1. Receive({"die"})
        BY <1>7 DEF HandleContainerDie
      <3> QED  BY <3>1, ReceiveType, EventType
    <2>2. /\ containers' = [containers EXCEPT ![c] = NotCached]
          /\ \E f : table' = RemoveAddresses(table, f, pairs)
          /\ RemovalHazard(pairs)
      BY <1>7 DEF HandleContainerDie
    <2>3. table'.fwd = table.fwd \ pairs
      BY <1>0, <2>2 DEF RemoveAddresses, Table
    <2> HIDE DEF c, pairs
    <2>4. \A d \in Container \ {c} : containers'[d] = containers[d]
      BY <1>0, <2>1, <2>2 DEF MonitorTypeOK
    <2>5. \A p \in Pair : ~Claimed(containers', c, p)
      BY <1>0, <2>1, <2>2 DEF MonitorTypeOK, NotCached, Claimed
    <2>6. ASSUME NEW p \in table.fwd \ table'.fwd, NEW d \in Container \ {c}
          PROVE  ~Claimed(containers', d, p)
      BY <1>0, <1>1, <2>2, <2>3, RemovalSparesClaims DEF Unpublished
    <2> QED  BY <1>a, <2>1, <2>4, <2>5, <2>6
  <1>8. CASE HandleNetworkConnect
    <2> DEFINE c == Head(stream).container
               n == Head(stream).network
               st == Entry(c, AllNames(c, cname[c]))
               old == st.networks[n]
               new == att[c][n]
               gone == st.names \X (old \ new)
    <2>1. c \in Container /\ n \in Network
      <3>1. Receive({"connect"})
        BY <1>8 DEF HandleNetworkConnect
      <3> QED  BY <3>1, ReceiveType, EventType
    <2>2. CASE UNCHANGED <<containers, table>>
      BY <2>2, <1>b
    <2>3. CASE ~UNCHANGED <<containers, table>>
      <3>1. st \in ContainerState
        BY <1>0, <2>1, NamesType, EntryType DEF DaemonTypeOK
      <3>2. /\ containers' = [containers EXCEPT ![c] = [st EXCEPT !.networks[n] = new]]
            /\ \/ old = new /\ table' = table
               \/ /\ \E f : table' = Upsert(RemoveAddresses(table, f, st.names \X old),
                                            f, st.names \X new)
                  /\ RemovalHazard(gone)
        BY <1>8, <2>3 DEF HandleNetworkConnect
      <3>3. containers[c].cached => st = containers[c]
        BY DEF Entry
      <3>4. ~containers[c].cached => \A m \in Network : st.networks[m] = {}
        BY DEF Entry
      <3>5. old = st.networks[n] /\ gone = st.names \X (old \ new)
        OBVIOUS
      <3> HIDE DEF c, n, st, old, new, gone
      <3>6. \A d \in Container \ {c} : containers'[d] = containers[d]
        BY <1>0, <2>1, <3>2 DEF MonitorTypeOK
      <3>7. /\ containers'[c].names = st.names
            /\ \A m \in Network : containers'[c].networks[m] = IF m = n THEN new ELSE st.networks[m]
        BY <1>0, <2>1, <3>1, <3>2 DEF MonitorTypeOK, ContainerState
      \* What the entry stood for before was published.
      <3>8. ASSUME NEW p \in Pair, p[1] \in st.names, NEW m \in Network, p[2] \in st.networks[m]
            PROVE  p \in table.fwd
        BY <2>1, <3>3, <3>4, <3>8 DEF AllPublished, Claimed
      <3>9. CASE old = new /\ table' = table
        <4>1. ASSUME NEW p \in Pair, Claimed(containers', c, p) PROVE p \in table'.fwd
          <5>1. PICK m \in Network : p[2] \in containers'[c].networks[m]
            BY <4>1 DEF Claimed
          <5>2. p[2] \in st.networks[m] /\ p[1] \in st.names
            BY <3>5, <3>7, <3>9, <4>1, <5>1 DEF Claimed
          <5> QED  BY <3>8, <3>9, <5>2
        <4> QED  BY <1>a, <2>1, <3>6, <3>9, <4>1
      <3>10. CASE /\ \E f : table' = Upsert(RemoveAddresses(table, f, st.names \X old),
                                            f, st.names \X new)
                  /\ RemovalHazard(gone)
        <4>1. table'.fwd = (table.fwd \ (st.names \X old)) \cup (st.names \X new)
          <5>1. PICK f : table' = Upsert(RemoveAddresses(table, f, st.names \X old),
                                        f, st.names \X new)
            BY <3>10
          <5>2. Upsert(RemoveAddresses(table, f, st.names \X old), f, st.names \X new).fwd
                  = (table.fwd \ (st.names \X old)) \cup (st.names \X new)
            BY <1>0, ReplaceForward
          <5> QED  BY <5>1, <5>2
        <4>2. ASSUME NEW d \in Container, NEW p \in Pair, Claimed(containers', d, p)
              PROVE  p \notin gone
          BY <1>1, <3>10, <4>2, RemovalSparesClaims DEF Unpublished
        <4>3. ASSUME NEW p \in table.fwd \ table'.fwd PROVE p \in gone
          <5>1. p[1] \in st.names /\ p[2] \in old /\ p \notin st.names \X new /\ p = <<p[1], p[2]>>
            BY <4>1, <4>3
          <5> QED  BY <3>5, <5>1
        <4>4. ASSUME NEW p \in Pair, Claimed(containers', c, p) PROVE p \in table'.fwd
          <5>1. PICK m \in Network : p[2] \in containers'[c].networks[m]
            BY <4>4 DEF Claimed
          <5>2. p[1] \in st.names /\ p = <<p[1], p[2]>>
            BY <3>7, <4>4 DEF Claimed, Pair
          <5>3. CASE m = n
            BY <3>7, <4>1, <5>1, <5>2, <5>3
          <5>4. CASE m # n
            <6>1. p \in table.fwd
              BY <3>7, <3>8, <5>1, <5>2, <5>4
            <6> QED  BY <2>1, <4>2, <4>3, <4>4, <6>1
          <5> QED  BY <5>3, <5>4
        <4>5. \A p \in table.fwd \ table'.fwd : \A d \in Container \ {c} :
                 ~Claimed(containers', d, p)
          BY <1>0, <4>2, <4>3
        <4> QED  BY <1>a, <2>1, <3>6, <4>4, <4>5
      <3> QED  BY <3>2, <3>9, <3>10
    <2> QED  BY <2>2, <2>3
  <1>9. CASE HandleNetworkDisconnect
    <2> DEFINE c == Head(stream).container
               n == Head(stream).network
               pairs == containers[c].names \X containers[c].networks[n]
    <2>1. c \in Container /\ n \in Network
      <3>1. Receive({"disconnect"})
        BY <1>9 DEF HandleNetworkDisconnect
      <3> QED  BY <3>1, ReceiveType, EventType
    <2>2. /\ containers' = [containers EXCEPT ![c].networks[n] = {}]
          /\ \E f : table' = RemoveAddresses(table, f, pairs)
          /\ RemovalHazard(pairs)
      BY <1>9 DEF HandleNetworkDisconnect
    <2>3. table'.fwd = table.fwd \ pairs
      BY <1>0, <2>2 DEF RemoveAddresses, Table
    <2> HIDE DEF c, n, pairs
    <2>4. \A d \in Container \ {c} : containers'[d] = containers[d]
      BY <1>0, <2>1, <2>2 DEF MonitorTypeOK
    <2>5. /\ containers'[c].names = containers[c].names
          /\ \A m \in Network : containers'[c].networks[m] =
                IF m = n THEN {} ELSE containers[c].networks[m]
      BY <1>0, <2>1, <2>2 DEF MonitorTypeOK, ContainerState
    <2>6. ASSUME NEW d \in Container, NEW p \in Pair, Claimed(containers', d, p)
          PROVE  p \notin pairs
      BY <1>1, <2>2, <2>6, RemovalSparesClaims DEF Unpublished
    <2>7. ASSUME NEW p \in Pair, Claimed(containers', c, p) PROVE p \in table'.fwd
      <3>1. Claimed(containers, c, p)
        BY <2>1, <2>5, <2>7 DEF Claimed
      <3> QED  BY <2>1, <2>3, <2>6, <2>7, <3>1 DEF AllPublished
    <2>8. \A p \in table.fwd \ table'.fwd : \A d \in Container \ {c} : ~Claimed(containers', d, p)
      BY <1>0, <2>3, <2>6
    <2> QED  BY <1>a, <2>1, <2>4, <2>7, <2>8
  <1> QED  BY <1>2, <1>3, <1>4, <1>5, <1>6, <1>7, <1>8, <1>9 DEF MonitorNext, MonitorStep

\* Every record that a cache entry stands for is published, unless a rename
\* clashed or made up a name, or a removal took a record with two claims:
\* register_container_networks, handle_network_connect and the rest keep the
\* cache and the records in step.
THEOREM ClaimsPublishedHolds == Spec => []ClaimsPublished
  <1> DEFINE Inv == /\ CacheInv
                    /\ hazard \cap Unpublished = {} => AllPublished(containers, table.fwd)
  <1>1. Init => Inv
    BY DEF Init, MonitorInit, NotCached, CacheInv, AllPublished, Claimed
  <1>2. TypeOK /\ Inv /\ [Next]_vars => Inv'
    <2> SUFFICES ASSUME TypeOK, Inv, [Next]_vars PROVE Inv'
      OBVIOUS
    <2>1. CASE DaemonNext /\ UNCHANGED monitorVars
      <3>1. hazard \subseteq hazard'
        BY <2>1, DaemonSteps DEF Subscribe, NetworkCreate, NetworkDestroy, Emit
      <3> QED  BY <2>1, <3>1 DEF monitorVars, CacheInv, AllPublished, Claimed
    <2>2. CASE MonitorNext
      <3>1. hazard' \cap Unpublished = {} => hazard \cap Unpublished = {}
        BY <2>2, MarksAccumulate DEF Unpublished
      <3> QED  BY <2>2, <3>1, MonitorCache, MonitorPublishes
    <2>3. CASE UNCHANGED vars
      BY <2>3 DEF vars, monitorVars, daemonVars, CacheInv, AllPublished, Claimed
    <2> QED  BY <2>1, <2>2, <2>3 DEF Next
  <1>3. TypeOK /\ Inv => ClaimsPublished
    <2> SUFFICES ASSUME TypeOK, AllPublished(containers, table.fwd),
                        NEW c \in Container, NEW p \in Claims(c)
                 PROVE  p \in table.fwd
      BY DEF ClaimsPublished, Unpublished
    <2>1. containers[c] \in ContainerState
      BY DEF TypeOK, MonitorTypeOK
    <2>2. p \in Pair /\ Claimed(containers, c, p)
      BY <2>1, AddressesType DEF Claims, CachedAddresses, Claimed, Pair, ContainerState
    <2> QED  BY <2>2 DEF AllPublished
  <1> QED  BY <1>1, <1>2, <1>3, TypeCorrect, PTL DEF Spec
=============================================================================
