---------------------------- MODULE MonitorProofs ----------------------------
(***************************************************************************)
(* Theorems about Monitor, for every set of containers, networks, names    *)
(* and addresses, and for event streams of any length.                     *)
(***************************************************************************)
EXTENDS Monitor, RecordTableProofs, SequenceTheorems

USE AddressingAssumption, DaemonAssumption, MonitorAssumption
-----------------------------------------------------------------------------
(***************************************************************************)
(* Types                                                                   *)
(***************************************************************************)
\* The names made for a container are DNS names: the ones that do not parse are
\* gone (to_full_names).
LEMMA NamesType ==
    ASSUME NEW c \in Container, NEW x \in CName
    PROVE  /\ FullNames({x}) \in SUBSET DnsName
           /\ AllNames(c, x) \in SUBSET DnsName
  BY DEF FullNames, AllNames

\* The addresses of the daemon's endpoints and of cache entries are addresses.
LEMMA AddressesType ==
    ASSUME TypeOK
    PROVE  /\ AddressesInUse \in SUBSET Ip
           /\ \A c \in Container : Addresses(c) \in SUBSET Ip
           /\ \A c \in Container : CachedAddresses(containers[c]) \in SUBSET Ip
  <1>1. \A c \in Container : Addresses(c) \in SUBSET Ip
    BY DEF TypeOK, DaemonTypeOK, Addresses
  <1>2. \A c \in Container : CachedAddresses(containers[c]) \in SUBSET Ip
    BY DEF TypeOK, MonitorTypeOK, ContainerState, CachedAddresses
  <1> QED  BY <1>1, <1>2 DEF AddressesInUse

\* The absent entry is a cache entry.
LEMMA NotCachedType == NotCached \in ContainerState
  BY DEF NotCached, ContainerState

\* The entry API returns a well-formed entry, found or new.
LEMMA EntryType ==
    ASSUME TypeOK, NEW c \in Container, NEW names \in SUBSET DnsName
    PROVE  Entry(c, names) \in ContainerState
  BY DEF TypeOK, MonitorTypeOK, Entry, ContainerState

\* register_container_networks leaves a well-formed entry and adds well-formed
\* records, all of them for addresses the container has at that moment.
LEMMA RegisteredType ==
    ASSUME TypeOK, NEW c \in Container, NEW names \in SUBSET DnsName
    PROVE  /\ Registered(c, names) \in ContainerState
           /\ RegisteredPairs(c, names) \in SUBSET (DnsName \X Addresses(c))
           /\ RegisteredPairs(c, names) \in SUBSET Pair
  <1>1. Entry(c, names) \in ContainerState
    BY EntryType
  <1>2. att[c] \in [Network -> SUBSET Ip]
    BY DEF TypeOK, DaemonTypeOK
  <1>3. Registered(c, names) \in ContainerState
    BY <1>1, <1>2 DEF Registered, ContainerState
  <1>4. Entry(c, names).names \in SUBSET DnsName
    BY <1>1 DEF ContainerState
  <1> QED  BY <1>3, <1>4, AddressesType DEF RegisteredPairs, Pair

\* Replacing the names of an entry keeps the cache well formed (rename).
LEMMA UpdatedNamesType ==
    ASSUME NEW C \in [Container -> ContainerState], NEW c \in Container,
           NEW names \in SUBSET DnsName
    PROVE  [C EXCEPT ![c].names = names] \in [Container -> ContainerState]
  <1>1. C[c] \in ContainerState
    OBVIOUS
  <1>2. [C[c] EXCEPT !.names = names] \in ContainerState
    BY <1>1 DEF ContainerState
  <1> QED  BY <1>2

\* Dropping a network of an entry keeps the cache well formed (disconnect).
LEMMA UpdatedNetworkType ==
    ASSUME NEW C \in [Container -> ContainerState], NEW c \in Container,
           NEW n \in Network
    PROVE  [C EXCEPT ![c].networks[n] = {}] \in [Container -> ContainerState]
  <1>1. C[c] \in ContainerState
    OBVIOUS
  <1>2. [C[c] EXCEPT !.networks[n] = {}] \in ContainerState
    BY <1>1 DEF ContainerState
  <1> QED  BY <1>2

\* Each event carries the attributes its handler reads.
LEMMA EventType ==
    ASSUME NEW ev \in Event
    PROVE  /\ ev.action \in {"start", "die", "rename", "connect", "disconnect"}
                => ev.container \in Container
           /\ ev.action \in {"connect", "disconnect", "create", "destroy"}
                => ev.network \in Network
           /\ ev.action = "rename" => ev.old \in CName /\ ev.new \in CName
  BY DEF Event

\* A received event is well formed, and so is the rest of the stream.
LEMMA ReceiveType ==
    ASSUME TypeOK, NEW A, Receive(A)
    PROVE  /\ Head(stream) \in Event
           /\ Head(stream).action \in A
           /\ stream' \in Seq(Event)
  <1>1. stream \in Seq(Event) /\ stream # <<>> /\ stream' = Tail(stream)
    BY DEF TypeOK, DaemonTypeOK, Receive
  <1> QED  BY <1>1, HeadTailProperties DEF Receive

\* Emitting a well-formed event keeps the stream and the history well formed.
LEMMA EmitType ==
    ASSUME TypeOK, NEW ev \in Event, Emit(ev)
    PROVE  stream' \in Seq(Event) /\ hazard' \in SUBSET Hazards /\ subscribed' \in BOOLEAN
  <1>1. stream \in Seq(Event) /\ hazard \in SUBSET Hazards /\ subscribed \in BOOLEAN
    BY DEF TypeOK, DaemonTypeOK
  <1>2. Append(stream, ev) \in Seq(Event)
    BY <1>1, AppendProperties
  <1> QED  BY <1>1, <1>2 DEF Emit, Hazards

\* Every start of the program, next to any daemon, is well typed.
LEMMA TypeInit == Init => TypeOK
  <1> SUFFICES ASSUME Init PROVE TypeOK
    OBVIOUS
  <1>1. att \in [Container -> [Network -> SUBSET Ip]]
    BY DEF Init, DaemonInit
  <1>2. DaemonTypeOK
    <2>1. stream \in Seq(Event) /\ hazard \in SUBSET Hazards
      BY EmptySeq DEF Init, DaemonInit
    <2>2. net \in [Network -> {"absent", "alive", "destroyed"}]
      BY DEF Init, DaemonInit
    <2>3. status \in [Container -> {"created", "running", "exited", "removed"}]
      BY DEF Init, DaemonInit
    <2> QED  BY <1>1, <2>1, <2>2, <2>3 DEF Init, DaemonInit, DaemonTypeOK
  <1>3. MonitorTypeOK
    BY NotCachedType DEF Init, MonitorInit, MonitorTypeOK, Table, EmptyTable
  <1> QED  BY <1>2, <1>3 DEF TypeOK

\* No step of the daemon spoils its own types.
LEMMA DaemonType ==
    ASSUME TypeOK, DaemonNext PROVE DaemonTypeOK'
  <1> USE DEF DaemonTypeOK
  <1>0. DaemonTypeOK
    BY DEF TypeOK
  <1>1. CASE Subscribe
    BY <1>0, <1>1 DEF Subscribe, daemonState
  <1>2. ASSUME NEW n \in Network, NetworkCreate(n) PROVE DaemonTypeOK'
    <2>1. [action |-> "create", network |-> n] \in Event
      BY DEF Event
    <2> QED  BY <1>0, <1>2, <2>1, EmitType DEF NetworkCreate
  <1>3. ASSUME NEW n \in Network, NetworkDestroy(n) PROVE DaemonTypeOK'
    <2>1. [action |-> "destroy", network |-> n] \in Event
      BY DEF Event
    <2> QED  BY <1>0, <1>3, <2>1, EmitType DEF NetworkDestroy
  <1>4. ASSUME NEW c \in Container, ContainerStart(c) PROVE DaemonTypeOK'
    <2>1. [action |-> "start", container |-> c] \in Event
      BY DEF Event
    <2> QED  BY <1>0, <1>4, <2>1, EmitType DEF ContainerStart
  <1>5. ASSUME NEW c \in Container, ContainerDie(c) PROVE DaemonTypeOK'
    <2>1. [action |-> "die", container |-> c] \in Event
      BY DEF Event
    <2> QED  BY <1>0, <1>5, <2>1, EmitType DEF ContainerDie
  <1>6. ASSUME NEW c \in Container, ContainerRemove(c) PROVE DaemonTypeOK'
    <2>1. [action |-> "other"] \in Event
      BY DEF Event
    <2> QED  BY <1>0, <1>6, <2>1, EmitType DEF ContainerRemove
  <1>7. ASSUME NEW c \in Container, NEW new \in CName, ContainerRename(c, new)
        PROVE  DaemonTypeOK'
    <2>1. [action |-> "rename", container |-> c, old |-> cname[c], new |-> new] \in Event
      BY <1>0 DEF Event
    <2> QED  BY <1>0, <1>7, <2>1, EmitType DEF ContainerRename
  <1>8. ASSUME NEW c \in Container, NEW n \in Network, Connect(c, n) PROVE DaemonTypeOK'
    <2>1. [action |-> "connect", container |-> c, network |-> n] \in Event
      BY DEF Event
    <2>2. att' \in [Container -> [Network -> SUBSET Ip]]
      <3>1. PICK ips \in Offers[n] : att' = [att EXCEPT ![c][n] = ips]
        BY <1>8 DEF Connect
      <3>2. ips \in SUBSET Ip
        BY <3>1
      <3> QED  BY <1>0, <3>1, <3>2
    <2> QED  BY <1>0, <1>8, <2>1, <2>2, EmitType DEF Connect
  <1>9. ASSUME NEW c \in Container, NEW n \in Network, Disconnect(c, n) PROVE DaemonTypeOK'
    <2>1. [action |-> "disconnect", container |-> c, network |-> n] \in Event
      BY DEF Event
    <2>2. att' \in [Container -> [Network -> SUBSET Ip]]
      BY <1>0, <1>9 DEF Disconnect
    <2> QED  BY <1>0, <1>9, <2>1, <2>2, EmitType DEF Disconnect
  <1> QED  BY <1>1, <1>2, <1>3, <1>4, <1>5, <1>6, <1>7, <1>8, <1>9 DEF DaemonNext

\* A removal adds at most one mark to the history.
LEMMA RemovalMarks ==
    ASSUME NEW pairs, RemovalHazard(pairs)
    PROVE  hazard \subseteq hazard' /\ hazard' \subseteq hazard \cup {"claim_lost"}
  BY DEF RemovalHazard

\* No step of the monitor, start() and the handlers alike, spoils a type.
LEMMA MonitorType ==
    ASSUME TypeOK, MonitorNext PROVE TypeOK'
  <1> DEFINE typed == /\ phase' \in {"boot", "networks", "consume", "failed"}
                      /\ todo' \in SUBSET Network
                      /\ containers' \in [Container -> ContainerState]
                      /\ networks' \in SUBSET Network
                      /\ table' \in Table
                      /\ catalog' \in SUBSET Zone
                      /\ stream' \in Seq(Event)
                      /\ hazard' \in SUBSET Hazards
                      /\ UNCHANGED <<daemonState, subscribed>>
  <1>0. DaemonTypeOK /\ MonitorTypeOK
    BY DEF TypeOK
  <1>a. typed => TypeOK'
    BY <1>0 DEF TypeOK, DaemonTypeOK, MonitorTypeOK, daemonState
  <1>b. \A n \in Network : RegisterNetwork(n) =>
          networks' \in SUBSET Network /\ table' \in Table /\ catalog' \in SUBSET Zone
    BY <1>0, ReverseZonesType DEF MonitorTypeOK, RegisterNetwork
  <1>c. \A e : InspectError(e) => hazard' \in SUBSET Hazards
    BY <1>0 DEF InspectError, DaemonTypeOK, Hazards
  <1>e. \A pairs : RemovalHazard(pairs) => hazard' \in SUBSET Hazards
    <2> SUFFICES ASSUME NEW pairs, RemovalHazard(pairs)
                 PROVE  hazard' \in SUBSET Hazards
      OBVIOUS
    <2> QED  BY <1>0, RemovalMarks DEF DaemonTypeOK, Hazards
  <1>d. \A A : Receive(A) =>
          /\ stream' \in Seq(Event)
          /\ UNCHANGED <<daemonState, subscribed, phase, todo>>
    BY ReceiveType DEF Receive
  <1>1. CASE StartListNetworks
    BY <1>0, <1>a, <1>1 DEF StartListNetworks, MonitorTypeOK, DaemonTypeOK, streamState
  <1>2. ASSUME NEW n \in Network, StartRegisterNetwork(n) PROVE typed
    BY <1>0, <1>b, <1>c, <1>2
    DEF StartRegisterNetwork, MonitorTypeOK, DaemonTypeOK, streamState
  <1>3. CASE StartListContainers
    <2> DEFINE names(c) == FullNames({cname[c]})
               Pairs(R) == UNION {RegisteredPairs(c, names(c)) : c \in R}
    <2>0. PICK running \in SUBSET Container :
             /\ containers' = [c \in Container |->
                    IF c \in running THEN Registered(c, names(c)) ELSE containers[c]]
             /\ \E f \in Finders(table, AddressesInUse) : table' = Upsert(table, f, Pairs(running))
      BY <1>3 DEF StartListContainers
    <2> DEFINE pairs == Pairs(running)
    <2>1. \A c \in Container : names(c) \in SUBSET DnsName
      BY <1>0, NamesType DEF DaemonTypeOK
    <2> HIDE DEF names
    <2>2. \A c \in Container : Registered(c, names(c)) \in ContainerState
      BY <2>1, RegisteredType
    <2>3. pairs \in SUBSET Pair
      BY <2>1, RegisteredType
    <2>5. containers' \in [Container -> ContainerState]
      BY <1>0, <2>0, <2>2 DEF MonitorTypeOK
    <2>6. PICK f \in Finders(table, AddressesInUse) : table' = Upsert(table, f, pairs)
      BY <2>0
    <2>7. table' \in Table
      BY <1>0, <2>3, <2>6, AddressesType, UpsertType DEF MonitorTypeOK
    <2>8. hazard' \in SUBSET Hazards
      BY <1>0, <1>3 DEF StartListContainers, DaemonTypeOK, Hazards
    <2> QED  BY <1>0, <1>3, <1>a, <2>5, <2>7, <2>8
             DEF StartListContainers, MonitorTypeOK, DaemonTypeOK, streamState
  <1>4. CASE StartFails
    BY <1>0, <1>a, <1>4 DEF StartFails, MonitorTypeOK, DaemonTypeOK, daemonVars, streamState
  <1>5. CASE HandleContainerStart
    <2> DEFINE c == Head(stream).container
               names == AllNames(c, cname[c])
    <2>1. Receive({"start"})
      BY <1>5 DEF HandleContainerStart
    <2>2. c \in Container /\ names \in SUBSET DnsName
      <3>1. c \in Container
        BY <2>1, ReceiveType, EventType
      <3>2. cname[c] \in CName
        BY <1>0, <3>1 DEF DaemonTypeOK
      <3> QED  BY <3>1, <3>2, NamesType
    <2>3. Registered(c, names) \in ContainerState /\ RegisteredPairs(c, names) \in SUBSET Pair
      BY <2>2, RegisteredType
    <2>4. \A f \in Finders(table, Addresses(c)) :
             Upsert(table, f, RegisteredPairs(c, names)) \in Table
      BY <1>0, <2>2, <2>3, AddressesType, UpsertType DEF MonitorTypeOK
    <2>5. containers' \in [Container -> ContainerState] /\ table' \in Table
      BY <1>0, <1>5, <2>2, <2>3, <2>4 DEF HandleContainerStart, MonitorTypeOK
    <2>6. hazard' \in SUBSET Hazards
      BY <1>0, <1>5, <1>c DEF HandleContainerStart, DaemonTypeOK, Hazards
    <2> QED  BY <1>0, <1>5, <1>a, <1>d, <2>1, <2>5, <2>6
             DEF HandleContainerStart, MonitorTypeOK
  <1>6. CASE HandleContainerRename
    <2> DEFINE ev == Head(stream)
               c == ev.container
               old == Fqdn[ev.old]
               new == Fqdn[ev.new]
    <2>1. Receive({"rename"})
      BY <1>6 DEF HandleContainerRename
    <2>2. c \in Container /\ ev.old \in CName /\ ev.new \in CName
      BY <2>1, ReceiveType, EventType
    <2>3. AllNames(c, ev.new) \in SUBSET DnsName
      BY <2>2, NamesType
    <2>4. containers' \in [Container -> ContainerState]
      <3>1. [containers EXCEPT ![c].names = AllNames(c, ev.new)]
              \in [Container -> ContainerState]
        BY <1>0, <2>2, <2>3, UpdatedNamesType DEF MonitorTypeOK
      <3> QED  BY <1>0, <1>6, <3>1 DEF HandleContainerRename, MonitorTypeOK
    <2>5. table' \in Table
      <3>1. CASE BadName \in {old, new}
        BY <1>0, <1>6, <3>1 DEF HandleContainerRename, MonitorTypeOK
      <3>2. CASE BadName \notin {old, new}
        <4>1. PICK f \in Finders(table, AddressesOf(table, old)) :
                 table' = Rename(table, f, old, new)
          BY <1>6, <3>2 DEF HandleContainerRename
        <4>2. old \in DnsName /\ new \in DnsName
          BY <2>2, <3>2
        <4> QED  BY <1>0, <4>1, <4>2, RenameType DEF MonitorTypeOK
      <3> QED  BY <3>1, <3>2
    <2>6. hazard' \in SUBSET Hazards
      BY <1>0, <1>6, SMTT(30) DEF HandleContainerRename, DaemonTypeOK, Hazards
    <2> QED  BY <1>0, <1>6, <1>a, <1>d, <2>1, <2>4, <2>5, <2>6
             DEF HandleContainerRename, MonitorTypeOK
  <1>7. CASE HandleContainerDie
    <2>1. Receive({"die"})
      BY <1>7 DEF HandleContainerDie
    <2>2. containers' \in [Container -> ContainerState]
      BY <1>0, <1>7, NotCachedType DEF HandleContainerDie, MonitorTypeOK
    <2>3. table' \in Table
      BY <1>0, <1>7, RemoveAddressesType DEF HandleContainerDie, MonitorTypeOK
    <2>4. hazard' \in SUBSET Hazards
      BY <1>7, <1>e DEF HandleContainerDie
    <2> QED  BY <1>0, <1>7, <1>a, <1>d, <2>1, <2>2, <2>3, <2>4
             DEF HandleContainerDie, MonitorTypeOK
  <1>8. CASE HandleNetworkConnect
    <2> DEFINE c == Head(stream).container
               n == Head(stream).network
               st == Entry(c, AllNames(c, cname[c]))
               old == st.networks[n]
               new == att[c][n]
    <2>1. Receive({"connect"})
      BY <1>8 DEF HandleNetworkConnect
    <2>2. c \in Container /\ n \in Network
      BY <2>1, ReceiveType, EventType
    <2>3. st \in ContainerState
      BY <1>0, <2>2, NamesType, EntryType DEF DaemonTypeOK
    <2>4. new \in SUBSET Ip /\ old \in SUBSET Ip /\ st.names \in SUBSET DnsName
      BY <1>0, <2>2, <2>3 DEF DaemonTypeOK, ContainerState
    <2> HIDE DEF st
    <2>5. [st EXCEPT !.networks[n] = new] \in ContainerState
      BY <2>2, <2>3, <2>4 DEF ContainerState
    <2>6. containers' \in [Container -> ContainerState]
      BY <1>0, <1>8, <2>2, <2>5 DEF HandleNetworkConnect, MonitorTypeOK, st
    <2>7. ASSUME NEW f \in Finders(table, old \cup new)
          PROVE  Upsert(RemoveAddresses(table, f, st.names \X old), f, st.names \X new)
                   \in Table
      <3> DEFINE t == RemoveAddresses(table, f, st.names \X old)
      <3>1. t \in Table /\ t.zones = table.zones
        BY <1>0, RemoveAddressesType DEF MonitorTypeOK
      <3>2. f \in Finders(t, old \cup new)
        BY <2>7, <3>1, FindersSameZones
      <3>3. st.names \X new \in SUBSET Pair
        BY <2>4 DEF Pair
      <3> HIDE DEF t
      <3>4. Upsert(t, f, st.names \X new) \in Table
        BY <2>4, <3>1, <3>2, <3>3, UpsertType
      <3> QED  BY <3>4 DEF t
    <2>8. table' \in Table
      <3>1. \/ table' = table
            \/ \E f \in Finders(table, old \cup new) :
                 table' = Upsert(RemoveAddresses(table, f, st.names \X old), f, st.names \X new)
        BY <1>8 DEF HandleNetworkConnect, st
      <3>2. table \in Table
        BY <1>0 DEF MonitorTypeOK
      <3> HIDE DEF old, new
      <3>3. CASE table' = table
        BY <3>2, <3>3
      <3>4. CASE \E f \in Finders(table, old \cup new) :
                   table' = Upsert(RemoveAddresses(table, f, st.names \X old), f, st.names \X new)
        <4>1. PICK f \in Finders(table, old \cup new) :
                 table' = Upsert(RemoveAddresses(table, f, st.names \X old), f, st.names \X new)
          BY <3>4
        <4>2. Upsert(RemoveAddresses(table, f, st.names \X old), f, st.names \X new) \in Table
          BY <2>7
        <4> QED  BY <4>1, <4>2, Zenon
      <3> QED  BY <3>1, <3>3, <3>4
    <2>9. hazard' \in SUBSET Hazards
      BY <1>0, <1>8, <1>c, <1>e DEF HandleNetworkConnect, DaemonTypeOK
    <2> QED  BY <1>0, <1>8, <1>a, <1>d, <2>1, <2>6, <2>8, <2>9
             DEF HandleNetworkConnect, MonitorTypeOK
  <1>9. CASE HandleNetworkDisconnect
    <2> DEFINE c == Head(stream).container
               n == Head(stream).network
    <2>1. Receive({"disconnect"})
      BY <1>9 DEF HandleNetworkDisconnect
    <2>2. c \in Container /\ n \in Network
      BY <2>1, ReceiveType, EventType
    <2>3. [containers EXCEPT ![c].networks[n] = {}] \in [Container -> ContainerState]
      BY <1>0, <2>2, UpdatedNetworkType DEF MonitorTypeOK
    <2>4. containers' \in [Container -> ContainerState]
      BY <1>9, <2>3 DEF HandleNetworkDisconnect
    <2>6. table' \in Table
      <3>1. PICK f, pairs : table' = RemoveAddresses(table, f, pairs)
        BY <1>9 DEF HandleNetworkDisconnect
      <3> QED  BY <1>0, <3>1, RemoveAddressesType DEF MonitorTypeOK
    <2>5. hazard' \in SUBSET Hazards
      BY <1>9, <1>e DEF HandleNetworkDisconnect
    <2> QED  BY <1>0, <1>9, <1>a, <1>d, <2>1, <2>4, <2>5, <2>6
             DEF HandleNetworkDisconnect, MonitorTypeOK
  <1>10. CASE HandleNetworkCreate
    <2>1. Receive({"create"})
      BY <1>10 DEF HandleNetworkCreate
    <2>2. Head(stream).network \in Network
      BY <2>1, ReceiveType, EventType
    <2>3. /\ networks' \in SUBSET Network /\ table' \in Table /\ catalog' \in SUBSET Zone
          /\ hazard' \in SUBSET Hazards
      BY <1>0, <1>10, <1>b, <1>c, <2>2 DEF HandleNetworkCreate, MonitorTypeOK, DaemonTypeOK
    <2> QED  BY <1>0, <1>10, <1>a, <1>d, <2>1, <2>3 DEF HandleNetworkCreate, MonitorTypeOK
  <1>11. CASE HandleNetworkDestroy
    <2> DEFINE n == Head(stream).network
               zones == IF n \in networks THEN ZonesOf[n] ELSE {}
    <2>1. Receive({"destroy"})
      BY <1>11 DEF HandleNetworkDestroy
    <2>2. zones \in SUBSET Zone
      BY <1>0 DEF MonitorTypeOK
    <2>3. networks' \in SUBSET Network /\ table' \in Table /\ catalog' \in SUBSET Zone
      BY <1>0, <1>11, <2>2, ReverseZonesType DEF HandleNetworkDestroy, MonitorTypeOK
    <2> QED  BY <1>0, <1>11, <1>a, <1>d, <2>1, <2>3
             DEF HandleNetworkDestroy, MonitorTypeOK, DaemonTypeOK
  <1>12. CASE IgnoreEvent
    <2>1. Receive({"other"})
      BY <1>12 DEF IgnoreEvent
    <2> QED  BY <1>0, <1>12, <1>a, <1>d, <2>1 DEF IgnoreEvent, MonitorTypeOK, DaemonTypeOK
  <1> QED  BY <1>a, <1>1, <1>2, <1>3, <1>4, <1>5, <1>6, <1>7, <1>8, <1>9, <1>10, <1>11, <1>12
           DEF MonitorNext, MonitorStep

\* Every variable keeps its type: in particular the cache holds DNS names
\* only, whatever names the containers have.
THEOREM TypeCorrect == Spec => []TypeOK
  <1>1. Init => TypeOK
    BY TypeInit
  <1>2. TypeOK /\ [Next]_vars => TypeOK'
    <2> SUFFICES ASSUME TypeOK, [Next]_vars PROVE TypeOK'
      OBVIOUS
    <2>1. CASE DaemonNext /\ UNCHANGED monitorVars
      BY <2>1, DaemonType DEF TypeOK, MonitorTypeOK, monitorVars
    <2>2. CASE MonitorNext
      BY <2>2, MonitorType
    <2>3. CASE UNCHANGED vars
      BY <2>3 DEF TypeOK, DaemonTypeOK, MonitorTypeOK, vars, daemonVars, monitorVars,
                  daemonState, streamState
    <2> QED  BY <2>1, <2>2, <2>3 DEF Next
  <1> QED  BY <1>1, <1>2, PTL DEF Spec
-----------------------------------------------------------------------------
(***************************************************************************)
(* The stream                                                              *)
(***************************************************************************)
\* An emitted event goes to the end of the stream, or nowhere when nobody has
\* subscribed.
LEMMA EmittedStream ==
    ASSUME TypeOK, NEW ev \in Event, Emit(ev)
    PROVE  \/ stream' = stream
           \/ /\ Len(stream') = Len(stream) + 1
              /\ \A i \in 1 .. Len(stream) : stream'[i] = stream[i]
              /\ stream'[Len(stream) + 1] = ev
  <1>1. stream \in Seq(Event)
    BY DEF TypeOK, DaemonTypeOK
  <1> QED  BY <1>1, AppendProperties DEF Emit

\* Receiving takes the first event and moves the others up by one.
LEMMA ReceivedStream ==
    ASSUME TypeOK, NEW A, Receive(A)
    PROVE  /\ Len(stream) \in Nat \ {0}
           /\ stream[1] = Head(stream)
           /\ Len(stream') = Len(stream) - 1
           /\ \A i \in 1 .. Len(stream') : stream'[i] = stream[i + 1]
  <1>1. stream \in Seq(Event) /\ stream # <<>> /\ stream' = Tail(stream)
    BY DEF TypeOK, DaemonTypeOK, Receive
  <1>2. Len(stream) \in Nat /\ Len(stream) # 0
    BY <1>1, EmptySeq, LenProperties
  <1> QED  BY <1>1, <1>2, HeadTailProperties

\* Emitting an event adds that event to what is pending, and no other.
LEMMA EmittedPending ==
    ASSUME TypeOK, NEW ev \in Event, Emit(ev), NEW a, NEW n
    PROVE  /\ Pending(a, n) => Pending(a, n)'
           /\ Pending(a, n)' => Pending(a, n) \/ ev = NetworkEvent(a, n)
  <1>1. Len(stream) \in Nat
    BY LenProperties DEF TypeOK, DaemonTypeOK
  <1> QED  BY <1>1, EmittedStream DEF Pending

\* Receiving an event removes that event only.
LEMMA ReceivedPending ==
    ASSUME TypeOK, NEW A, Receive(A), NEW a, NEW n
    PROVE  /\ Pending(a, n)' => Pending(a, n)
           /\ Pending(a, n) => Pending(a, n)' \/ Head(stream) = NetworkEvent(a, n)
  <1>1. Pending(a, n)' => Pending(a, n)
    <2> SUFFICES ASSUME NEW i \in 1 .. Len(stream'), stream'[i] = NetworkEvent(a, n)
                 PROVE  Pending(a, n)
      BY DEF Pending
    <2>1. i + 1 \in 1 .. Len(stream) /\ stream[i + 1] = NetworkEvent(a, n)
      BY ReceivedStream
    <2> QED  BY <2>1 DEF Pending
  <1>2. ASSUME Pending(a, n), Head(stream) # NetworkEvent(a, n) PROVE Pending(a, n)'
    <2>1. PICK i \in 1 .. Len(stream) : stream[i] = NetworkEvent(a, n)
      BY <1>2 DEF Pending
    <2>2. i # 1
      BY <1>2, <2>1, ReceivedStream
    <2>3. i - 1 \in 1 .. Len(stream') /\ stream'[i - 1] = NetworkEvent(a, n)
      BY <2>1, <2>2, ReceivedStream
    <2> QED  BY <2>3 DEF Pending
  <1> QED  BY <1>1, <1>2

\* A network event determines its action and its network.
LEMMA NetworkEventFacts ==
    ASSUME NEW a, NEW n
    PROVE  /\ NetworkEvent(a, n).action = a
           /\ NetworkEvent(a, n).network = n
           /\ \A b, m : NetworkEvent(a, n) = NetworkEvent(b, m) => a = b /\ n = m
  BY DEF NetworkEvent
-----------------------------------------------------------------------------
(***************************************************************************)
(* Reverse zones: NetworksInv is inductive                                 *)
(***************************************************************************)
Alive == {n \in Network : net[n] = "alive"}

\* What a step of the daemon can mean for networks and their events.
LEMMA DaemonSteps ==
    ASSUME TypeOK, DaemonNext
    PROVE  \/ Subscribe
           \/ \E n \in Network : NetworkCreate(n)
           \/ \E n \in Network : NetworkDestroy(n)
           \/ \E ev \in Event : /\ Emit(ev)
                               /\ ev.action \notin {"create", "destroy"}
                               /\ UNCHANGED net
  <1> DEFINE quiet == \E ev \in Event : /\ Emit(ev)
                                      /\ ev.action \notin {"create", "destroy"}
                                      /\ UNCHANGED net
  <1>1. ASSUME NEW c \in Container, ContainerStart(c) PROVE quiet
    BY <1>1 DEF ContainerStart, Event
  <1>2. ASSUME NEW c \in Container, ContainerDie(c) PROVE quiet
    BY <1>2 DEF ContainerDie, Event
  <1>3. ASSUME NEW c \in Container, ContainerRemove(c) PROVE quiet
    BY <1>3 DEF ContainerRemove, Event
  <1>4. ASSUME NEW c \in Container, NEW new \in CName, ContainerRename(c, new) PROVE quiet
    <2>1. cname[c] \in CName
      BY DEF TypeOK, DaemonTypeOK
    <2> QED  BY <1>4, <2>1 DEF ContainerRename, Event
  <1>5. ASSUME NEW c \in Container, NEW n \in Network, Connect(c, n) PROVE quiet
    BY <1>5 DEF Connect, Event
  <1>6. ASSUME NEW c \in Container, NEW n \in Network, Disconnect(c, n) PROVE quiet
    BY <1>6 DEF Disconnect, Event
  <1> QED  BY <1>1, <1>2, <1>3, <1>4, <1>5, <1>6 DEF DaemonNext

\* An event of a container is not a create or destroy of any network.
LEMMA OtherEvent ==
    ASSUME NEW ev, ev.action \notin {"create", "destroy"}, NEW n
    PROVE  ev # NetworkEvent("create", n) /\ ev # NetworkEvent("destroy", n)
  BY NetworkEventFacts

\* Creating a network emits its create event, or is recorded as missed.
LEMMA CreateEmits ==
    ASSUME NEW n \in Network, NetworkCreate(n)
    PROVE  /\ NetworkEvent("create", n) \in Event
           /\ Emit(NetworkEvent("create", n))
           /\ ~subscribed => "missed_network" \in hazard'
  BY DEF NetworkCreate, NetworkEvent, Event, Emit

\* Destroying a network emits its destroy event, or is recorded as missed.
LEMMA DestroyEmits ==
    ASSUME NEW n \in Network, NetworkDestroy(n)
    PROVE  /\ NetworkEvent("destroy", n) \in Event
           /\ Emit(NetworkEvent("destroy", n))
           /\ ~subscribed => "missed_network" \in hazard'
  BY DEF NetworkDestroy, NetworkEvent, Event, Emit

\* Networks that exist together never overlap: a new one is apart from them.
LEMMA DaemonApart ==
    ASSUME TypeOK, NetworksApart(Alive), DaemonNext
    PROVE  NetworksApart(Alive)'
  <1>0. net \in [Network -> {"absent", "alive", "destroyed"}]
    BY DEF TypeOK, DaemonTypeOK
  <1>1. CASE Subscribe
    BY <1>1 DEF Subscribe, daemonState, NetworksApart, Alive
  <1>2. ASSUME NEW n \in Network, NetworkCreate(n) PROVE NetworksApart(Alive)'
    BY <1>0, <1>2 DEF NetworkCreate, NetworksApart, Alive, Overlap, Disjoint
  <1>3. ASSUME NEW n \in Network, NetworkDestroy(n) PROVE NetworksApart(Alive)'
    BY <1>0, <1>3 DEF NetworkDestroy, NetworksApart, Alive
  <1>4. CASE UNCHANGED net
    BY <1>4 DEF NetworksApart, Alive
  <1> QED  BY <1>1, <1>2, <1>3, <1>4, DaemonSteps

\* The daemon keeps its stream consistent with its networks: an event it emits
\* describes the present, and a later destroy cannot overlap an earlier create
\* of a network that is still alive.
LEMMA DaemonOrdered ==
    ASSUME TypeOK, NetworksApart(Alive), StreamOrdered, DaemonNext
    PROVE  StreamOrdered'
  <1>0. net \in [Network -> {"absent", "alive", "destroyed"}] /\ Len(stream) \in Nat
    BY LenProperties DEF TypeOK, DaemonTypeOK
  <1>1. CASE Subscribe
    BY <1>1 DEF Subscribe, daemonState, StreamOrdered, Pending
  <1>2. ASSUME NEW k \in Network, NetworkCreate(k) PROVE StreamOrdered'
    <2> DEFINE ev == NetworkEvent("create", k)
    <2>1. /\ ev \in Event /\ Emit(ev)
          /\ net[k] = "absent" /\ net' = [net EXCEPT ![k] = "alive"]
      BY <1>2, CreateEmits DEF NetworkCreate
    <2>2. \A n \in Network : Pending("create", n)' => net'[n] # "absent"
      BY <1>0, <2>1, EmittedPending, NetworkEventFacts DEF StreamOrdered
    <2>3. \A n \in Network : Pending("destroy", n)' => net'[n] = "destroyed"
      BY <1>0, <2>1, EmittedPending, NetworkEventFacts DEF StreamOrdered
    <2>4. ASSUME NEW i \in 1 .. Len(stream'), NEW j \in 1 .. Len(stream'),
                 NEW m \in Network, NEW n \in Network,
                 i < j, stream'[i] = NetworkEvent("create", n),
                 stream'[j] = NetworkEvent("destroy", m), net'[n] = "alive"
          PROVE  ~Overlap(m, n)
      <3>1. j \in 1 .. Len(stream)
        BY <1>0, <2>1, <2>4, EmittedStream, NetworkEventFacts
      <3>2. /\ i \in 1 .. Len(stream)
            /\ stream[i] = NetworkEvent("create", n) /\ stream[j] = NetworkEvent("destroy", m)
        BY <1>0, <2>1, <2>4, <3>1, EmittedStream
      <3>3. n # k
        BY <2>1, <3>2 DEF StreamOrdered, Pending
      <3>4. net[n] = "alive"
        BY <1>0, <2>1, <2>4, <3>3
      <3> QED  BY <2>4, <3>1, <3>2, <3>4 DEF StreamOrdered
    <2> QED  BY <2>2, <2>3, <2>4 DEF StreamOrdered, Overlap, NetworkEvent
  <1>3. ASSUME NEW k \in Network, NetworkDestroy(k) PROVE StreamOrdered'
    <2> DEFINE ev == NetworkEvent("destroy", k)
    <2>1. /\ ev \in Event /\ Emit(ev)
          /\ net[k] = "alive" /\ net' = [net EXCEPT ![k] = "destroyed"]
      BY <1>3, DestroyEmits DEF NetworkDestroy
    <2>2. \A n \in Network : Pending("create", n)' => net'[n] # "absent"
      BY <1>0, <2>1, EmittedPending, NetworkEventFacts DEF StreamOrdered
    <2>3. \A n \in Network : Pending("destroy", n)' => net'[n] = "destroyed"
      BY <1>0, <2>1, EmittedPending, NetworkEventFacts DEF StreamOrdered
    <2>4. ASSUME NEW i \in 1 .. Len(stream'), NEW j \in 1 .. Len(stream'),
                 NEW m \in Network, NEW n \in Network,
                 i < j, stream'[i] = NetworkEvent("create", n),
                 stream'[j] = NetworkEvent("destroy", m), net'[n] = "alive"
          PROVE  ~Overlap(m, n)
      <3>1. i \in 1 .. Len(stream) /\ stream[i] = NetworkEvent("create", n)
        BY <1>0, <2>1, <2>4, EmittedStream
      <3>2. n # k /\ net[n] = "alive"
        BY <1>0, <2>1, <2>4
      <3>3. CASE j \in 1 .. Len(stream) /\ stream[j] = NetworkEvent("destroy", m)
        BY <2>4, <3>1, <3>2, <3>3 DEF StreamOrdered
      <3>4. CASE m = k
        BY <2>1, <3>2, <3>4 DEF NetworksApart, Alive
      <3> QED  BY <1>0, <2>1, <2>4, <3>3, <3>4, EmittedStream, NetworkEventFacts
    <2> QED  BY <2>2, <2>3, <2>4 DEF StreamOrdered, Overlap, NetworkEvent
  <1>4. ASSUME NEW ev \in Event, Emit(ev), ev.action \notin {"create", "destroy"}, UNCHANGED net
        PROVE  StreamOrdered'
    <2>1. \A n \in Network : Pending("create", n)' => net'[n] # "absent"
      BY <1>4, EmittedPending, OtherEvent DEF StreamOrdered
    <2>2. \A n \in Network : Pending("destroy", n)' => net'[n] = "destroyed"
      BY <1>4, EmittedPending, OtherEvent DEF StreamOrdered
    <2>3. ASSUME NEW i \in 1 .. Len(stream'), NEW j \in 1 .. Len(stream'),
                 NEW m \in Network, NEW n \in Network,
                 i < j, stream'[i] = NetworkEvent("create", n),
                 stream'[j] = NetworkEvent("destroy", m), net'[n] = "alive"
          PROVE  ~Overlap(m, n)
      <3>1. i \in 1 .. Len(stream) /\ j \in 1 .. Len(stream)
        BY <1>0, <1>4, <2>3, EmittedStream, OtherEvent
      <3>2. stream[i] = NetworkEvent("create", n) /\ stream[j] = NetworkEvent("destroy", m)
        BY <1>0, <1>4, <2>3, <3>1, EmittedStream
      <3> QED  BY <1>4, <2>3, <3>1, <3>2 DEF StreamOrdered
    <2> QED  BY <2>1, <2>2, <2>3 DEF StreamOrdered, Overlap, NetworkEvent
  <1> QED  BY <1>1, <1>2, <1>3, <1>4, DaemonSteps

\* Receiving an event leaves the rest of the stream consistent.
LEMMA ReceiveOrdered ==
    ASSUME TypeOK, StreamOrdered, NEW A, Receive(A)
    PROVE  StreamOrdered'
  <1>0. UNCHANGED net
    BY DEF Receive, daemonState
  <1>1. \A n \in Network : Pending("create", n)' => net'[n] # "absent"
    BY <1>0, ReceivedPending DEF StreamOrdered
  <1>2. \A n \in Network : Pending("destroy", n)' => net'[n] = "destroyed"
    BY <1>0, ReceivedPending DEF StreamOrdered
  <1>3. ASSUME NEW i \in 1 .. Len(stream'), NEW j \in 1 .. Len(stream'),
               NEW m \in Network, NEW n \in Network,
               i < j, stream'[i] = NetworkEvent("create", n),
               stream'[j] = NetworkEvent("destroy", m), net'[n] = "alive"
        PROVE  ~Overlap(m, n)
    <2>1. /\ i + 1 \in 1 .. Len(stream) /\ j + 1 \in 1 .. Len(stream) /\ i + 1 < j + 1
          /\ stream[i + 1] = NetworkEvent("create", n)
          /\ stream[j + 1] = NetworkEvent("destroy", m)
      BY <1>3, ReceivedStream
    <2> QED  BY <1>0, <1>3, <2>1 DEF StreamOrdered
  <1> QED  BY <1>1, <1>2, <1>3 DEF StreamOrdered, Overlap, NetworkEvent

\* A create or destroy event carries its network and nothing else.
LEMMA NetworkEventForm ==
    ASSUME NEW ev \in Event, ev.action \in {"create", "destroy"}
    PROVE  ev = NetworkEvent(ev.action, ev.network)
  BY DEF Event, NetworkEvent

\* Registered networks while the daemon moves: one that is destroyed gets its
\* event into the stream, or the event is recorded as missed.
LEMMA DaemonRegistered ==
    ASSUME TypeOK, "missed_network" \notin hazard => RegisteredNetworks,
           DaemonNext, UNCHANGED monitorVars
    PROVE  "missed_network" \notin hazard' => RegisteredNetworks'
  <1>0. net \in [Network -> {"absent", "alive", "destroyed"}]
    BY DEF TypeOK, DaemonTypeOK
  <1>1. ASSUME "missed_network" \notin hazard,
               "missed_network" \notin hazard',
               NEW n \in networks \cup todo
        PROVE  net'[n] = "alive" \/ Pending("destroy", n)'
    <2>0. n \in Network /\ (net[n] = "alive" \/ Pending("destroy", n))
      BY <1>1 DEF RegisteredNetworks, TypeOK, MonitorTypeOK
    <2>1. CASE Subscribe
      BY <2>0, <2>1 DEF Subscribe, daemonState, Pending
    <2>2. ASSUME NEW k \in Network, NetworkCreate(k)
          PROVE  net'[n] = "alive" \/ Pending("destroy", n)'
      BY <1>0, <2>0, <2>2, CreateEmits, EmittedPending DEF NetworkCreate
    <2>3. ASSUME NEW k \in Network, NetworkDestroy(k)
          PROVE  net'[n] = "alive" \/ Pending("destroy", n)'
      <3>1. CASE n = k
        <4>1. subscribed
          BY <1>1, <2>3, DestroyEmits
        <4>2. stream \in Seq(Event) /\ stream' = Append(stream, NetworkEvent("destroy", n))
          BY <2>3, <3>1, <4>1, DestroyEmits DEF Emit, TypeOK, DaemonTypeOK
        <4>3. Len(stream) \in Nat /\ Len(stream') = Len(stream) + 1
          BY <2>3, <3>1, <4>2, DestroyEmits, AppendProperties, LenProperties
        <4>4. stream'[Len(stream')] = NetworkEvent("destroy", n)
          BY <2>3, <3>1, <4>2, <4>3, DestroyEmits, AppendProperties
        <4> QED  BY <4>3, <4>4 DEF Pending
      <3>2. CASE n # k
        BY <1>0, <2>0, <2>3, <3>2, DestroyEmits, EmittedPending DEF NetworkDestroy
      <3> QED  BY <3>1, <3>2
    <2>4. ASSUME NEW ev \in Event, Emit(ev), UNCHANGED net
          PROVE  net'[n] = "alive" \/ Pending("destroy", n)'
      BY <2>0, <2>4, EmittedPending
    <2> QED  BY <2>1, <2>2, <2>3, <2>4, DaemonSteps
  <1>2. "missed_network" \notin hazard' => "missed_network" \notin hazard
    BY DaemonSteps, CreateEmits, DestroyEmits DEF Subscribe, Emit
  <1> QED  BY <1>1, <1>2 DEF RegisteredNetworks, monitorVars, NetworksApart, Overlap

\* Disjoint subnets have no zone in common.
LEMMA ZonesApart ==
    ASSUME NEW m \in Network, NEW n \in Network, ~Overlap(m, n)
    PROVE  /\ ZonesOf[m] \cap ZonesOf[n] = {}
           /\ \A y \in ZonesOf[m], z \in ZonesOf[n] : Disjoint(Covers[y], Covers[z])
  <1>1. Disjoint(Subnet[m], Subnet[n])
    BY DEF Overlap
  <1>2. \A y \in ZonesOf[m], z \in ZonesOf[n] :
           Covers[y] \subseteq Subnet[m] /\ Covers[z] \subseteq Subnet[n]
    OBVIOUS
  <1>3. \A z \in ZonesOf[m] : Covers[z] # {}
    OBVIOUS
  <1> QED  BY <1>1, <1>2, <1>3 DEF Disjoint

\* register_network updates reverse_zones, the catalog and Monitor.networks
\* alike.
LEMMA RegisterKeepsZones ==
    ASSUME TypeOK, RegisteredNetworks, NEW n \in Network, RegisterNetwork(n)
    PROVE  /\ table'.zones = UNION {ZonesOf[k] : k \in networks'}
           /\ catalog' = table'.zones
  <1>1. table'.zones = table.zones \cup ZonesOf[n]
    BY DEF RegisterNetwork, AddReverseZones, TypeOK, MonitorTypeOK, Table
  <1> QED  BY <1>1 DEF RegisterNetwork, RegisteredNetworks

\* Adding records registers no zone.
LEMMA UpsertZones ==
    ASSUME NEW t \in Table, NEW f, NEW pairs PROVE Upsert(t, f, pairs).zones = t.zones
  BY DEF Upsert, Table

\* Renaming records registers no zone.
LEMMA RenameZones ==
    ASSUME NEW t \in Table, NEW f, NEW old, NEW new PROVE Rename(t, f, old, new).zones = t.zones
  BY DEF Rename, Table

\* The steps of the monitor that deal with containers leave the zones alone.
LEMMA ContainerSteps ==
    ASSUME TypeOK,
           \/ HandleContainerStart
           \/ HandleContainerRename
           \/ HandleContainerDie
           \/ HandleNetworkConnect
           \/ HandleNetworkDisconnect
           \/ IgnoreEvent
    PROVE  /\ Receive({"start", "rename", "die", "connect", "disconnect", "other"})
           /\ table'.zones = table.zones
           /\ UNCHANGED <<networks, catalog>>
           /\ "missed_network" \notin hazard' => "missed_network" \notin hazard
  <1>0. table \in Table
    BY DEF TypeOK, MonitorTypeOK
  <1>1. CASE HandleContainerStart
    BY <1>0, <1>1, UpsertZones DEF HandleContainerStart, Receive, InspectError
  <1>2. CASE HandleContainerRename
    <2>1. table' = table \/ \E f, old, new : table' = Rename(table, f, old, new)
      BY <1>2 DEF HandleContainerRename
    <2>2. table'.zones = table.zones
      BY <1>0, <2>1, RenameZones
    <2>3. /\ Receive({"start", "rename", "die", "connect", "disconnect", "other"})
          /\ UNCHANGED <<networks, catalog>>
      BY <1>2 DEF HandleContainerRename, Receive
    <2>4. hazard \subseteq hazard'
      BY <1>2 DEF HandleContainerRename
    <2> QED  BY <2>2, <2>3, <2>4
  <1>3. CASE HandleContainerDie
    <2>1. \E f, p : table' = RemoveAddresses(table, f, p)
      <3> DEFINE c == Head(stream).container
      <3>1. \E f : table' = RemoveAddresses(table, f, Claims(c))
        BY <1>3 DEF HandleContainerDie
      <3> QED BY <3>1
    <2>2. table'.zones = table.zones
      BY <1>0, <2>1, RemoveAddressesType
    <2>3. /\ Receive({"start", "rename", "die", "connect", "disconnect", "other"})
          /\ UNCHANGED <<networks, catalog>>
      BY <1>3 DEF HandleContainerDie, Receive
    <2>4. hazard \subseteq hazard'
      BY <1>3, RemovalMarks DEF HandleContainerDie
    <2> QED BY <2>2, <2>3, <2>4
  <1>4. CASE HandleNetworkConnect
    <2> DEFINE c == Head(stream).container
               n == Head(stream).network
               names == Entry(c, AllNames(c, cname[c])).names
               old == Entry(c, AllNames(c, cname[c])).networks[n]
               new == att[c][n]
    <2>1. \/ table' = table
          \/ \E f \in Finders(table, old \cup new) :
               table' = Upsert(RemoveAddresses(table, f, names \X old), f, names \X new)
      BY <1>4 DEF HandleNetworkConnect
    <2> HIDE DEF names, old, new
    <2>2. table'.zones = table.zones
      BY <1>0, <2>1, UpsertZones, RemoveAddressesType
    <2>3. Receive({"start", "rename", "die", "connect", "disconnect", "other"})
      BY <1>4 DEF HandleNetworkConnect, Receive
    <2>4. UNCHANGED <<networks, catalog>> /\ hazard \subseteq hazard'
      <3>1. \A p : RemovalHazard(p) => hazard \subseteq hazard'
        BY RemovalMarks
      <3> QED BY <1>4, <3>1 DEF HandleNetworkConnect, InspectError
    <2> QED  BY <2>2, <2>3, <2>4
  <1>5. CASE HandleNetworkDisconnect
    <2>1. \E f, p : table' = RemoveAddresses(table, f, p)
      BY <1>5 DEF HandleNetworkDisconnect
    <2>2. table'.zones = table.zones
      BY <1>0, <2>1, RemoveAddressesType
    <2>3. Receive({"start", "rename", "die", "connect", "disconnect", "other"})
      BY <1>5 DEF HandleNetworkDisconnect, Receive
    <2>4. UNCHANGED <<networks, catalog>> /\ hazard \subseteq hazard'
      BY <1>5, RemovalMarks DEF HandleNetworkDisconnect
    <2> QED  BY <2>2, <2>3, <2>4
  <1>6. CASE IgnoreEvent
    BY <1>6 DEF IgnoreEvent, Receive
  <1> QED  BY <1>1, <1>2, <1>3, <1>4, <1>5, <1>6

\* The monitor keeps the registered networks apart and accounted for, whatever
\* the order of their events.
LEMMA MonitorRegistered ==
    ASSUME TypeOK, NetworksInv, MonitorNext, "missed_network" \notin hazard'
    PROVE  RegisteredNetworks'
  <1>0. /\ networks \cup todo \subseteq Network
        /\ net \in [Network -> {"absent", "alive", "destroyed"}]
    BY DEF TypeOK, MonitorTypeOK, DaemonTypeOK
  <1> DEFINE L == networks \cup todo
  <1>1. CASE StartListNetworks
    <2>1. /\ networks' = {} /\ table' = EmptyTable /\ catalog' = {} /\ net' = net
          /\ todo' = Alive
      BY <1>1 DEF StartListNetworks, NetworksInv, daemonState, Alive
    <2>2. NetworksApart(Alive)
      BY DEF NetworksInv, Alive
    <2> QED  BY <2>1, <2>2
             DEF RegisteredNetworks, Alive, EmptyTable, NetworksApart, Overlap, Pending
  <1>2. ASSUME NEW n \in Network, StartRegisterNetwork(n) PROVE RegisteredNetworks'
    <2>1. "missed_network" \notin hazard
      BY <1>2 DEF StartRegisterNetwork, InspectError
    <2>2. RegisteredNetworks
      BY <2>1 DEF NetworksInv
    <2>3. networks' \cup todo' \subseteq L /\ UNCHANGED <<net, stream>>
      BY <1>2 DEF StartRegisterNetwork, RegisterNetwork, daemonState, streamState
    <2>4. table'.zones = UNION {ZonesOf[k] : k \in networks'} /\ catalog' = table'.zones
      <3>1. CASE RegisterNetwork(n)
        BY <2>2, <3>1, RegisterKeepsZones
      <3>2. CASE UNCHANGED <<networks, table, catalog>>
        BY <2>2, <3>2 DEF RegisteredNetworks
      <3> QED  BY <1>2, <3>1, <3>2 DEF StartRegisterNetwork
    <2> QED  BY <2>2, <2>3, <2>4 DEF RegisteredNetworks, NetworksApart, Overlap, Pending
  <1>3. CASE StartListContainers
    <2>1. \E f, pairs : table' = Upsert(table, f, pairs)
      BY <1>3 DEF StartListContainers
    <2>2. table'.zones = table.zones
      BY <2>1, UpsertZones DEF TypeOK, MonitorTypeOK
    <2>3. "missed_network" \notin hazard
      BY <1>3 DEF StartListContainers
    <2>4. UNCHANGED <<net, stream, networks, todo, catalog>>
      BY <1>3 DEF StartListContainers, daemonState, streamState
    <2> QED  BY <2>2, <2>3, <2>4
             DEF NetworksInv, RegisteredNetworks, NetworksApart, Overlap, Pending
  <1>4. CASE StartFails
    BY <1>4 DEF StartFails, daemonVars, daemonState, streamState,
                NetworksInv, RegisteredNetworks, NetworksApart, Overlap, Pending
  <1>5. CASE \/ HandleContainerStart
             \/ HandleContainerRename
             \/ HandleContainerDie
             \/ HandleNetworkConnect
             \/ HandleNetworkDisconnect
             \/ IgnoreEvent
    <2> DEFINE A == {"start", "rename", "die", "connect", "disconnect", "other"}
    <2>1. /\ Receive(A) /\ table'.zones = table.zones /\ UNCHANGED <<networks, catalog>>
          /\ "missed_network" \notin hazard
      BY <1>5, ContainerSteps
    <2>2. RegisteredNetworks /\ UNCHANGED <<net, todo>>
      BY <2>1 DEF NetworksInv, Receive, daemonState
    <2>3. \A n : Pending("destroy", n) => Pending("destroy", n)'
      BY <2>1, ReceiveType, ReceivedPending, NetworkEventFacts
    <2> QED  BY <2>1, <2>2, <2>3 DEF RegisteredNetworks, NetworksApart, Overlap
  <1>6. CASE HandleNetworkCreate
    <2> DEFINE n == Head(stream).network
    <2>1. Receive({"create"}) /\ "missed_network" \notin hazard
      BY <1>6 DEF HandleNetworkCreate, InspectError
    <2>2. RegisteredNetworks /\ todo = {} /\ UNCHANGED <<net, todo>>
      BY <2>1 DEF NetworksInv, Receive, daemonState
    <2>3. n \in Network /\ Head(stream) = NetworkEvent("create", n)
      BY <2>1, ReceiveType, EventType, NetworkEventForm
    <2>4. \A m : Pending("destroy", m) => Pending("destroy", m)'
      BY <2>1, ReceiveType, ReceivedPending, NetworkEventFacts
    <2>5. CASE UNCHANGED <<networks, table, catalog>>
      BY <2>2, <2>4, <2>5 DEF RegisteredNetworks, NetworksApart, Overlap
    <2>6. CASE n \notin networks /\ net[n] = "alive" /\ RegisterNetwork(n)
      <3>1. networks' = networks \cup {n}
        BY <2>6 DEF RegisterNetwork
      <3>2. ASSUME NEW m \in networks PROVE ~Overlap(m, n)
        <4>0. m \in Network /\ m # n
          BY <1>0, <2>6
        <4>1. CASE net[m] = "alive"
          BY <2>3, <2>6, <4>0, <4>1 DEF NetworksInv, NetworksApart
        <4>2. CASE Pending("destroy", m)
          <5>1. PICK j \in 1 .. Len(stream) : stream[j] = NetworkEvent("destroy", m)
            BY <4>2 DEF Pending
          <5>2. 1 \in 1 .. Len(stream) /\ stream[1] = NetworkEvent("create", n)
            BY <2>1, <2>3, ReceivedStream
          <5>3. j # 1
            BY <5>1, <5>2, NetworkEventFacts
          <5>4. 1 < j
            BY <5>1, <5>3
          <5> QED  BY <2>3, <2>6, <4>0, <5>1, <5>2, <5>4 DEF NetworksInv, StreamOrdered
        <4> QED  BY <2>2, <4>1, <4>2 DEF RegisteredNetworks
      <3>3. NetworksApart(networks')
        BY <2>2, <3>1, <3>2 DEF RegisteredNetworks, NetworksApart, Overlap, Disjoint
      <3>4. \A m \in networks' : net'[m] = "alive" \/ Pending("destroy", m)'
        BY <2>2, <2>4, <2>6, <3>1 DEF RegisteredNetworks
      <3> QED  BY <2>2, <2>3, <2>6, <3>3, <3>4, RegisterKeepsZones
               DEF RegisteredNetworks, NetworksApart, Overlap
    <2> QED  BY <1>6, <2>5, <2>6 DEF HandleNetworkCreate
  <1>7. CASE HandleNetworkDestroy
    <2> DEFINE n == Head(stream).network
               zones == IF n \in networks THEN ZonesOf[n] ELSE {}
    <2>1. Receive({"destroy"}) /\ "missed_network" \notin hazard
      BY <1>7 DEF HandleNetworkDestroy
    <2>2. RegisteredNetworks /\ todo = {} /\ UNCHANGED <<net, todo>>
      BY <2>1 DEF NetworksInv, Receive, daemonState
    <2>3. n \in Network /\ Head(stream) = NetworkEvent("destroy", n)
      BY <2>1, ReceiveType, EventType, NetworkEventForm
    <2>4. \A m : m # n => (Pending("destroy", m) => Pending("destroy", m)')
      BY <2>1, <2>3, ReceivedPending, NetworkEventFacts
    <2>5. /\ networks' = networks \ {n}
          /\ table'.zones = table.zones \ zones
          /\ catalog' = catalog \ zones
      BY <1>7 DEF HandleNetworkDestroy, RemoveReverseZones, TypeOK, MonitorTypeOK, Table
    <2>6. table'.zones = UNION {ZonesOf[k] : k \in networks'}
      <3>1. CASE n \in networks
        <4>1. \A k \in networks' : ZonesOf[k] \cap ZonesOf[n] = {}
          BY <1>0, <2>2, <2>3, <2>5, <3>1, ZonesApart DEF RegisteredNetworks, NetworksApart
        <4> QED  BY <2>2, <2>5, <3>1, <4>1 DEF RegisteredNetworks
      <3>2. CASE n \notin networks
        BY <2>2, <2>5, <3>2 DEF RegisteredNetworks
      <3> QED  BY <3>1, <3>2
    <2>7. catalog' = table'.zones
      BY <2>2, <2>5 DEF RegisteredNetworks
    <2> QED  BY <2>2, <2>4, <2>5, <2>6, <2>7 DEF RegisteredNetworks, NetworksApart, Overlap
  <1> QED  BY <1>1, <1>2, <1>3, <1>4, <1>5, <1>6, <1>7 DEF MonitorNext, MonitorStep

\* The monitor never touches the daemon, and only receives from the stream.
LEMMA MonitorSteps ==
    ASSUME MonitorNext
    PROVE  UNCHANGED net /\ (UNCHANGED stream \/ \E A : Receive(A))
  <1>1. CASE StartListNetworks \/ StartListContainers \/ StartFails
             \/ \E n \in Network : StartRegisterNetwork(n)
    BY <1>1 DEF StartListNetworks, StartListContainers, StartFails, StartRegisterNetwork,
                daemonVars, daemonState, streamState
  <1>2. \A A : Receive(A) => UNCHANGED net
    BY DEF Receive, daemonState
  <1>3. CASE \E A : Receive(A)
    BY <1>2, <1>3
  <1> QED  BY <1>1, <1>3 DEF MonitorNext, MonitorStep, HandleContainerStart,
             HandleContainerRename, HandleContainerDie, HandleNetworkConnect,
             HandleNetworkDisconnect, HandleNetworkCreate, HandleNetworkDestroy, IgnoreEvent

\* start() is over once, and leaves no listed network unregistered.
LEMMA MonitorPhases ==
    ASSUME NetworksInv, MonitorNext
    PROVE  phase' # "boot" /\ (phase' = "consume" => todo' = {})
  <1>1. CASE StartListNetworks \/ StartListContainers \/ StartFails
             \/ \E n \in Network : StartRegisterNetwork(n)
    BY <1>1 DEF StartListNetworks, StartListContainers, StartFails, StartRegisterNetwork
  <1>2. \A A : Receive(A) => phase = "consume" /\ UNCHANGED <<phase, todo>>
    BY DEF Receive
  <1>3. CASE \E A : Receive(A)
    BY <1>2, <1>3 DEF NetworksInv
  <1> QED  BY <1>1, <1>3 DEF MonitorNext, MonitorStep, HandleContainerStart,
             HandleContainerRename, HandleContainerDie, HandleNetworkConnect,
             HandleNetworkDisconnect, HandleNetworkCreate, HandleNetworkDestroy, IgnoreEvent

\* The registered zones are those of the registered networks, and these have
\* disjoint subnets, although networks are created and destroyed while their
\* events are still queued.
THEOREM NetworksInvariant == Spec => []NetworksInv
  <1>1. Init => NetworksInv
    <2> SUFFICES ASSUME Init PROVE NetworksInv
      OBVIOUS
    <2>1. NetworksApart({n \in Network : net[n] = "alive"})
      BY DEF Init, DaemonInit, NetworksApart
    <2>2. Len(stream) = 0
      BY EmptySeq DEF Init, DaemonInit
    <2>3. StreamOrdered
      BY <2>2 DEF StreamOrdered, Pending
    <2>4. phase = "boot" /\ todo = {} /\ networks = {} /\ table = EmptyTable /\ catalog = {}
      BY DEF Init, MonitorInit
    <2>5. RegisteredNetworks
      BY <2>4 DEF RegisteredNetworks, EmptyTable, NetworksApart
    <2> QED  BY <2>1, <2>3, <2>4, <2>5 DEF NetworksInv
  <1>2. TypeOK /\ NetworksInv /\ [Next]_vars => NetworksInv'
    <2> SUFFICES ASSUME TypeOK, NetworksInv, [Next]_vars PROVE NetworksInv'
      OBVIOUS
    <2>0. NetworksApart(Alive)
      BY DEF NetworksInv, Alive
    <2>1. CASE DaemonNext /\ UNCHANGED monitorVars
      <3>1. NetworksApart(Alive)' /\ StreamOrdered'
        BY <2>0, <2>1, DaemonApart, DaemonOrdered DEF NetworksInv
      <3>2. "missed_network" \notin hazard' => RegisteredNetworks'
        BY <2>1, DaemonRegistered DEF NetworksInv
      <3> QED  BY <2>1, <3>1, <3>2 DEF NetworksInv, Alive, monitorVars
    <2>2. CASE MonitorNext
      <3>1. NetworksApart(Alive)'
        BY <2>0, <2>2, MonitorSteps DEF NetworksApart, Alive, Overlap
      <3>2. StreamOrdered'
        <4>1. CASE UNCHANGED stream
          BY <2>2, <4>1, MonitorSteps DEF NetworksInv, StreamOrdered, Pending
        <4> QED  BY <2>2, <4>1, MonitorSteps, ReceiveOrdered DEF NetworksInv
      <3>3. phase' # "boot" /\ (phase' = "consume" => todo' = {})
        BY <2>2, MonitorPhases
      <3>4. "missed_network" \notin hazard' => RegisteredNetworks'
        BY <2>2, MonitorRegistered
      <3> QED  BY <3>1, <3>2, <3>3, <3>4 DEF NetworksInv, Alive
    <2>3. CASE UNCHANGED vars
      <3>1. UNCHANGED <<net, stream, hazard, phase, todo, networks, table, catalog>>
        BY <2>3 DEF vars, daemonVars, monitorVars, daemonState, streamState
      <3> QED  BY <3>1 DEF NetworksInv, StreamOrdered, RegisteredNetworks, NetworksApart,
                           Pending, Overlap
    <2> QED  BY <2>1, <2>2, <2>3 DEF Next
  <1> QED  BY <1>1, <1>2, TypeCorrect, PTL DEF Spec

\* No two registered reverse zones cover the same address.
LEMMA OneZoneEachHolds ==
    ASSUME TypeOK, RegisteredNetworks
    PROVE  OneZoneEach(table)
  <1> SUFFICES ASSUME NEW ip \in Ip, NEW y \in Matches(table, ip), NEW z \in Matches(table, ip)
               PROVE  y = z
    BY DEF OneZoneEach
  <1>1. PICK m \in networks : y \in ZonesOf[m]
    BY DEF Matches, RegisteredNetworks
  <1>2. PICK n \in networks : z \in ZonesOf[n]
    BY DEF Matches, RegisteredNetworks
  <1>3. m \in Network /\ n \in Network
    BY DEF TypeOK, MonitorTypeOK
  <1>4. ip \in Covers[y] /\ ip \in Covers[z]
    BY DEF Matches
  <1>5. CASE m = n
    BY <1>1, <1>2, <1>3, <1>4, <1>5 DEF Disjoint
  <1>6. CASE m # n
    <2>1. ~Overlap(m, n)
      BY <1>6 DEF RegisteredNetworks, NetworksApart
    <2> QED  BY <1>1, <1>2, <1>3, <1>4, <2>1, ZonesApart DEF Disjoint
  <1> QED  BY <1>5, <1>6

\* No address is covered by two registered reverse zones, provided no network
\* event was missed after the listing of start(): what find_reverse_authority
\* (table.rs:86) takes for granted.
THEOREM OneReverseZoneHolds == Spec => []OneReverseZone
  <1>1. TypeOK /\ NetworksInv => OneReverseZone
    BY OneZoneEachHolds DEF NetworksInv, OneReverseZone, AtMostOneReverseZone, OneZoneEach
  <1> QED  BY <1>1, TypeCorrect, NetworksInvariant, PTL

\* reverse_zones, the catalog and Monitor.networks agree.
THEOREM ZonesAgreeHolds == Spec => []ZonesAgree
  <1>1. NetworksInv => ZonesAgree
    BY DEF NetworksInv, RegisteredNetworks, ZonesAgree
  <1> QED  BY <1>1, NetworksInvariant, PTL
=============================================================================
