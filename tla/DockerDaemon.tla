---------------------------- MODULE DockerDaemon ----------------------------
(***************************************************************************)
(* The Docker daemon as docker-dns-rs sees it, through the twistlock       *)
(* client: containers that start, die, are renamed and are attached to     *)
(* networks, networks that come and go, and the stream of events that      *)
(* reports it all.  External: modelled from what monitor.rs asks of it     *)
(* (list_networks, list_containers, inspect_container, inspect_network)    *)
(* and from the events it handles.                                         *)
(*                                                                         *)
(* The stream is delivered in order and without loss once docker_listener  *)
(* has subscribed; what happened before is never reported.  An inspect or  *)
(* a list returns the state at that moment, which may be ahead of the      *)
(* events still in the stream.                                             *)
(***************************************************************************)
EXTENDS Addressing, Naturals, Sequences

CONSTANTS
    Container,     \* ids of containers
    CName,         \* names the daemon gives to containers
    InitName,      \* InitName[c]: the name container c has at first
    Offers,        \* Offers[n]: what the IPAM of n may give one endpoint, a
                   \* set of at most one IPv4 and one IPv6 address
    MaxPending     \* bound: events emitted and not yet received

ASSUME DaemonAssumption ==
    /\ InitName \in [Container -> CName]
    /\ \A c, d \in Container : InitName[c] = InitName[d] => c = d
    /\ Offers \in [Network -> SUBSET ((SUBSET Ip) \ {{}})]
    /\ \A n \in Network : \A ips \in Offers[n] : ips \subseteq Subnet[n]
    /\ MaxPending \in Nat

VARIABLES
    net,         \* net[n]: "absent", "alive" or "destroyed"; ids are not reused
    status,      \* status[c]: "created", "running", "exited" or "removed";
                 \* "running" also while it is paused, "created" between the
                 \* die and the start of a restart
    cname,       \* cname[c]: the current name of c
    att,         \* att[c][n]: the addresses of c on n, {} when not attached
    subscribed,  \* has docker_listener opened the event stream?
    stream,      \* events emitted and not yet received by consume_events
    hazard       \* history: which of the Hazards below have happened

daemonState == <<net, status, cname, att>>
streamState == <<subscribed, stream>>
daemonVars == <<daemonState, streamState, hazard>>

Event ==
    [action : {"start", "die"}, container : Container]
      \cup [action : {"rename"}, container : Container, old : CName, new : CName]
      \cup [action : {"connect", "disconnect"}, container : Container, network : Network]
      \cup [action : {"create", "destroy"}, network : Network]
      \cup [action : {"other"}]

(***************************************************************************)
(* The circumstances that weaken what the monitor can promise.  hazard     *)
(* only records that they happened, so that a property can say which of    *)
(* them it needs to be absent; no action reads it.                         *)
(*   missed_network, missed_container   an event was emitted with nobody   *)
(*       subscribed, after the monitor had listed the networks (or the     *)
(*       containers)                                                       *)
(*   inspect_failed   an inspect failed though its object exists           *)
(*   rename_refused   rename returned Err: a name is not a DNS name        *)
(*   rename_clash     rename moved a name that another cached container    *)
(*                    also publishes                                       *)
(*   rename_stale     a rename event, older than the inspect that cached   *)
(*                    the container, dropped a name that has records       *)
(*   rename_unfounded a rename event cached a name that the container has  *)
(*                    no records under                                     *)
(*   overwritten      the addresses a container was cached with were       *)
(*                    replaced while their records stayed                  *)
(*   claim_lost       a record was removed that a cache entry still stands *)
(*                    for, of another container or through another network *)
(*   compose_omitted  start() cached a container without its compose names *)
(*   paused_skipped   start() passed over a container that was paused      *)
(***************************************************************************)
Hazards == {"missed_network", "missed_container", "inspect_failed",
            "rename_refused", "rename_clash", "rename_stale", "rename_unfounded",
            "overwritten", "claim_lost", "compose_omitted", "paused_skipped"}

DaemonTypeOK ==
    /\ net \in [Network -> {"absent", "alive", "destroyed"}]
    /\ status \in [Container -> {"created", "running", "exited", "removed"}]
    /\ cname \in [Container -> CName]
    /\ att \in [Container -> [Network -> SUBSET Ip]]
    /\ subscribed \in BOOLEAN
    /\ stream \in Seq(Event)
    /\ hazard \in SUBSET Hazards

Attached(c) == {n \in Network : att[c][n] # {}}
Addresses(c) == UNION {att[c][n] : n \in Network}
AddressesInUse == UNION {Addresses(c) : c \in Container}

\* The program may be started next to any daemon: some networks exist and
\* some containers already run on them.
DaemonInit ==
    /\ net \in [Network -> {"absent", "alive"}]
    /\ \A m, n \in Network :
          m # n /\ net[m] = "alive" /\ net[n] = "alive" => ~Overlap(m, n)
    /\ status \in [Container -> {"created", "running"}]
    /\ cname = InitName
    /\ att \in [Container -> [Network -> {{}} \cup UNION {Offers[n] : n \in Network}]]
    /\ \A c \in Container : \A n \in Attached(c) :
          /\ status[c] = "running" /\ net[n] = "alive" /\ att[c][n] \in Offers[n]
          /\ \A d \in Container \ {c} : att[c][n] \cap Addresses(d) = {}
    /\ subscribed = FALSE
    /\ stream = <<>>
    /\ hazard = {}
-----------------------------------------------------------------------------
Emit(ev) ==
    /\ Len(stream) < MaxPending
    /\ stream' = IF subscribed THEN Append(stream, ev) ELSE stream
    /\ hazard' = hazard \cup
         (IF subscribed THEN {}
          ELSE IF ev.action \in {"create", "destroy"} THEN {"missed_network"}
          ELSE {"missed_container"})
    /\ UNCHANGED subscribed

\* docker_listener's produce_events opens the stream, at any time relative to
\* the monitor's start(): the two are separate tasks.
Subscribe ==
    /\ ~subscribed
    /\ subscribed' = TRUE
    /\ UNCHANGED <<daemonState, stream, hazard>>

NetworkCreate(n) ==
    /\ net[n] = "absent"
    /\ \A m \in Network \ {n} : net[m] = "alive" => ~Overlap(m, n)
    /\ net' = [net EXCEPT ![n] = "alive"]
    /\ Emit([action |-> "create", network |-> n])
    /\ UNCHANGED <<status, cname, att>>

NetworkDestroy(n) ==
    /\ net[n] = "alive"
    /\ \A c \in Container : att[c][n] = {}
    /\ net' = [net EXCEPT ![n] = "destroyed"]
    /\ Emit([action |-> "destroy", network |-> n])
    /\ UNCHANGED <<status, cname, att>>

\* Endpoints are created while a container is being started, and later by
\* `docker network connect`.
Connect(c, n) ==
    /\ status[c] \in {"created", "running"}
    /\ net[n] = "alive"
    /\ att[c][n] = {}
    /\ \E ips \in Offers[n] :
         /\ ips \cap AddressesInUse = {}
         /\ att' = [att EXCEPT ![c][n] = ips]
    /\ Emit([action |-> "connect", container |-> c, network |-> n])
    /\ UNCHANGED <<net, status, cname>>

\* `docker network disconnect`, the release after a container died, or the
\* release after a failed start.
Disconnect(c, n) ==
    /\ att[c][n] # {}
    /\ att' = [att EXCEPT ![c][n] = {}]
    /\ status' = [status EXCEPT ![c] =
                    IF @ = "exited" /\ Attached(c) = {n} THEN "created" ELSE @]
    /\ Emit([action |-> "disconnect", container |-> c, network |-> n])
    /\ UNCHANGED <<net, cname>>

ContainerStart(c) ==
    /\ status[c] = "created"
    /\ status' = [status EXCEPT ![c] = "running"]
    /\ Emit([action |-> "start", container |-> c])
    /\ UNCHANGED <<net, cname, att>>

\* The endpoints of a dying container are released before or after its die
\* event; it is "exited" while some are left.
ContainerDie(c) ==
    /\ status[c] = "running"
    /\ status' = [status EXCEPT ![c] = IF Attached(c) = {} THEN "created" ELSE "exited"]
    /\ Emit([action |-> "die", container |-> c])
    /\ UNCHANGED <<net, cname, att>>

\* Names are unique among the containers that exist.
ContainerRename(c, new) ==
    /\ status[c] # "removed"
    /\ \A d \in Container : status[d] # "removed" => cname[d] # new
    /\ cname' = [cname EXCEPT ![c] = new]
    /\ Emit([action |-> "rename", container |-> c, old |-> cname[c], new |-> new])
    /\ UNCHANGED <<net, status, att>>

\* `docker rm`; the event it emits is one that consume_events ignores.
ContainerRemove(c) ==
    /\ status[c] = "created"
    /\ Attached(c) = {}
    /\ status' = [status EXCEPT ![c] = "removed"]
    /\ Emit([action |-> "other"])
    /\ UNCHANGED <<net, cname, att>>

DaemonNext ==
    \/ Subscribe
    \/ \E n \in Network : NetworkCreate(n) \/ NetworkDestroy(n)
    \/ \E c \in Container :
         \/ ContainerStart(c)
         \/ ContainerDie(c)
         \/ ContainerRemove(c)
         \/ \E new \in CName : ContainerRename(c, new)
         \/ \E n \in Network : Connect(c, n) \/ Disconnect(c, n)
=============================================================================
