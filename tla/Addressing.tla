----------------------------- MODULE Addressing -----------------------------
(***************************************************************************)
(* Addresses, the subnets of Docker networks, and the reverse zones that   *)
(* parse_subnet cuts a subnet into (crates/docker-dns-rs/src/docker/       *)
(* monitor.rs).  What the other modules rely on is stated by               *)
(* AddressingAssumption: the zones of a network partition its subnet.      *)
(***************************************************************************)
EXTENDS FiniteSets

CONSTANTS
    Ip,        \* IPv4 and IPv6 addresses
    Network,   \* ids of Docker networks
    Subnet,    \* Subnet[n]: the addresses of network n (its IPAM subnets)
    Zone,      \* octet or nibble aligned subnets, the keys of reverse_zones
    Covers,    \* Covers[z]: the addresses that zone z contains
    ZonesOf    \* ZonesOf[n]: parse_subnet applied to every subnet of n

Disjoint(S, T) == S \cap T = {}

ASSUME AddressingAssumption ==
    /\ Subnet \in [Network -> SUBSET Ip]
    /\ Covers \in [Zone -> (SUBSET Ip) \ {{}}]
    /\ ZonesOf \in [Network -> SUBSET Zone]
    /\ \A n \in Network :
         /\ Subnet[n] = UNION {Covers[z] : z \in ZonesOf[n]}
         /\ \A y, z \in ZonesOf[n] : y # z => Disjoint(Covers[y], Covers[z])

\* Docker's IPAM gives no two networks that exist together a common address.
Overlap(m, n) == ~Disjoint(Subnet[m], Subnet[n])
=============================================================================
