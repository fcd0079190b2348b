------------------------------- MODULE Subnets -------------------------------
(***************************************************************************)
(* The reverse zones of a subnet: parse_subnet and zone_name               *)
(* (crates/docker-dns-rs/src/docker/monitor.rs), bit by bit.               *)
(*                                                                         *)
(* An address is a number of Octets[family] octets of OctetBits bits.  The *)
(* program has 4 and 16 octets of 8 bits; every operator is written for    *)
(* any width.  Docker's IPAM hands out subnets, the monitor registers      *)
(* their zones in reverse_zones and under their names in the catalog.      *)
(*                                                                         *)
(* The other modules take zones as given: Partitioned is what              *)
(* Addressing!AddressingAssumption says of them.                           *)
(***************************************************************************)
EXTENDS Integers, FiniteSets, SequencesExt

CONSTANTS
    OctetBits,   \* 8
    Octets,      \* Octets["v4"] = 4, Octets["v6"] = 16
    Sample,      \* bound: addresses that subnets are written with
    MaxSubnets   \* bound: subnets in use at the same time

Family == DOMAIN Octets

ASSUME SubnetsAssumption ==
    /\ OctetBits \in Nat /\ OctetBits >= 2 /\ OctetBits % 2 = 0
    /\ Family \subseteq {"v4", "v6"}
    /\ \A f \in Family : Octets[f] \in Nat /\ Octets[f] > 0
    /\ Sample \subseteq Nat
    /\ MaxSubnets \in Nat

Width(f) == OctetBits * Octets[f]

Address(f) == 0 .. 2 ^ Width(f) - 1

\* OCTET_BOUNDARY and NIBBLE_BOUNDARY
LabelBits(f) == IF f = "v4" THEN OctetBits ELSE OctetBits \div 2

\* IpNet: an address with a prefix length; the host part may be set.
IpNet(f) == [family : {f}, addr : Address(f), prefix_len : 0 .. Width(f)]

HostSize(net) == 2 ^ (Width(net.family) - net.prefix_len)

\* IpNet::trunc
Trunc(net) == [net EXCEPT !.addr = @ - (@ % HostSize(net))]

\* IpNet::contains
InNet(net, addr) == addr \div HostSize(net) = net.addr \div HostSize(net)

Overlap(m, n) ==
    /\ m.family = n.family
    /\ InNet(m, n.addr) \/ InNet(n, m.addr)

\* IpNet::subnets: empty where it would fail, the caller flattens the error away.
SubnetsOf(net, prefix_len) ==
    LET first == Trunc(net).addr
        size == HostSize([net EXCEPT !.prefix_len = prefix_len])
    IN IF prefix_len \notin net.prefix_len .. Width(net.family) THEN {}
       ELSE {[net EXCEPT !.addr = first + k * size, !.prefix_len = prefix_len] :
                k \in 0 .. HostSize(net) \div size - 1}
-----------------------------------------------------------------------------
DivCeil(a, b) == (a + b - 1) \div b

AtLeastOne(n) == IF n = 0 THEN 1 ELSE n

\* Mutant: no max(1).
BoundaryNoMin(f, p) == DivCeil(p, LabelBits(f)) * LabelBits(f)

\* Mutant: rounded down.
BoundaryDown(f, p) == (AtLeastOne(p) \div LabelBits(f)) * LabelBits(f)

\* Mutant: octets for both families.
BoundaryOctets(f, p) == DivCeil(AtLeastOne(p), OctetBits) * OctetBits

\* The prefix length of the zones, for a subnet of prefix length p.
Boundary(f, p) == DivCeil(AtLeastOne(p), LabelBits(f)) * LabelBits(f)

\* Mutant: a subnet at a boundary is its own zone, host part and all.
ParseVerbatim(net) ==
    LET b == Boundary(net.family, net.prefix_len)
    IN IF b = net.prefix_len THEN {net} ELSE SubnetsOf(net, b)

\* parse_subnet_ipv4, parse_subnet_ipv6
ParseSubnet(net) == SubnetsOf(net, Boundary(net.family, net.prefix_len))

\* octets()[i], counted from 0
Octet(f, addr, i) == (addr \div 2 ^ (OctetBits * (Octets[f] - 1 - i))) % 2 ^ OctetBits

\* Label i of an address, most significant first: an octet, or for IPv6 the
\* high and the low half of octet i / 2 in turn.
Label(f, addr, i) ==
    IF f = "v4" THEN Octet(f, addr, i)
    ELSE LET half == 2 ^ (OctetBits \div 2)
             octet == Octet(f, addr, i \div 2)
         IN IF i % 2 = 0 THEN octet \div half ELSE octet % half

\* Mutant: no rev().
NameForward(f, addr, n) ==
    [domain |-> f, labels |-> [i \in 1 .. n |-> Label(f, addr, i - 1)]]

\* The first n labels, least significant first, below in-addr.arpa or ip6.arpa.
NameOf(f, addr, n) ==
    [domain |-> f, labels |-> [i \in 1 .. n |-> Label(f, addr, n - i)]]

ZoneName(zone) ==
    NameOf(zone.family, zone.addr, zone.prefix_len \div LabelBits(zone.family))

\* Name::from(IpAddr): the owner of a PTR record, what a reverse query asks for.
\* Written from the address as a number, not from its octets.
ReverseName(f, addr) ==
    LET b == LabelBits(f)
    IN [domain |-> f,
        labels |-> [i \in 1 .. Width(f) \div b |-> (addr \div 2 ^ (b * (i - 1))) % 2 ^ b]]

\* Catalog: a zone answers for the names at or below its own.
ZoneOf(name, zone_name) ==
    /\ name.domain = zone_name.domain
    /\ IsSuffix(zone_name.labels, name.labels)
-----------------------------------------------------------------------------
VARIABLES
    subnets,   \* Docker: the subnets in use
    zones,     \* the keys of reverse_zones
    catalog    \* the names of the reverse zones in the catalog

vars == <<subnets, zones, catalog>>

Init == subnets = {} /\ zones = {} /\ catalog = {}

\* Docker accepts a subnet that overlaps none; register_network follows.
Create(net) ==
    /\ Cardinality(subnets) < MaxSubnets
    /\ \A n \in subnets : ~Overlap(n, net)
    /\ subnets' = subnets \cup {Trunc(net)}
    /\ zones' = zones \cup ParseSubnet(net)
    /\ catalog' = catalog \cup {ZoneName(z) : z \in ParseSubnet(net)}

\* deregister_network, with the zones that were registered for the subnet.
Destroy(net) ==
    /\ subnets' = subnets \ {net}
    /\ zones' = zones \ ParseSubnet(net)
    /\ catalog' = catalog \ {ZoneName(z) : z \in ParseSubnet(net)}

\* Subnets as Docker reports them: an address with any prefix length, with
\* or without a host part.
Written(f) == {n \in IpNet(f) : n.addr \in Sample}

Next ==
    \/ \E f \in Family : \E net \in Written(f) : Create(net)
    \/ \E net \in subnets : Destroy(net)

Spec == Init /\ [][Next]_vars
-----------------------------------------------------------------------------
Addresses(net) == {a \in Address(net.family) : InNet(net, a)}

TypeOK ==
    /\ \A n \in subnets \cup zones : n.family \in Family /\ n \in IpNet(n.family) /\ n = Trunc(n)
    /\ \A n \in catalog : n.domain \in Family

(***************************************************************************)
(* monitor.rs:159, 168.  The rounded prefix is the next boundary that is   *)
(* not the root, and one that the address has: IpNet::subnets fails on any *)
(* other, and a subnet would silently have no zone.                        *)
(***************************************************************************)
NextBoundary(f, p) ==
    LET b == Boundary(f, p)
    IN /\ b \in AtLeastOne(p) .. Width(f)
       /\ b % LabelBits(f) = 0
       /\ b - LabelBits(f) < AtLeastOne(p)

BoundariesFit ==
    \A n \in subnets : NextBoundary(n.family, n.prefix_len)

(***************************************************************************)
(* The zones cover exactly the addresses of the subnets in use, and no     *)
(* address twice: the answer of find_reverse_authority does not depend on  *)
(* the order of the HashMap (table.rs:86-89).  It takes IPAM's word that   *)
(* subnets in use do not overlap.                                          *)
(***************************************************************************)
Partitioned ==
    \A f \in Family : \A a \in Address(f) :
        LET in(nets) == {n \in nets : n.family = f /\ InNet(n, a)}
        IN Cardinality(in(zones)) = Cardinality(in(subnets))

(***************************************************************************)
(* No zone could be merged with others into one that still is a reverse    *)
(* zone inside the subnet: a subnet at a boundary has one zone.            *)
(***************************************************************************)
Coarsest ==
    \A n \in subnets, z \in zones :
        /\ Overlap(n, z)
        /\ z.prefix_len > LabelBits(z.family)
        => n.prefix_len > z.prefix_len - LabelBits(z.family)

(***************************************************************************)
(* A reverse query for an address is answered by the zone that its PTR     *)
(* record was written to, and by none if no zone contains it.  The catalog *)
(* routes by name, the monitor writes by network: zone_name makes the two  *)
(* agree.                                                                  *)
(***************************************************************************)
Routed ==
    \A f \in Family : \A a \in Address(f) :
        {n \in catalog : ZoneOf(ReverseName(f, a), n)} =
            {ZoneName(z) : z \in {y \in zones : y.family = f /\ InNet(y, a)}}
=============================================================================
