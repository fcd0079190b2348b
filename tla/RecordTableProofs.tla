-------------------------- MODULE RecordTableProofs --------------------------
(***************************************************************************)
(* Facts about the calls of RecordTable, for every set of names, addresses *)
(* and zones.                                                              *)
(***************************************************************************)
EXTENDS RecordTable, TLAPS

\* What the scans of a call yield: a registered zone that covers the address,
\* for exactly those addresses that have one.
LEMMA FinderFacts ==
    ASSUME NEW t \in Table, NEW ips \in SUBSET Ip, NEW f \in Finders(t, ips)
    PROVE  /\ DOMAIN f \subseteq ips
           /\ \A ip \in DOMAIN f : f[ip] \in t.zones /\ ip \in Covers[f[ip]]
           /\ \A ip \in ips : Matches(t, ip) # {} => ip \in DOMAIN f
  BY DEF Finders

\* The outcome of a scan depends on the registered zones only.
LEMMA FindersSameZones ==
    ASSUME NEW t, NEW u, t.zones = u.zones, NEW ips
    PROVE  Finders(t, ips) = Finders(u, ips)
  BY DEF Finders, Matches

\* The PTR records of well-formed pairs are in registered zones.
LEMMA PtrOfType ==
    ASSUME NEW t \in Table, NEW ips \in SUBSET Ip, NEW f \in Finders(t, ips),
           NEW pairs \in SUBSET Pair
    PROVE  PtrOf(f, pairs) \in SUBSET (t.zones \X Ip \X DnsName)
  BY FinderFacts DEF PtrOf, Pair

\* Each call of table.rs returns a well-formed table.
LEMMA UpsertType ==
    ASSUME NEW t \in Table, NEW ips \in SUBSET Ip, NEW f \in Finders(t, ips),
           NEW pairs \in SUBSET Pair
    PROVE  Upsert(t, f, pairs) \in Table
  <1>1. PtrOf(f, pairs) \in SUBSET (Zone \X Ip \X DnsName)
    BY PtrOfType DEF Table
  <1> QED  BY <1>1 DEF Upsert, Table

\* Removing addresses touches no zone.
LEMMA RemoveAddressesType ==
    ASSUME NEW t \in Table, NEW f, NEW pairs
    PROVE  /\ RemoveAddresses(t, f, pairs) \in Table
           /\ RemoveAddresses(t, f, pairs).zones = t.zones
  BY DEF RemoveAddresses, Table

\* rename returns a well-formed table.
LEMMA RenameType ==
    ASSUME NEW t \in Table, NEW old \in DnsName, NEW new \in DnsName,
           NEW f \in Finders(t, AddressesOf(t, old))
    PROVE  Rename(t, f, old, new) \in Table
  <1> DEFINE ips == AddressesOf(t, old)
             to  == {new} \X ips
  <1>1. ips \in SUBSET Ip /\ to \in SUBSET Pair
    BY DEF AddressesOf, Pair
  <1>2. PtrOf(f, to) \in SUBSET (Zone \X Ip \X DnsName)
    BY <1>1, PtrOfType DEF Table
  <1> QED  BY <1>1, <1>2 DEF Rename, Table, Pair

\* Adding or removing reverse zones returns a well-formed table.
LEMMA ReverseZonesType ==
    ASSUME NEW t \in Table, NEW zs \in SUBSET Zone
    PROVE  /\ AddReverseZones(t, zs) \in Table
           /\ RemoveReverseZones(t, zs) \in Table
  BY DEF AddReverseZones, RemoveReverseZones, Table
-----------------------------------------------------------------------------
(***************************************************************************)
(* PTR records.  Without two zones over one address, the zone found at     *)
(* removal is the zone found at insertion, so that no call strands a PTR   *)
(* record.                                                                 *)
(***************************************************************************)
OneZoneEach(t) == \A ip \in Ip : \A y, z \in Matches(t, ip) : y = z

Backed(t) ==
    \A r \in t.ptr : r[1] \in Matches(t, r[2]) /\ <<r[3], r[2]>> \in t.fwd

\* The PTR records of pairs are those a call computes, when it scans for all
\* of their addresses.
LEMMA PtrOfBacked ==
    ASSUME NEW t \in Table, OneZoneEach(t),
           NEW ips \in SUBSET Ip, NEW f \in Finders(t, ips),
           NEW pairs \in SUBSET (DnsName \X ips)
    PROVE  /\ \A r \in PtrOf(f, pairs) :
                r[1] \in Matches(t, r[2]) /\ <<r[3], r[2]>> \in pairs
           /\ \A r \in t.ptr :
                r[1] \in Matches(t, r[2]) /\ <<r[3], r[2]>> \in pairs
                    => r \in PtrOf(f, pairs)
  <1>1. ASSUME NEW r \in PtrOf(f, pairs)
        PROVE  r[1] \in Matches(t, r[2]) /\ <<r[3], r[2]>> \in pairs
    <2>1. PICK p \in pairs : p[2] \in DOMAIN f /\ r = <<f[p[2]], p[2], p[1]>>
      BY DEF PtrOf
    <2> QED  BY <2>1, FinderFacts DEF Matches
  <1>2. ASSUME NEW r \in t.ptr, r[1] \in Matches(t, r[2]), <<r[3], r[2]>> \in pairs
        PROVE  r \in PtrOf(f, pairs)
    <2>1. r[2] \in ips /\ r[2] \in Ip /\ r = <<r[1], r[2], r[3]>>
      BY <1>2 DEF Table
    <2>2. r[2] \in DOMAIN f
      BY <1>2, <2>1, FinderFacts
    <2>3. f[r[2]] = r[1]
      BY <1>2, <2>1, <2>2, FinderFacts DEF OneZoneEach, Matches
    <2> DEFINE p == <<r[3], r[2]>>
    <2>4. p \in pairs /\ p[2] \in DOMAIN f /\ r = <<f[p[2]], p[2], p[1]>>
      BY <1>2, <2>1, <2>2, <2>3
    <2> QED  BY <2>4 DEF PtrOf
  <1> QED  BY <1>1, <1>2

\* add leaves every PTR record with its A or AAAA record.
LEMMA UpsertBacked ==
    ASSUME NEW t \in Table, OneZoneEach(t), Backed(t),
           NEW ips \in SUBSET Ip, NEW f \in Finders(t, ips),
           NEW pairs \in SUBSET (DnsName \X ips)
    PROVE  Backed(Upsert(t, f, pairs))
  <1> DEFINE u == Upsert(t, f, pairs)
  <1>1. u.zones = t.zones /\ u.fwd = t.fwd \cup pairs /\ u.ptr = t.ptr \cup PtrOf(f, pairs)
    BY DEF Upsert, Table
  <1>2. \A ip : Matches(u, ip) = Matches(t, ip)
    BY <1>1 DEF Matches
  <1> HIDE DEF u
  <1>3. ASSUME NEW r \in u.ptr
        PROVE  r[1] \in Matches(u, r[2]) /\ <<r[3], r[2]>> \in u.fwd
    <2>1. CASE r \in t.ptr
      BY <2>1, <1>1, <1>2 DEF Backed
    <2>2. CASE r \in PtrOf(f, pairs)
      BY <2>2, <1>1, <1>2, PtrOfBacked
    <2> QED  BY <1>1, <2>1, <2>2
  <1> QED  BY <1>3 DEF Backed, u

\* remove_address finds the zone the PTR record was put in, and removes both.
LEMMA RemoveAddressesBacked ==
    ASSUME NEW t \in Table, OneZoneEach(t), Backed(t),
           NEW ips \in SUBSET Ip, NEW f \in Finders(t, ips),
           NEW pairs \in SUBSET (DnsName \X ips)
    PROVE  Backed(RemoveAddresses(t, f, pairs))
  <1> DEFINE u   == RemoveAddresses(t, f, pairs)
             hit == pairs \cap t.fwd
  <1>1. u.zones = t.zones /\ u.fwd = t.fwd \ hit /\ u.ptr = t.ptr \ PtrOf(f, hit)
    BY DEF RemoveAddresses, Table
  <1>2. \A ip : Matches(u, ip) = Matches(t, ip)
    BY <1>1 DEF Matches
  <1>3. hit \in SUBSET (DnsName \X ips)
    OBVIOUS
  <1> HIDE DEF u, hit
  <1>4. ASSUME NEW r \in u.ptr
        PROVE  r[1] \in Matches(u, r[2]) /\ <<r[3], r[2]>> \in u.fwd
    <2>1. r \in t.ptr /\ r[1] \in Matches(t, r[2]) /\ <<r[3], r[2]>> \in t.fwd
      BY <1>1 DEF Backed
    <2>2. <<r[3], r[2]>> \notin hit
      BY <2>1, <1>1, <1>3, PtrOfBacked
    <2> QED  BY <2>1, <2>2, <1>1, <1>2
  <1> QED  BY <1>4 DEF Backed, u

\* rename moves the PTR records along with the A and AAAA records.
LEMMA RenameBacked ==
    ASSUME NEW t \in Table, OneZoneEach(t), Backed(t),
           NEW old \in DnsName, NEW new \in DnsName,
           NEW f \in Finders(t, AddressesOf(t, old))
    PROVE  Backed(Rename(t, f, old, new))
  <1> DEFINE u    == Rename(t, f, old, new)
             ips  == AddressesOf(t, old)
             from == {old} \X ips
             to   == {new} \X ips
  <1>1. /\ u.zones = t.zones
        /\ u.fwd = (t.fwd \ from) \cup to
        /\ u.ptr = (t.ptr \ PtrOf(f, from)) \cup PtrOf(f, to)
    BY DEF Rename, Table
  <1>2. \A ip : Matches(u, ip) = Matches(t, ip)
    BY <1>1 DEF Matches
  <1>3. ips \in SUBSET Ip /\ from \in SUBSET (DnsName \X ips) /\ to \in SUBSET (DnsName \X ips)
    BY DEF AddressesOf
  <1> HIDE DEF u, ips, from, to
  <1>4. f \in Finders(t, ips)
    BY DEF ips
  <1>5. ASSUME NEW r \in u.ptr
        PROVE  r[1] \in Matches(u, r[2]) /\ <<r[3], r[2]>> \in u.fwd
    <2>1. CASE r \in PtrOf(f, to)
      BY <2>1, <1>1, <1>2, <1>3, <1>4, PtrOfBacked
    <2>2. CASE r \in t.ptr /\ r \notin PtrOf(f, from)
      <3>1. r[1] \in Matches(t, r[2]) /\ <<r[3], r[2]>> \in t.fwd
        BY <2>2 DEF Backed
      <3>2. <<r[3], r[2]>> \notin from
        BY <3>1, <2>2, <1>3, <1>4, PtrOfBacked
      <3> QED  BY <3>1, <3>2, <1>1, <1>2
    <2> QED  BY <1>1, <2>1, <2>2
  <1> QED  BY <1>5 DEF Backed, u

\* A reverse zone goes with all of its PTR records, and a new one has none.
LEMMA ReverseZonesBacked ==
    ASSUME NEW t \in Table, Backed(t), NEW zs \in SUBSET Zone
    PROVE  /\ Backed(AddReverseZones(t, zs))
           /\ Backed(RemoveReverseZones(t, zs))
  BY DEF Backed, Matches, AddReverseZones, RemoveReverseZones, Table
=============================================================================
