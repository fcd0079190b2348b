----------------------------- MODULE RecordTable -----------------------------
(***************************************************************************)
(* The DNS records of docker-dns-rs and the calls that change them         *)
(* (crates/docker-dns-rs/src/table.rs, AuthorityWrapper).                  *)
(*                                                                         *)
(* A table has three parts:                                                *)
(*   fwd    the A and AAAA records of the forward zone, as pairs           *)
(*          <<name, address>>.  The record type follows from the address,  *)
(*          so an RrKey's RecordSet is the set of addresses paired with    *)
(*          its name; table.rs removes a key with its last address, which  *)
(*          makes the two representations equivalent.                      *)
(*   zones  the keys of reverse_zones, one per registered subnet piece     *)
(*   ptr    the PTR records, as triples <<zone, address, name>>; the       *)
(*          records of a zone live in that zone's own authority            *)
(*                                                                         *)
(* Names are the canonical (lower-case, fully qualified) names: LowerName  *)
(* keys and the case-insensitive equality of Name make every lookup,       *)
(* insertion and removal of table.rs one of canonical names.               *)
(***************************************************************************)
EXTENDS Addressing

CONSTANT
    DnsName    \* canonical fully qualified names

Pair == DnsName \X Ip
Table == [fwd : SUBSET Pair, zones : SUBSET Zone, ptr : SUBSET (Zone \X Ip \X DnsName)]

EmptyTable == [fwd |-> {}, zones |-> {}, ptr |-> {}]

(***************************************************************************)
(* find_reverse_authority scans a HashMap, whose order is arbitrary: any   *)
(* registered zone that contains the address may be the one it returns.    *)
(* A call of table.rs is given one outcome of the scan for the addresses   *)
(* it is about: a function f on those for which a zone is found.           *)
(***************************************************************************)
Matches(t, ip) == {z \in t.zones : ip \in Covers[z]}

Finders(t, ips) ==
    LET found == {ip \in ips : Matches(t, ip) # {}}
    IN  {f \in [found -> t.zones] : \A ip \in found : ip \in Covers[f[ip]]}

\* The PTR records of those pairs whose address has a reverse zone.
PtrOf(f, pairs) ==
    {<<f[p[2]], p[2], p[1]>> : p \in {q \in pairs : q[2] \in DOMAIN f}}

\* The addresses a name has.
AddressesOf(t, name) == {ip \in Ip : <<name, ip>> \in t.fwd}
-----------------------------------------------------------------------------
\* add / upsert for every pair: the forward record, then the PTR if a zone is found.
Upsert(t, f, pairs) ==
    [t EXCEPT !.fwd = @ \cup pairs, !.ptr = @ \cup PtrOf(f, pairs)]

\* Mutant: the PTR record is left behind.
RemoveForwardOnly(t, f, pairs) == [t EXCEPT !.fwd = @ \ pairs]

\* Mutant: only one address of a dual-stack endpoint is removed.
RemoveOneAddress(t, f, pairs) ==
    LET one == {p \in pairs : p[2] = CHOOSE ip \in Ip : \E q \in pairs : q[2] = ip}
    IN  [t EXCEPT !.fwd = @ \ one, !.ptr = @ \ PtrOf(f, one)]

\* Mutant: the first record that is not found ends the removal.
RemoveUntilMiss(t, f, pairs) ==
    IF pairs \subseteq t.fwd
    THEN [t EXCEPT !.fwd = @ \ pairs, !.ptr = @ \ PtrOf(f, pairs)]
    ELSE t

\* remove_address / remove_record for every pair: without a forward record
\* it returns Err before it touches the PTR.
RemoveAddresses(t, f, pairs) ==
    LET hit == pairs \cap t.fwd
    IN  [t EXCEPT !.fwd = @ \ hit, !.ptr = @ \ PtrOf(f, hit)]

\* Mutant: the records are copied to the new name.
RenameKeepsOld(t, f, old, new) ==
    LET to == {new} \X AddressesOf(t, old)
    IN  [t EXCEPT !.fwd = @ \cup to, !.ptr = @ \cup PtrOf(f, to)]

\* Mutant: the PTR records keep the old name beside the new one.
RenameKeepsPtr(t, f, old, new) ==
    LET ips == AddressesOf(t, old)
    IN  [t EXCEPT !.fwd = (@ \ ({old} \X ips)) \cup ({new} \X ips),
                  !.ptr = @ \cup PtrOf(f, {new} \X ips)]

\* rename / rename_records for A and AAAA: every address recorded under old
\* moves to new, whichever container it belongs to.
Rename(t, f, old, new) ==
    LET ips  == AddressesOf(t, old)
        from == {old} \X ips
        to   == {new} \X ips
    IN  [t EXCEPT !.fwd = (@ \ from) \cup to,
                  !.ptr = (@ \ PtrOf(f, from)) \cup PtrOf(f, to)]

\* add_reverse_zone: each zone gets a fresh authority, replacing any it had.
AddReverseZones(t, zs) ==
    [t EXCEPT !.zones = @ \cup zs, !.ptr = {r \in @ : r[1] \notin zs}]

\* Mutant: the zone is emptied and stays registered.
KeepReverseZones(t, zs) == [t EXCEPT !.ptr = {r \in @ : r[1] \notin zs}]

\* remove_reverse_zone: the authority goes, and its PTR records with it.
RemoveReverseZones(t, zs) ==
    [t EXCEPT !.zones = @ \ zs, !.ptr = {r \in @ : r[1] \notin zs}]
=============================================================================
