------------------------------ MODULE RecordCalls ------------------------------
(***************************************************************************)
(* The abstract specification of AuthorityWrapper: each call of table.rs,  *)
(* and each zone that the monitor registers or deregisters, is one step of *)
(* the record table and the catalog.                                       *)
(***************************************************************************)
EXTENDS RecordTable

VARIABLES
    table,     \* the records
    catalog    \* the reverse zones that the DNS server answers for

vars == <<table, catalog>>

Init == table = EmptyTable /\ catalog = {}

Add(name, ip) ==
    /\ \E f \in Finders(table, {ip}) : table' = Upsert(table, f, {<<name, ip>>})
    /\ UNCHANGED catalog

Remove(name, ip) ==
    /\ \E f \in Finders(table, {ip}) : table' = RemoveAddresses(table, f, {<<name, ip>>})
    /\ UNCHANGED catalog

Renames(old, new) ==
    /\ \E f \in Finders(table, AddressesOf(table, old)) : table' = Rename(table, f, old, new)
    /\ UNCHANGED catalog

Register(z) ==
    /\ table' = AddReverseZones(table, {z})
    /\ catalog' = catalog \cup {z}

Deregister(z) ==
    /\ table' = RemoveReverseZones(table, {z})
    /\ catalog' = catalog \ {z}

Next ==
    \/ \E name \in DnsName, ip \in Ip : Add(name, ip) \/ Remove(name, ip)
    \/ \E old, new \in DnsName : Renames(old, new)
    \/ \E z \in Zone : Register(z) \/ Deregister(z)

Spec == Init /\ [][Next]_vars
=============================================================================
