--------------------------- MODULE AuthorityWrapper ---------------------------
(***************************************************************************)
(* AuthorityWrapper lock by lock (crates/docker-dns-rs/src/table.rs; the   *)
(* zone loops of docker/monitor.rs).                                       *)
(*                                                                         *)
(* A call holds one lock at a time.  What it does under one lock is a      *)
(* section; todo is the list of sections that the call in progress has     *)
(* still to run.  The monitor task is the only caller, so calls do not     *)
(* overlap; DNS queries read between any two sections.                     *)
(*                                                                         *)
(* A reverse zone is served by an authority (an Arc<InMemoryZoneHandler>), *)
(* which reverse_zones and the catalog each point to.                      *)
(***************************************************************************)
EXTENDS RecordTable, Sequences

CONSTANTS
    V4,         \* the IPv4 addresses, the rest is IPv6
    Authority,  \* authorities
    None

ASSUME WrapperAssumption ==
    /\ V4 \subseteq Ip
    /\ None \notin Authority \cup Zone

VARIABLES
    fwd,           \* A and AAAA records of the forward authority
    reverseZones,  \* reverse_zones: zone -> its authority, or None
    scan,          \* the zone a scan of reverse_zones finds for an address
    ptrs,          \* the PTR records of an authority
    catalog,       \* zone -> the authority that answers queries, or None
    todo,          \* the sections left of the call in progress
    committed      \* history: the records and zones when the last call ended

stores == <<fwd, reverseZones, scan, ptrs, catalog>>
vars == <<stores, todo, committed>>

Registered == {z \in Zone : reverseZones[z] # None}

Ptr == UNION {{<<z, r[1], r[2]>> : r \in ptrs[reverseZones[z]]} : z \in Registered}

\* What the sections have made of the table so far.
Current ==
    [table |-> [fwd |-> fwd, zones |-> Registered, ptr |-> Ptr],
     catalog |-> {z \in Zone : catalog[z] # None}]

Calls == INSTANCE RecordCalls WITH
    table <- committed.table, catalog <- committed.catalog

\* HashMap order: arbitrary, and the same until the map changes.
Scans(zones) ==
    {s \in [Ip -> zones \cup {None}] :
        \A ip \in Ip : IF \E z \in zones : ip \in Covers[z]
                       THEN s[ip] # None /\ ip \in Covers[s[ip]]
                       ELSE s[ip] = None}

TypeOK ==
    /\ fwd \subseteq Pair
    /\ reverseZones \in [Zone -> Authority \cup {None}]
    /\ scan \in Scans(Registered)
    /\ ptrs \in [Authority -> SUBSET (Ip \X DnsName)]
    /\ catalog \in [Zone -> Authority \cup {None}]

Init ==
    /\ fwd = {}
    /\ reverseZones = [z \in Zone |-> None]
    /\ scan = [ip \in Ip |-> None]
    /\ ptrs = [a \in Authority |-> {}]
    /\ catalog = [z \in Zone |-> None]
    /\ todo = <<>>
    /\ committed = Current
-----------------------------------------------------------------------------
(***************************************************************************)
(* The sections of a call                                                  *)
(***************************************************************************)
\* Mutant: the PTR record comes first.
UpsertPtrFirst(name, ip) ==
    <<[do |-> "append_ptr", name |-> name, ip |-> ip],
      [do |-> "append", name |-> name, ip |-> ip]>>

UpsertSections(name, ip) ==
    <<[do |-> "append", name |-> name, ip |-> ip],
      [do |-> "append_ptr", name |-> name, ip |-> ip]>>

RenameSections(old, new) ==
    <<[do |-> "take", old |-> old, new |-> new, of |-> V4],
      [do |-> "take", old |-> old, new |-> new, of |-> Ip \ V4]>>

ZoneSections(do, z) == <<[do |-> do, zone |-> z]>>

CatalogSection(z, a) == <<[do |-> "catalog", zone |-> z, authority |-> a]>>

Call(sections) == todo = <<>> /\ todo' = sections /\ UNCHANGED stores

Add(name, ip) == Call(UpsertSections(name, ip))

RemoveAddress(name, ip) == Call(<<[do |-> "remove", name |-> name, ip |-> ip]>>)

RenameCall(old, new) == Call(RenameSections(old, new))

\* A new authority: one that neither reverse_zones nor the catalog points to.
Fresh == {a \in Authority : \A z \in Zone : a # reverseZones[z] /\ a # catalog[z]}

\* Bound: as long as the authorities of the instance last.
RegisterZone(z) == Fresh # {} /\ Call(ZoneSections("insert", z))

DeregisterZone(z) == Call(ZoneSections("delete", z))
-----------------------------------------------------------------------------
(***************************************************************************)
(* The sections.  Each is the next one of todo and may put more in front   *)
(* of the rest.                                                            *)
(***************************************************************************)
Now == Head(todo)

Turn(do) == todo # <<>> /\ Now.do = do

Continue(more) == todo' = more \o Tail(todo)

\* The PTR records of the authority that find_reverse_authority returns.
PtrsOf(ip) == IF scan[ip] = None THEN {} ELSE ptrs[reverseZones[scan[ip]]]

WithPtrs(ip, records) ==
    IF scan[ip] = None THEN ptrs
    ELSE [ptrs EXCEPT ![reverseZones[scan[ip]]] = records]

AppendForward ==
    /\ Turn("append")
    /\ Continue(<<>>)
    /\ fwd' = fwd \cup {<<Now.name, Now.ip>>}
    /\ UNCHANGED <<reverseZones, scan, ptrs, catalog>>

AppendPtr ==
    /\ Turn("append_ptr")
    /\ Continue(<<>>)
    /\ ptrs' = WithPtrs(Now.ip, PtrsOf(Now.ip) \cup {<<Now.ip, Now.name>>})
    /\ UNCHANGED <<fwd, reverseZones, scan, catalog>>

\* Mutant: the PTR record is left behind.
RemoveLeavesPtr ==
    /\ Turn("remove")
    /\ Continue(<<>>)
    /\ fwd' = fwd \ {<<Now.name, Now.ip>>}
    /\ UNCHANGED <<reverseZones, scan, ptrs, catalog>>

\* Without a forward record the call ends here.
RemoveForward ==
    /\ Turn("remove")
    /\ Continue(IF <<Now.name, Now.ip>> \in fwd
                THEN <<[Now EXCEPT !.do = "remove_ptr"]>> ELSE <<>>)
    /\ fwd' = fwd \ {<<Now.name, Now.ip>>}
    /\ UNCHANGED <<reverseZones, scan, ptrs, catalog>>

RemovePtr ==
    /\ Turn("remove_ptr")
    /\ Continue(<<>>)
    /\ ptrs' = WithPtrs(Now.ip, PtrsOf(Now.ip) \ {<<Now.ip, Now.name>>})
    /\ UNCHANGED <<fwd, reverseZones, scan, catalog>>

\* Mutant: the record set is cloned out of the map, not removed from it.
TakeCopy ==
    /\ Turn("take")
    /\ LET ips == {ip \in Now.of : <<Now.old, ip>> \in fwd}
       IN Continue(<<[do |-> "move", old |-> Now.old, new |-> Now.new, ips |-> ips]>>)
    /\ UNCHANGED stores

\* rename_records: the whole record set of the old name goes at once.
TakeOld ==
    /\ Turn("take")
    /\ LET ips == {ip \in Now.of : <<Now.old, ip>> \in fwd}
       IN /\ Continue(<<[do |-> "move", old |-> Now.old, new |-> Now.new, ips |-> ips]>>)
          /\ fwd' = fwd \ ({Now.old} \X ips)
    /\ UNCHANGED <<reverseZones, scan, ptrs, catalog>>

\* Mutant: the PTR record of the old name stays.
MoveKeepsPtr ==
    /\ Turn("move")
    /\ \E ip \in Now.ips :
         Continue(UpsertSections(Now.new, ip) \o <<[Now EXCEPT !.ips = @ \ {ip}]>>)
    /\ UNCHANGED stores

\* The addresses follow one by one, in the order of the record set.
MoveNext ==
    /\ Turn("move")
    /\ \E ip \in Now.ips :
         /\ Continue(UpsertSections(Now.new, ip) \o <<[Now EXCEPT !.ips = @ \ {ip}]>>)
         /\ ptrs' = WithPtrs(ip, PtrsOf(ip) \ {<<ip, Now.old>>})
    /\ UNCHANGED <<fwd, reverseZones, scan, catalog>>

MoveEnds ==
    /\ Turn("move")
    /\ Now.ips = {}
    /\ Continue(<<>>)
    /\ UNCHANGED stores

\* Mutant: a zone that is registered keeps its authority (entry().or_insert).
InsertZoneIfAbsent ==
    /\ Turn("insert")
    /\ \E a \in Fresh :
         /\ Continue(CatalogSection(Now.zone, a))
         /\ reverseZones' = [reverseZones EXCEPT ![Now.zone] = IF @ = None THEN a ELSE @]
    /\ scan' \in Scans(Registered')
    /\ UNCHANGED <<fwd, ptrs, catalog>>

\* add_reverse_zone with a fresh authority, which the catalog is to get too.
InsertZone ==
    /\ Turn("insert")
    /\ \E a \in Fresh :
         /\ Continue(CatalogSection(Now.zone, a))
         /\ reverseZones' = [reverseZones EXCEPT ![Now.zone] = a]
    /\ scan' \in Scans(Registered')
    /\ UNCHANGED <<fwd, ptrs, catalog>>

\* remove_reverse_zone
DeleteZone ==
    /\ Turn("delete")
    /\ Continue(CatalogSection(Now.zone, None))
    /\ reverseZones' = [reverseZones EXCEPT ![Now.zone] = None]
    /\ scan' \in Scans(Registered')
    /\ UNCHANGED <<fwd, ptrs, catalog>>

\* catalog.write(): upsert of the zone just inserted, or its removal.  The
\* authority that was there has no other holder and is dropped.
UpdateCatalog ==
    /\ Turn("catalog")
    /\ Continue(<<>>)
    /\ catalog' = [catalog EXCEPT ![Now.zone] = Now.authority]
    /\ ptrs' = [a \in Authority |-> IF a = catalog[Now.zone] THEN {} ELSE ptrs[a]]
    /\ UNCHANGED <<fwd, reverseZones, scan>>

Section ==
    \/ AppendForward \/ AppendPtr \/ RemoveForward \/ RemovePtr \/ TakeOld \/ MoveNext
    \/ MoveEnds \/ InsertZone \/ DeleteZone \/ UpdateCatalog

Caller ==
    \/ \E name \in DnsName, ip \in Ip : Add(name, ip) \/ RemoveAddress(name, ip)
    \/ \E old, new \in DnsName : RenameCall(old, new)
    \/ \E z \in Zone : RegisterZone(z) \/ DeregisterZone(z)

Next ==
    /\ Caller \/ Section
    /\ committed' = IF todo' = <<>> THEN Current' ELSE committed

Spec == Init /\ [][Next]_vars
-----------------------------------------------------------------------------
\* What the call in progress still holds or is about.
Pending(do) == {i \in DOMAIN todo : todo[i].do = do}

Renaming == Pending("take") \cup Pending("move")

AboutName(name) ==
    \/ \E i \in Renaming : name \in {todo[i].old, todo[i].new}
    \/ \E i \in DOMAIN todo \ Renaming :
         /\ todo[i].do \in {"append", "append_ptr", "remove", "remove_ptr"}
         /\ todo[i].name = name

InFlight(ip) ==
    \/ \E i \in Pending("move") : ip \in todo[i].ips
    \/ \E i \in Pending("append") : todo[i].ip = ip

(***************************************************************************)
(* table.rs:143-168.  rename takes the old record set out and re-adds its  *)
(* addresses one by one under separate locks.  A query in between may find *)
(* an address under neither name, then it is on its way; it never finds an *)
(* address under both that was not under both before the call.             *)
(***************************************************************************)
RenameMoves ==
    \A i \in Renaming :
        LET old == todo[i].old
            new == todo[i].new
        IN \A ip \in Ip :
             LET before == {n \in {old, new} : <<n, ip>> \in committed.table.fwd}
                 now == {n \in {old, new} : <<n, ip>> \in fwd}
             IN /\ before # {} => now # {} \/ InFlight(ip)
                /\ now = {old, new} => before = {old, new}

(***************************************************************************)
(* A PTR record that queries can see beside a missing forward record is    *)
(* about to be removed by the call in progress.  (Where zones overlap it   *)
(* does not hold: OverlappingZones.cfg.)                                   *)
(***************************************************************************)
PtrHasForward ==
    \A r \in Ptr :
        <<r[3], r[2]>> \notin fwd =>
            \/ \E i \in Pending("remove_ptr") : todo[i].name = r[3] /\ todo[i].ip = r[2]
            \/ \E i \in Pending("move") : todo[i].old = r[3] /\ r[2] \in todo[i].ips

(***************************************************************************)
(* monitor.rs:543-548, 571-578.  reverse_zones and the catalog are written *)
(* under two locks.  They name different authorities for a zone only until *)
(* the call that changes the zone reaches the catalog: records never stay  *)
(* in an authority that answers no query, and no query is answered from an *)
(* authority that is written no more.                                      *)
(***************************************************************************)
CatalogFollows ==
    \A z \in Zone :
        catalog[z] # reverseZones[z] =>
            \E i \in Pending("catalog") :
                todo[i].zone = z /\ todo[i].authority = reverseZones[z]

(***************************************************************************)
(* Every call, however its sections interleave with queries, amounts to    *)
(* one step of RecordCalls when it ends.                                   *)
(***************************************************************************)
CallsAtomic == Calls!Spec
-----------------------------------------------------------------------------
(***************************************************************************)
(* What holds between any two sections.                                    *)
(***************************************************************************)

\* A section that todo can hold.
Sections ==
    [do : {"append", "append_ptr", "remove", "remove_ptr"}, name : DnsName, ip : Ip] \cup
    [do : {"take"}, old : DnsName, new : DnsName, of : {V4, Ip \ V4}] \cup
    [do : {"move"}, old : DnsName, new : DnsName, ips : SUBSET Ip] \cup
    [do : {"insert", "delete"}, zone : Zone] \cup
    [do : {"catalog"}, zone : Zone, authority : Authority \cup {None}]

WrapperTypeOK ==
    /\ TypeOK
    /\ todo \in Seq(Sections)
    /\ committed \in [table : Table, catalog : SUBSET Zone]

\* No authority serves two zones, and one that serves none is empty.
AuthoritiesInv ==
    /\ \A y, z \in Zone :
         /\ reverseZones[y] = reverseZones[z] => y = z \/ reverseZones[y] = None
         /\ catalog[y] = catalog[z] => y = z \/ catalog[y] = None
    /\ \A a \in Fresh : ptrs[a] = {}

\* The PTR records of a name, each in the zone that the scan finds.
PtrAt(name, ips) == PtrOf([ip \in {i \in Ip : scan[i] # None} |-> scan[ip]], {name} \X ips)

\* The PTR records that queries find through the catalog.
CatalogPtr ==
    {r \in Zone \X Ip \X DnsName :
        catalog[r[1]] # None /\ <<r[2], r[3]>> \in ptrs[catalog[r[1]]]}

\* The call in progress has changed the records to these, and no zone.
Made(forward, reverse) ==
    /\ fwd = forward
    /\ Ptr = reverse
    /\ Registered = committed.table.zones
    /\ catalog = reverseZones

Unchanged == Made(committed.table.fwd, committed.table.ptr)

AppendPtrSection(name, ip) == [do |-> "append_ptr", name |-> name, ip |-> ip]

Adding(name, ip) ==
    LET pair == {<<name, ip>>}
    IN  \/ todo = UpsertSections(name, ip) /\ Unchanged
        \/ /\ todo = <<AppendPtrSection(name, ip)>>
           /\ Made(committed.table.fwd \cup pair, committed.table.ptr)

Removing(name, ip) ==
    LET pair == {<<name, ip>>}
    IN  \/ todo = <<[do |-> "remove", name |-> name, ip |-> ip]>> /\ Unchanged
        \/ /\ todo = <<[do |-> "remove_ptr", name |-> name, ip |-> ip]>>
           /\ pair \subseteq committed.table.fwd
           /\ Made(committed.table.fwd \ pair, committed.table.ptr)

Zoning(z) ==
    \/ todo \in {ZoneSections("insert", z), ZoneSections("delete", z)} /\ Unchanged
    \/ \E a \in Authority \cup {None} :
         /\ todo = CatalogSection(z, a)
         /\ fwd = committed.table.fwd
         /\ Ptr = {r \in committed.table.ptr : r[1] # z}
         /\ Registered = IF a = None THEN committed.table.zones \ {z}
                                     ELSE committed.table.zones \cup {z}
         /\ reverseZones = [catalog EXCEPT ![z] = a]
         /\ catalog[z] = a => a = None
         /\ CatalogPtr = committed.table.ptr

(***************************************************************************)
(* A rename has taken the addresses taken from the old name.  Some of them *)
(* the new name has already, in forward; of some the PTR record of the old *)
(* name is gone, in gone, and that of the new one written, in reverse.     *)
(***************************************************************************)
Moved(old, new, taken, forward, gone, reverse) ==
    Made((committed.table.fwd \ ({old} \X taken)) \cup ({new} \X forward),
         (committed.table.ptr \ PtrAt(old, gone)) \cup PtrAt(new, reverse))

\* What is left of a move, and rest, what the rename has left to take.
Moving(old, new, left, rest) ==
    <<[do |-> "move", old |-> old, new |-> new, ips |-> left]>> \o rest

Renames(old, new, rest, taken) ==
    \/ todo = rest /\ rest # <<>> /\ Moved(old, new, taken, taken, taken, taken)
    \/ \E left \in SUBSET taken :
         \/ /\ todo = Moving(old, new, left, rest)
            /\ Moved(old, new, taken, taken \ left, taken \ left, taken \ left)
         \/ \E ip \in taken \ left :
              LET others == taken \ (left \cup {ip})
              IN  \/ /\ todo = UpsertSections(new, ip) \o Moving(old, new, left, rest)
                     /\ Moved(old, new, taken, others, taken \ left, others)
                  \/ /\ todo = <<AppendPtrSection(new, ip)>> \o Moving(old, new, left, rest)
                     /\ Moved(old, new, taken, taken \ left, taken \ left, others)

Renamed(old, new) ==
    LET ips == AddressesOf(committed.table, old)
        all == RenameSections(old, new)
    IN  \/ Renames(old, new, all, {})
        \/ Renames(old, new, Tail(all), ips \cap V4)
        \/ Renames(old, new, <<>>, ips)

CallInv ==
    /\ committed.catalog = Current.catalog
    /\ \/ todo = <<>> /\ Unchanged
       \/ \E name \in DnsName, ip \in Ip : Adding(name, ip) \/ Removing(name, ip)
       \/ \E z \in Zone : Zoning(z)
       \/ \E old, new \in DnsName : Renamed(old, new)

WrapperInv == WrapperTypeOK /\ AuthoritiesInv /\ CallInv
=============================================================================
