---------------------------- MODULE WrapperProofs ----------------------------
(***************************************************************************)
(* AuthorityWrapper and the DNS side: what the sections of a call keep in  *)
(* order, that every call amounts to one step of RecordCalls, and what     *)
(* queries are answered with in the middle of a call.                      *)
(***************************************************************************)
EXTENDS Resolver, RecordTableProofs, SequenceTheorems

Triple == Zone \X Ip \X DnsName

\* A section in front of others is the next one.
LEMMA Front ==
    ASSUME NEW S, NEW x \in S, NEW rest \in Seq(S)
    PROVE  /\ <<x>> \o rest \in Seq(S)
           /\ <<x>> \o rest # <<>>
           /\ Head(<<x>> \o rest) = x
           /\ Tail(<<x>> \o rest) = rest
           /\ <<>> \o rest = rest
  OBVIOUS

\* No section in front leaves the others as they are.
LEMMA NothingInFront == ASSUME NEW S, NEW rest \in Seq(S) PROVE <<>> \o rest = rest
  OBVIOUS

\* A section in front of none.
LEMMA FrontOnly == ASSUME NEW x PROVE <<x>> \o <<>> = <<x>> /\ <<x>> # <<>>
  OBVIOUS

\* The same, for two sections in front of others.
LEMMA FrontTwo ==
    ASSUME NEW S, NEW x \in S, NEW y \in S, NEW rest \in Seq(S)
    PROVE  /\ <<x, y>> \o rest \in Seq(S)
           /\ <<x, y>> \o rest # <<>>
           /\ Head(<<x, y>> \o rest) = x
           /\ Tail(<<x, y>> \o rest) = <<y>> \o rest
  <1>1. <<x, y>> \o rest \in Seq(S) /\ <<x, y>> \o rest # <<>> /\ Head(<<x, y>> \o rest) = x
    OBVIOUS
  <1>2. Tail(<<x, y>> \o rest) = <<y>> \o rest
    OBVIOUS
  <1> QED  BY <1>1, <1>2

\* Each element is the first one or one of the others.
LEMMA Elements ==
    ASSUME NEW S, NEW s \in Seq(S), s # <<>>
    PROVE  /\ \A i \in DOMAIN s : s[i] = Head(s) \/ \E j \in DOMAIN Tail(s) : s[i] = Tail(s)[j]
           /\ \E i \in DOMAIN s : s[i] = Head(s)
           /\ \A j \in DOMAIN Tail(s) : \E i \in DOMAIN s : s[i] = Tail(s)[j]
  <1>1. ASSUME NEW i \in DOMAIN s, i # 1 PROVE i - 1 \in DOMAIN Tail(s) /\ s[i] = Tail(s)[i - 1]
    BY <1>1
  <1>2. 1 \in DOMAIN s /\ s[1] = Head(s)
    OBVIOUS
  <1>3. ASSUME NEW j \in DOMAIN Tail(s) PROVE j + 1 \in DOMAIN s /\ s[j + 1] = Tail(s)[j]
    OBVIOUS
  <1> QED  BY <1>1, <1>2, <1>3
-----------------------------------------------------------------------------
\* The DNS side adds steps to those of the wrapper and changes none of them.
LEMMA WrapperSteps == ResolverSpec => Spec
  <1>1. ResolverInit => Init
    BY DEF ResolverInit
  <1>2. [ResolverNext]_<<vars, resolverVars>> => [Next]_vars
    BY DEF ResolverNext, Ask, Intercept, ReadCatalog, Lookup, Forget, AwaitCatalog, MonitorSection
  <1> QED  BY <1>1, <1>2, PTL DEF ResolverSpec, Spec

\* What a scan of reverse_zones finds.
LEMMA ScanFacts ==
    ASSUME TypeOK, NEW ip \in Ip
    PROVE  /\ scan[ip] # None => /\ scan[ip] \in Zone /\ ip \in Covers[scan[ip]]
                                 /\ reverseZones[scan[ip]] \in Authority
           /\ scan[ip] = None => \A z \in Registered : ip \notin Covers[z]
  BY WrapperAssumption DEF TypeOK, Scans, Registered

\* The PTR records, zone by zone, for any zones and authorities.
LEMMA PtrOfZones ==
    ASSUME NEW rz \in [Zone -> Authority \cup {None}], NEW ps \in [Authority -> SUBSET (Ip \X DnsName)]
    PROVE  UNION {{<<z, r[1], r[2]>> : r \in ps[rz[z]]} : z \in {y \in Zone : rz[y] # None}}
             = {r \in Triple : rz[r[1]] # None /\ <<r[2], r[3]>> \in ps[rz[r[1]]]}
  <1> DEFINE named == {y \in Zone : rz[y] # None}
             all   == UNION {{<<z, r[1], r[2]>> : r \in ps[rz[z]]} : z \in named}
  <1>1. \A z \in named : ps[rz[z]] \subseteq Ip \X DnsName
    OBVIOUS
  <1>2. ASSUME NEW r \in all
        PROVE  r \in Triple /\ rz[r[1]] # None /\ <<r[2], r[3]>> \in ps[rz[r[1]]]
    <2>1. PICK z \in named : r \in {<<z, s[1], s[2]>> : s \in ps[rz[z]]}
      OBVIOUS
    <2>2. PICK s \in ps[rz[z]] : r = <<z, s[1], s[2]>>
      BY <2>1
    <2>3. s \in Ip \X DnsName /\ s = <<s[1], s[2]>>
      BY <1>1, <2>2
    <2> QED  BY <2>1, <2>2, <2>3 DEF Triple
  <1>3. ASSUME NEW r \in Triple, rz[r[1]] # None, <<r[2], r[3]>> \in ps[rz[r[1]]]
        PROVE  r \in all
    <2>1. r[1] \in named /\ r = <<r[1], r[2], r[3]>>
      BY <1>3 DEF Triple
    <2> DEFINE s == <<r[2], r[3]>>
    <2>2. r = <<r[1], s[1], s[2]>> /\ s \in ps[rz[r[1]]]
      BY <2>1, <1>3
    <2> HIDE DEF s, named
    <2> QED  BY <2>1, <2>2
  <1> HIDE DEF all
  <1>4. all = {r \in Triple : rz[r[1]] # None /\ <<r[2], r[3]>> \in ps[rz[r[1]]]}
    BY <1>2, <1>3
  <1> QED  BY <1>4 DEF all

\* The same, of the state.
LEMMA PtrFacts ==
    ASSUME TypeOK
    PROVE  Ptr = {r \in Triple : reverseZones[r[1]] # None /\ <<r[2], r[3]>> \in ptrs[reverseZones[r[1]]]}
  BY PtrOfZones DEF Ptr, Registered, TypeOK

\* PtrAt, record by record.
LEMMA PtrAtFacts ==
    ASSUME TypeOK, NEW name \in DnsName, NEW ips \in SUBSET Ip
    PROVE  PtrAt(name, ips) = {r \in Triple : r[3] = name /\ r[2] \in ips /\ scan[r[2]] = r[1]}
  <1> DEFINE f == [ip \in {i \in Ip : scan[i] # None} |-> scan[ip]]
             pairs == {name} \X ips
  <1>1. ASSUME NEW r \in PtrOf(f, pairs)
        PROVE  r \in Triple /\ r[3] = name /\ r[2] \in ips /\ scan[r[2]] = r[1]
    <2>1. PICK p \in pairs : p[2] \in DOMAIN f /\ r = <<f[p[2]], p[2], p[1]>>
      BY DEF PtrOf
    <2>2. p[2] \in Ip /\ p[2] \in ips /\ p[1] = name /\ f[p[2]] = scan[p[2]] /\ scan[p[2]] # None
      BY <2>1
    <2> QED  BY <2>1, <2>2, ScanFacts DEF Triple
  <1>2. ASSUME NEW r \in Triple, r[3] = name, r[2] \in ips, scan[r[2]] = r[1]
        PROVE  r \in PtrOf(f, pairs)
    <2>1. r = <<r[1], r[2], r[3]>> /\ r[2] \in Ip /\ r[1] # None
      BY WrapperAssumption DEF Triple
    <2> DEFINE p == <<r[3], r[2]>>
    <2>2. p \in pairs /\ p[2] \in DOMAIN f /\ r = <<f[p[2]], p[2], p[1]>>
      BY <2>1, <1>2
    <2> HIDE DEF p
    <2> QED  BY <2>2 DEF PtrOf
  <1>3. PtrAt(name, ips) = PtrOf(f, pairs)
    BY DEF PtrAt
  <1> HIDE DEF f, pairs
  <1> QED  BY <1>1, <1>2, <1>3

\* Writing the PTR records of the authority that the scan finds for an address
\* writes them in the zone it finds, and in no other.
LEMMA WithPtrsFacts ==
    ASSUME TypeOK, AuthoritiesInv, NEW ip \in Ip, NEW records,
           ptrs' = WithPtrs(ip, records), UNCHANGED <<reverseZones, scan>>
    PROVE  \A z \in Registered :
             ptrs'[reverseZones[z]] = IF z = scan[ip] THEN records ELSE ptrs[reverseZones[z]]
  <1>1. CASE scan[ip] = None
    BY <1>1, WrapperAssumption DEF WithPtrs, Registered
  <1>2. CASE scan[ip] # None
    <2>1. scan[ip] \in Zone /\ reverseZones[scan[ip]] \in Authority /\ ptrs \in [Authority -> SUBSET (Ip \X DnsName)]
      BY <1>2, ScanFacts DEF TypeOK
    <2>2. ptrs' = [ptrs EXCEPT ![reverseZones[scan[ip]]] = records]
      BY <1>2 DEF WithPtrs
    <2>3. \A z \in Registered : reverseZones[z] \in Authority /\ reverseZones[z] # None
      BY DEF TypeOK, Registered
    <2>4. \A z \in Registered : reverseZones[z] = reverseZones[scan[ip]] => z = scan[ip]
      BY <2>1, <2>3 DEF AuthoritiesInv, Registered
    <2> QED  BY <2>1, <2>2, <2>3, <2>4
  <1> QED  BY <1>1, <1>2

\* What has changed of Ptr after one PTR record is written or removed.
LEMMA PtrWritten ==
    ASSUME TypeOK, TypeOK', AuthoritiesInv, NEW ip \in Ip, NEW name \in DnsName,
           UNCHANGED <<reverseZones, scan>>
    PROVE  /\ ptrs' = WithPtrs(ip, PtrsOf(ip) \cup {<<ip, name>>}) => Ptr' = Ptr \cup PtrAt(name, {ip})
           /\ ptrs' = WithPtrs(ip, PtrsOf(ip) \ {<<ip, name>>}) => Ptr' = Ptr \ PtrAt(name, {ip})
  <1> DEFINE At1 == PtrAt(name, {ip})
  <1>1. At1 = {r \in Triple : r[3] = name /\ r[2] = ip /\ r[1] = scan[ip]}
    <2>1. At1 = {r \in Triple : r[3] = name /\ r[2] \in {ip} /\ scan[r[2]] = r[1]}
      BY PtrAtFacts
    <2> QED  BY <2>1
  <1>2. /\ Ptr = {r \in Triple : reverseZones[r[1]] # None /\ <<r[2], r[3]>> \in ptrs[reverseZones[r[1]]]}
        /\ Ptr' = {r \in Triple : reverseZones[r[1]] # None /\ <<r[2], r[3]>> \in ptrs'[reverseZones[r[1]]]}
    <2>1. Ptr = {r \in Triple : reverseZones[r[1]] # None /\ <<r[2], r[3]>> \in ptrs[reverseZones[r[1]]]}
      BY PtrFacts
    <2>2. ptrs' \in [Authority -> SUBSET (Ip \X DnsName)] /\ reverseZones \in [Zone -> Authority \cup {None}]
      BY DEF TypeOK
    <2>3. UNION {{<<z, r[1], r[2]>> : r \in ptrs'[reverseZones[z]]} : z \in {y \in Zone : reverseZones[y] # None}}
             = {r \in Triple : reverseZones[r[1]] # None /\ <<r[2], r[3]>> \in ptrs'[reverseZones[r[1]]]}
      BY <2>2, PtrOfZones
    <2> QED  BY <2>1, <2>3 DEF Ptr, Registered
  <1>3. \A r \in Triple : r[1] \in Zone /\ (reverseZones[r[1]] # None <=> r[1] \in Registered)
    BY DEF Triple, Registered
  <1>4. scan[ip] # None => PtrsOf(ip) = ptrs[reverseZones[scan[ip]]]
    BY DEF PtrsOf
  <1>5. \A z \in Zone : z # None
    BY WrapperAssumption
  <1>6. scan[ip] # None => scan[ip] \in Registered
    BY ScanFacts, WrapperAssumption DEF Registered
  <1> HIDE DEF At1
  <1>7. ASSUME ptrs' = WithPtrs(ip, PtrsOf(ip) \cup {<<ip, name>>}) PROVE Ptr' = Ptr \cup At1
    <2>1. \A z \in Registered :
             ptrs'[reverseZones[z]] = IF z = scan[ip] THEN PtrsOf(ip) \cup {<<ip, name>>} ELSE ptrs[reverseZones[z]]
      BY <1>7, WithPtrsFacts
    <2>2. ASSUME NEW r \in Triple PROVE r \in Ptr' <=> r \in Ptr \/ r \in At1
      BY <1>1, <1>2, <1>3, <1>4, <1>5, <1>6, <2>1
    <2> QED  BY <2>2, <1>1, <1>2
  <1>8. ASSUME ptrs' = WithPtrs(ip, PtrsOf(ip) \ {<<ip, name>>}) PROVE Ptr' = Ptr \ At1
    <2>1. \A z \in Registered :
             ptrs'[reverseZones[z]] = IF z = scan[ip] THEN PtrsOf(ip) \ {<<ip, name>>} ELSE ptrs[reverseZones[z]]
      BY <1>8, WithPtrsFacts
    <2>2. ASSUME NEW r \in Triple PROVE r \in Ptr' <=> r \in Ptr /\ r \notin At1
      BY <1>1, <1>2, <1>3, <1>4, <1>5, <1>6, <2>1
    <2> QED  BY <2>2, <1>1, <1>2
  <1> QED  BY <1>7, <1>8 DEF At1

\* The zones that the scan finds are an outcome that RecordTable allows.
Agrees(f, ips) ==
    \A name \in DnsName, some \in SUBSET ips : PtrOf(f, {name} \X some) = PtrAt(name, some)

\* The scan agrees, at any addresses, with an outcome that RecordTable allows.
LEMMA ScanIsFinder ==
    ASSUME TypeOK, NEW t, t.zones = Registered, NEW ips \in SUBSET Ip
    PROVE  \E f \in Finders(t, ips)  : Agrees(f, ips)
  <1> DEFINE f == [ip \in {i \in ips : scan[i] # None} |-> scan[ip]]
             g == [ip \in {i \in Ip : scan[i] # None} |-> scan[ip]]
  <1>1. \A ip \in ips : scan[ip] # None <=> Matches(t, ip) # {}
    BY ScanFacts, WrapperAssumption DEF Matches, TypeOK, Scans
  <1>2. \A ip \in ips : scan[ip] # None => scan[ip] \in Registered /\ ip \in Covers[scan[ip]]
    BY ScanFacts DEF TypeOK, Scans
  <1>3. f \in Finders(t, ips)
    <2>1. {i \in ips : scan[i] # None} = {ip \in ips : Matches(t, ip) # {}}
      BY <1>1
    <2>2. f \in [{i \in ips : scan[i] # None} -> t.zones]
      BY <1>2
    <2> QED  BY <2>1, <2>2, <1>2 DEF Finders
  <1>4. ASSUME NEW name \in DnsName, NEW some \in SUBSET ips
        PROVE  PtrOf(f, {name} \X some) = PtrAt(name, some)
    <2> DEFINE pairs == {name} \X some
    <2>1. \A p \in pairs : /\ p[2] \in ips /\ p[2] \in Ip
                           /\ p[2] \in DOMAIN f <=> p[2] \in DOMAIN g
                           /\ p[2] \in DOMAIN f => f[p[2]] = g[p[2]]
      OBVIOUS
    <2>2. PtrAt(name, some) = PtrOf(g, pairs)
      BY DEF PtrAt
    <2> HIDE DEF f, g, pairs
    <2>3. PtrOf(f, pairs) = PtrOf(g, pairs)
      BY <2>1 DEF PtrOf
    <2> QED  BY <2>2, <2>3 DEF pairs
  <1>5. Agrees(f, ips)
    BY <1>4 DEF Agrees
  <1> QED  BY <1>3, <1>5
-----------------------------------------------------------------------------
\* The fields of a section.
LEMMA SectionTypes ==
    ASSUME NEW x \in Sections
    PROVE  /\ x.do \in {"append", "append_ptr", "remove", "remove_ptr"} =>
                x.name \in DnsName /\ x.ip \in Ip /\ x = [do |-> x.do, name |-> x.name, ip |-> x.ip]
           /\ x.do = "take" => x.old \in DnsName /\ x.new \in DnsName /\ x.of \in SUBSET Ip
           /\ x.do = "move" => /\ x.old \in DnsName /\ x.new \in DnsName /\ x.ips \in SUBSET Ip
                               /\ x = [do |-> "move", old |-> x.old, new |-> x.new, ips |-> x.ips]
           /\ x.do \in {"insert", "delete", "catalog"} => x.zone \in Zone
           /\ x.do = "catalog" => x.authority \in Authority \cup {None} /\ x = [do |-> "catalog", zone |-> x.zone, authority |-> x.authority]
  BY WrapperAssumption DEF Sections

\* The sections that a call or a section puts into todo are sections.
LEMMA MoreTypes ==
    ASSUME NEW name \in DnsName, NEW ip \in Ip
    PROVE  /\ UpsertSections(name, ip) \in Seq(Sections)
           /\ [do |-> "append", name |-> name, ip |-> ip] \in Sections
           /\ [do |-> "append_ptr", name |-> name, ip |-> ip] \in Sections
           /\ [do |-> "remove", name |-> name, ip |-> ip] \in Sections
           /\ [do |-> "remove_ptr", name |-> name, ip |-> ip] \in Sections
  <1>1. /\ [do |-> "append", name |-> name, ip |-> ip] \in Sections
        /\ [do |-> "append_ptr", name |-> name, ip |-> ip] \in Sections
        /\ [do |-> "remove", name |-> name, ip |-> ip] \in Sections
        /\ [do |-> "remove_ptr", name |-> name, ip |-> ip] \in Sections
    BY DEF Sections
  <1> QED  BY <1>1 DEF UpsertSections

\* The next section and the others, with more of them in front.
LEMMA NowTyped ==
    ASSUME todo \in Seq(Sections), todo # <<>>
    PROVE  Now \in Sections /\ Tail(todo) \in Seq(Sections) /\ \A more \in Seq(Sections) : more \o Tail(todo) \in Seq(Sections)
  <1>1. Now \in Sections /\ Tail(todo) \in Seq(Sections)
    BY DEF Now
  <1> QED  BY <1>1, ConcatProperties

\* The variables of the wrapper keep their types.
LEMMA WrapperTypeInit == Init => WrapperTypeOK
  <1> SUFFICES ASSUME Init PROVE WrapperTypeOK
    OBVIOUS
  <1>1. Registered = {} /\ Ptr = {}
    BY DEF Init, Registered, Ptr
  <1>2. TypeOK
    BY <1>1 DEF Init, TypeOK, Scans, Pair
  <1>3. todo \in Seq(Sections)
    BY DEF Init
  <1>4. committed \in [table : Table, catalog : SUBSET Zone]
    BY <1>1 DEF Init, Current, Table
  <1> QED  BY <1>2, <1>3, <1>4 DEF WrapperTypeOK

\* Writing PTR records of the authority that a scan finds.
LEMMA WithPtrsType ==
    ASSUME TypeOK, NEW ip \in Ip, NEW name \in DnsName
    PROVE  /\ WithPtrs(ip, PtrsOf(ip) \cup {<<ip, name>>}) \in [Authority -> SUBSET (Ip \X DnsName)]
           /\ WithPtrs(ip, PtrsOf(ip) \ {<<ip, name>>}) \in [Authority -> SUBSET (Ip \X DnsName)]
  <1>1. CASE scan[ip] = None
    BY <1>1 DEF WithPtrs, TypeOK
  <1>2. CASE scan[ip] # None
    <2>1. reverseZones[scan[ip]] \in Authority
      BY <1>2, ScanFacts
    <2>2. PtrsOf(ip) = ptrs[reverseZones[scan[ip]]]
      BY <1>2 DEF PtrsOf
    <2> QED  BY <1>2, <2>1, <2>2 DEF WithPtrs, TypeOK
  <1> QED  BY <1>1, <1>2

\* Each section keeps the types of the maps and of todo.
LEMMA StoresTyped ==
    ASSUME WrapperTypeOK, Section
    PROVE  TypeOK' /\ todo' \in Seq(Sections)
  <1>1. TypeOK /\ todo \in Seq(Sections) /\ todo # <<>>
    BY DEF WrapperTypeOK, Section, Turn, AppendForward, AppendPtr, RemoveForward, RemovePtr, TakeOld, MoveNext,
           MoveEnds, InsertZone, DeleteZone, UpdateCatalog
  <1>2. /\ Now \in Sections
        /\ Tail(todo) \in Seq(Sections)
        /\ \A more \in Seq(Sections) : more \o Tail(todo) \in Seq(Sections)
    BY <1>1, NowTyped
  <1>3. <<>> \in Seq(Sections)
    OBVIOUS
  <1>4. \A x \in Sections : <<x>> \in Seq(Sections)
    OBVIOUS
  <1>5. CASE AppendForward
    <2>1. Now.name \in DnsName /\ Now.ip \in Ip
      BY <1>2, <1>5, SectionTypes DEF AppendForward, Turn
    <2>2. TypeOK'
      BY <1>1, <1>5, <2>1 DEF AppendForward, TypeOK, Pair, Registered
    <2>3. todo' \in Seq(Sections)
      BY <1>2, <1>3, <1>5 DEF AppendForward, Continue
    <2> QED  BY <2>2, <2>3
  <1>6. CASE AppendPtr
    <2>1. Now.name \in DnsName /\ Now.ip \in Ip
      BY <1>2, <1>6, SectionTypes DEF AppendPtr, Turn
    <2>2. TypeOK'
      BY <1>1, <1>6, <2>1, WithPtrsType DEF AppendPtr, TypeOK, Registered
    <2>3. todo' \in Seq(Sections)
      BY <1>2, <1>3, <1>6 DEF AppendPtr, Continue
    <2> QED  BY <2>2, <2>3
  <1>7. CASE RemoveForward
    <2>1. TypeOK'
      BY <1>1, <1>7 DEF RemoveForward, TypeOK, Registered
    <2>2. Now = [do |-> "remove", name |-> Now.name, ip |-> Now.ip] /\ Now.name \in DnsName /\ Now.ip \in Ip
      BY <1>2, <1>7, SectionTypes DEF RemoveForward, Turn
    <2>3. [Now EXCEPT !.do = "remove_ptr"] = [do |-> "remove_ptr", name |-> Now.name, ip |-> Now.ip]
      BY <2>2
    <2>4. [Now EXCEPT !.do = "remove_ptr"] \in Sections
      BY <2>2, <2>3, MoreTypes, ZenonT(30)
    <2>5. todo' \in Seq(Sections)
      BY <1>2, <1>3, <1>4, <1>7, <2>4 DEF RemoveForward, Continue
    <2> QED  BY <2>1, <2>5
  <1>8. CASE RemovePtr
    <2>1. Now.name \in DnsName /\ Now.ip \in Ip
      BY <1>2, <1>8, SectionTypes DEF RemovePtr, Turn
    <2>2. TypeOK'
      BY <1>1, <1>8, <2>1, WithPtrsType DEF RemovePtr, TypeOK, Registered
    <2>3. todo' \in Seq(Sections)
      BY <1>2, <1>3, <1>8 DEF RemovePtr, Continue
    <2> QED  BY <2>2, <2>3
  <1>9. CASE TakeOld
    <2>1. Now.old \in DnsName /\ Now.new \in DnsName /\ Now.of \in SUBSET Ip
      BY <1>2, <1>9, SectionTypes DEF TakeOld, Turn
    <2>2. TypeOK'
      BY <1>1, <1>9 DEF TakeOld, TypeOK, Registered
    <2>3. ASSUME NEW ips \in SUBSET Ip
          PROVE  [do |-> "move", old |-> Now.old, new |-> Now.new, ips |-> ips] \in Sections
      BY <2>1 DEF Sections
    <2>4. todo' \in Seq(Sections)
      <3> DEFINE ips == {ip \in Now.of : <<Now.old, ip>> \in fwd}
      <3>1. ips \in SUBSET Ip
        BY <2>1
      <3>2. Continue(<<[do |-> "move", old |-> Now.old, new |-> Now.new, ips |-> ips]>>)
        BY <1>9 DEF TakeOld
      <3> HIDE DEF ips
      <3> QED  BY <1>2, <1>4, <2>3, <3>1, <3>2 DEF Continue
    <2> QED  BY <2>2, <2>4
  <1>10. CASE MoveNext
    <2>1. /\ Now.old \in DnsName /\ Now.new \in DnsName /\ Now.ips \in SUBSET Ip
          /\ Now = [do |-> "move", old |-> Now.old, new |-> Now.new, ips |-> Now.ips]
      BY <1>2, <1>10, SectionTypes DEF MoveNext, Turn
    <2>2. PICK ip \in Now.ips :
              /\ Continue(UpsertSections(Now.new, ip) \o <<[Now EXCEPT !.ips = @ \ {ip}]>>)
              /\ ptrs' = WithPtrs(ip, PtrsOf(ip) \ {<<ip, Now.old>>})
      BY <1>10 DEF MoveNext
    <2>3. TypeOK'
      BY <1>1, <1>10, <2>1, <2>2, WithPtrsType DEF MoveNext, TypeOK, Registered
    <2>4. [Now EXCEPT !.ips = @ \ {ip}] \in Sections
      <3>1. [Now EXCEPT !.ips = @ \ {ip}] = [do |-> "move", old |-> Now.old, new |-> Now.new, ips |-> Now.ips \ {ip}]
        BY <2>1
      <3> QED  BY <2>1, <3>1 DEF Sections
    <2>5. UpsertSections(Now.new, ip) \o <<[Now EXCEPT !.ips = @ \ {ip}]>> \in Seq(Sections)
      BY <1>4, <2>1, <2>2, <2>4, MoreTypes, ConcatProperties
    <2> QED  BY <1>2, <2>2, <2>3, <2>5 DEF Continue
  <1>11. CASE MoveEnds
    BY <1>1, <1>2, <1>3, <1>11 DEF MoveEnds, Continue, stores, TypeOK, Registered
  <1>12. CASE InsertZone
    <2>1. Now.zone \in Zone
      BY <1>2, <1>12, SectionTypes DEF InsertZone, Turn
    <2>2. PICK a \in Fresh : /\ Continue(CatalogSection(Now.zone, a))
                             /\ reverseZones' = [reverseZones EXCEPT ![Now.zone] = a]
      BY <1>12 DEF InsertZone
    <2>3. a \in Authority
      BY <2>2 DEF Fresh
    <2>4. TypeOK'
      BY <1>1, <1>12, <2>1, <2>2, <2>3 DEF InsertZone, TypeOK
    <2>5. [do |-> "catalog", zone |-> Now.zone, authority |-> a] \in Sections
      BY <2>1, <2>3 DEF Sections
    <2> QED  BY <1>2, <1>4, <2>2, <2>4, <2>5 DEF Continue, CatalogSection
  <1>13. CASE DeleteZone
    <2>1. Now.zone \in Zone
      BY <1>2, <1>13, SectionTypes DEF DeleteZone, Turn
    <2>2. TypeOK'
      BY <1>1, <1>13, <2>1 DEF DeleteZone, TypeOK
    <2>3. [do |-> "catalog", zone |-> Now.zone, authority |-> None] \in Sections
      BY <2>1 DEF Sections
    <2> QED  BY <1>2, <1>4, <1>13, <2>2, <2>3 DEF DeleteZone, Continue, CatalogSection
  <1>14. CASE UpdateCatalog
    <2>1. Now.zone \in Zone /\ Now.authority \in Authority \cup {None}
      BY <1>2, <1>14, SectionTypes DEF UpdateCatalog, Turn
    <2>2. TypeOK'
      BY <1>1, <1>14, <2>1 DEF UpdateCatalog, TypeOK, Registered
    <2> QED  BY <1>2, <1>3, <1>14, <2>2 DEF UpdateCatalog, Continue
  <1> QED
    BY <1>5, <1>6, <1>7, <1>8, <1>9, <1>10, <1>11, <1>12, <1>13, <1>14 DEF Section

\* So does the start of each call.
LEMMA CallsTyped ==
    ASSUME WrapperTypeOK, Caller
    PROVE  TypeOK' /\ todo' \in Seq(Sections)
  <1>1. UNCHANGED stores
    BY DEF Caller, Add, RemoveAddress, RenameCall, RegisterZone, DeregisterZone, Call
  <1>2. TypeOK'
    BY <1>1 DEF WrapperTypeOK, TypeOK, stores, Registered
  <1>3. \A x \in Sections : <<x>> \in Seq(Sections)
    OBVIOUS
  <1>4. CASE \E name \in DnsName, ip \in Ip : Add(name, ip) \/ RemoveAddress(name, ip)
    BY <1>2, <1>3, <1>4, MoreTypes DEF Add, RemoveAddress, Call
  <1>5. CASE \E old, new \in DnsName : RenameCall(old, new)
    <2>1. PICK old \in DnsName, new \in DnsName : todo' = RenameSections(old, new)
      BY <1>5 DEF RenameCall, Call
    <2>2. /\ [do |-> "take", old |-> old, new |-> new, of |-> V4] \in Sections
          /\ [do |-> "take", old |-> old, new |-> new, of |-> Ip \ V4] \in Sections
      BY DEF Sections
    <2> QED  BY <1>2, <2>1, <2>2 DEF RenameSections
  <1>6. CASE \E z \in Zone : RegisterZone(z) \/ DeregisterZone(z)
    <2>1. PICK z \in Zone : todo' \in {ZoneSections("insert", z), ZoneSections("delete", z)}
      BY <1>6 DEF RegisterZone, DeregisterZone, Call
    <2>2. [do |-> "insert", zone |-> z] \in Sections /\ [do |-> "delete", zone |-> z] \in Sections
      BY DEF Sections
    <2> QED  BY <1>2, <1>3, <2>1, <2>2 DEF ZoneSections
  <1> QED  BY <1>4, <1>5, <1>6 DEF Caller

\* And with the history, each step keeps all types.
LEMMA WrapperTypeNext ==
    ASSUME WrapperTypeOK, [Next]_vars
    PROVE  WrapperTypeOK'
  <1>1. CASE UNCHANGED vars
    BY <1>1 DEF WrapperTypeOK, TypeOK, vars, stores, Registered
  <1>2. CASE Next
    <2>1. TypeOK' /\ todo' \in Seq(Sections)
      BY <1>2, StoresTyped, CallsTyped DEF Next
    <2>2. Current' \in [table : Table, catalog : SUBSET Zone]
      <3>1. ptrs' \in [Authority -> SUBSET (Ip \X DnsName)] /\ reverseZones' \in [Zone -> Authority \cup {None}] /\ fwd' \in SUBSET Pair
        BY <2>1 DEF TypeOK
      <3>2. Ptr' \in SUBSET Triple
        BY <3>1, PtrOfZones DEF Ptr, Registered
      <3>3. Registered' \in SUBSET Zone
        BY DEF Registered
      <3> QED  BY <3>1, <3>2, <3>3 DEF Current, Table, Triple
    <2>3. committed' \in [table : Table, catalog : SUBSET Zone]
      BY <1>2, <2>2 DEF Next, WrapperTypeOK
    <2> QED  BY <2>1, <2>3 DEF WrapperTypeOK
  <1> QED  BY <1>1, <1>2
-----------------------------------------------------------------------------
(***************************************************************************)
(* Which section comes next.                                               *)
(***************************************************************************)

\* While a call is in progress the only step is its next section.
LEMMA NextIsSection ==
    ASSUME Next, todo # <<>>
    PROVE  /\ committed' = IF todo' = <<>> THEN Current' ELSE committed
           /\ Now.do = "append" => AppendForward
           /\ Now.do = "append_ptr" => AppendPtr
           /\ Now.do = "remove" => RemoveForward
           /\ Now.do = "remove_ptr" => RemovePtr
           /\ Now.do = "take" => TakeOld
           /\ Now.do = "move" => MoveNext \/ MoveEnds
           /\ Now.do = "insert" => InsertZone
           /\ Now.do = "delete" => DeleteZone
           /\ Now.do = "catalog" => UpdateCatalog
  <1>1. Section
    BY DEF Next, Caller, Add, RemoveAddress, RenameCall, RegisterZone, DeregisterZone, Call
  <1> QED
    BY <1>1 DEF Next, Section, Turn, AppendForward, AppendPtr, RemoveForward, RemovePtr, TakeOld, MoveNext,
       MoveEnds, InsertZone, DeleteZone, UpdateCatalog

\* Between calls the only step is the start of one.
LEMMA NextIsCall ==
    ASSUME Next, todo = <<>>
    PROVE  Caller
  BY DEF Next, Section, Turn, AppendForward, AppendPtr, RemoveForward, RemovePtr, TakeOld, MoveNext,
     MoveEnds, InsertZone, DeleteZone, UpdateCatalog
-----------------------------------------------------------------------------
(***************************************************************************)
(* The sections left, in each of the places a call can be in.              *)
(***************************************************************************)
TakeSection(old, new, of) == [do |-> "take", old |-> old, new |-> new, of |-> of]
MoveSection(old, new, ips) == [do |-> "move", old |-> old, new |-> new, ips |-> ips]
AppendSection(name, ip) == [do |-> "append", name |-> name, ip |-> ip]

\* The two sections a rename begins with.
LEMMA RenameSectionsFacts ==
    ASSUME NEW old \in DnsName, NEW new \in DnsName
    PROVE  LET all == RenameSections(old, new)
           IN  /\ all \in Seq(Sections) /\ all # <<>> /\ Head(all) = TakeSection(old, new, V4)
               /\ Tail(all) \in Seq(Sections) /\ Tail(all) # <<>>
               /\ Head(Tail(all)) = TakeSection(old, new, Ip \ V4)
               /\ Tail(Tail(all)) = <<>>
               /\ <<>> \in Seq(Sections)
  <1>1. /\ TakeSection(old, new, V4) \in Sections
        /\ TakeSection(old, new, Ip \ V4) \in Sections
    BY DEF Sections, TakeSection
  <1>2. RenameSections(old, new) = <<TakeSection(old, new, V4), TakeSection(old, new, Ip \ V4)>>
    BY DEF RenameSections, TakeSection
  <1> QED  BY <1>1, <1>2

\* What a move leaves, in front of the rest of the rename.
LEMMA MovingFacts ==
    ASSUME NEW old \in DnsName, NEW new \in DnsName, NEW left \in SUBSET Ip, NEW rest \in Seq(Sections)
    PROVE  /\ MoveSection(old, new, left) \in Sections
           /\ Moving(old, new, left, rest) \in Seq(Sections)
           /\ Moving(old, new, left, rest) # <<>>
           /\ Head(Moving(old, new, left, rest)) = MoveSection(old, new, left)
           /\ Tail(Moving(old, new, left, rest)) = rest
  <1>1. MoveSection(old, new, left) \in Sections
    BY DEF Sections, MoveSection
  <1>2. Moving(old, new, left, rest) = <<MoveSection(old, new, left)>> \o rest
    BY DEF Moving, MoveSection
  <1> HIDE DEF MoveSection, Sections
  <1> QED  BY <1>1, <1>2, Front

\* The upsert of an address that a rename moves, in front of the rest.
LEMMA UpsertingFacts ==
    ASSUME NEW name \in DnsName, NEW ip \in Ip, NEW rest \in Seq(Sections)
    PROVE  /\ UpsertSections(name, ip) \o rest \in Seq(Sections)
           /\ UpsertSections(name, ip) \o rest # <<>>
           /\ Head(UpsertSections(name, ip) \o rest) = AppendSection(name, ip)
           /\ Tail(UpsertSections(name, ip) \o rest) = <<AppendPtrSection(name, ip)>> \o rest
           /\ <<AppendPtrSection(name, ip)>> \o rest \in Seq(Sections)
           /\ <<AppendPtrSection(name, ip)>> \o rest # <<>>
           /\ Head(<<AppendPtrSection(name, ip)>> \o rest) = AppendPtrSection(name, ip)
           /\ Tail(<<AppendPtrSection(name, ip)>> \o rest) = rest
  <1>1. AppendSection(name, ip) \in Sections /\ AppendPtrSection(name, ip) \in Sections
    BY MoreTypes DEF AppendSection, AppendPtrSection
  <1>2. UpsertSections(name, ip) = <<AppendSection(name, ip), AppendPtrSection(name, ip)>>
    BY DEF UpsertSections, AppendSection, AppendPtrSection
  <1> DEFINE first == AppendSection(name, ip)
             second == AppendPtrSection(name, ip)
  <1>3. first \in Sections /\ second \in Sections
    BY <1>1
  <1> HIDE DEF first, second
  <1>4. /\ <<second>> \o rest \in Seq(Sections)
        /\ <<second>> \o rest # <<>>
        /\ Head(<<second>> \o rest) = second
        /\ Tail(<<second>> \o rest) = rest
    BY <1>3, Front
  <1>5. /\ <<first, second>> \o rest \in Seq(Sections)
        /\ <<first, second>> \o rest # <<>>
        /\ Head(<<first, second>> \o rest) = first
        /\ Tail(<<first, second>> \o rest) = <<second>> \o rest
    BY <1>3, FrontTwo
  <1> QED  BY <1>2, <1>4, <1>5 DEF first, second

\* The places of a rename, each with the section that comes next.
LEMMA RenamesPlaces ==
    ASSUME NEW old \in DnsName, NEW new \in DnsName, NEW taken \in SUBSET Ip, NEW rest \in Seq(Sections),
           rest # <<>> => Head(rest).do = "take",
           Renames(old, new, rest, taken)
    PROVE  todo # <<>> /\ Now.do \in {"take", "move", "append", "append_ptr"}
  <1>1. CASE todo = rest /\ rest # <<>>
    BY <1>1 DEF Now
  <1>2. ASSUME NEW left \in SUBSET taken, todo = Moving(old, new, left, rest)
        PROVE  todo # <<>> /\ Now.do = "move"
    <2>1. todo # <<>> /\ Now = MoveSection(old, new, left)
      BY <1>2, MovingFacts DEF Now
    <2> QED  BY <2>1 DEF MoveSection
  <1>3. ASSUME NEW left \in SUBSET taken, NEW ip \in taken, todo = UpsertSections(new, ip) \o Moving(old, new, left, rest)
        PROVE  todo # <<>> /\ Now.do = "append"
    <2>1. Moving(old, new, left, rest) \in Seq(Sections)
      BY MovingFacts
    <2>2. todo # <<>> /\ Now = AppendSection(new, ip)
      BY <1>3, <2>1, UpsertingFacts DEF Now
    <2> QED  BY <2>2 DEF AppendSection
  <1>4. ASSUME NEW left \in SUBSET taken, NEW ip \in taken, todo = <<AppendPtrSection(new, ip)>> \o Moving(old, new, left, rest)
        PROVE  todo # <<>> /\ Now.do = "append_ptr"
    <2>1. Moving(old, new, left, rest) \in Seq(Sections)
      BY MovingFacts
    <2>2. Now = AppendPtrSection(new, ip) /\ todo # <<>>
      BY <1>4, <2>1, UpsertingFacts DEF Now
    <2> QED  BY <2>2 DEF AppendPtrSection
  <1> QED  BY <1>1, <1>2, <1>3, <1>4 DEF Renames

\* The same for all that a rename takes, IPv4 and IPv6.
LEMMA RenamedPlaces ==
    ASSUME NEW old \in DnsName, NEW new \in DnsName, Renamed(old, new)
    PROVE  todo # <<>> /\ Now.do \in {"take", "move", "append", "append_ptr"}
  <1> DEFINE ips == AddressesOf(committed.table, old)
             all == RenameSections(old, new)
  <1>1. ips \in SUBSET Ip /\ ips \cap V4 \in SUBSET Ip /\ {} \in SUBSET Ip
    BY DEF AddressesOf
  <1>2. /\ all \in Seq(Sections) /\ (all # <<>> => Head(all).do = "take")
        /\ Tail(all) \in Seq(Sections) /\ (Tail(all) # <<>> => Head(Tail(all)).do = "take")
        /\ <<>> \in Seq(Sections)
    BY RenameSectionsFacts DEF TakeSection
  <1>3. Renames(old, new, all, {}) \/ Renames(old, new, Tail(all), ips \cap V4) \/ Renames(old, new, <<>>, ips)
    BY DEF Renamed
  <1> HIDE DEF ips, all
  <1>4. CASE Renames(old, new, all, {})
    BY <1>1, <1>2, <1>4, RenamesPlaces
  <1>5. CASE Renames(old, new, Tail(all), ips \cap V4)
    BY <1>1, <1>2, <1>5, RenamesPlaces
  <1>6. CASE Renames(old, new, <<>>, ips)
    BY <1>1, <1>2, <1>6, RenamesPlaces
  <1> QED  BY <1>3, <1>4, <1>5, <1>6

\* The places of the other calls.
LEMMA OtherPlaces ==
    /\ \A name, ip : Adding(name, ip) => todo # <<>> /\ Now.do \in {"append", "append_ptr"}
    /\ \A name, ip : Removing(name, ip) => todo # <<>> /\ Now.do \in {"remove", "remove_ptr"}
    /\ \A z : Zoning(z) => todo # <<>> /\ Now.zone = z /\ Now.do \in {"insert", "delete", "catalog"}
  <1>1. ASSUME NEW name, NEW ip, Adding(name, ip)
        PROVE  todo # <<>> /\ Now.do \in {"append", "append_ptr"}
    BY <1>1 DEF Adding, UpsertSections, AppendPtrSection, Now
  <1>2. ASSUME NEW name, NEW ip, Removing(name, ip)
        PROVE  todo # <<>> /\ Now.do \in {"remove", "remove_ptr"}
    BY <1>2 DEF Removing, Now
  <1>3. ASSUME NEW z, Zoning(z)
        PROVE  todo # <<>> /\ Now.zone = z /\ Now.do \in {"insert", "delete", "catalog"}
    BY <1>3 DEF Zoning, ZoneSections, CatalogSection, Now
  <1> QED  BY <1>1, <1>2, <1>3

\* What a section that is not about zones finds, and what those do that are.
LEMMA ZonePlaces ==
    ASSUME CallInv
    PROVE  /\ todo = <<>> => Unchanged
           /\ todo # <<>> /\ Now.do \in {"insert", "delete"} => \E z \in Zone : Zoning(z) /\ z = Now.zone /\ Unchanged
           /\ todo # <<>> /\ Now.do = "catalog" =>
                /\ reverseZones = [catalog EXCEPT ![Now.zone] = Now.authority]
                /\ Now.zone \in Zone /\ todo = <<Now>> /\ Zoning(Now.zone)
           /\ todo # <<>> /\ Now.do # "catalog" => catalog = reverseZones /\ Registered = committed.table.zones
  <1>1. CASE todo = <<>> /\ Unchanged
    BY <1>1
  <1>2. CASE \E name \in DnsName, ip \in Ip : Adding(name, ip)
    <2>1. PICK name \in DnsName, ip \in Ip : Adding(name, ip)
      BY <1>2
    <2>2. todo # <<>> /\ Now.do \in {"append", "append_ptr"}
      BY <2>1, OtherPlaces
    <2>3. catalog = reverseZones /\ Registered = committed.table.zones
      BY <2>1 DEF Adding, Unchanged, Made
    <2> QED  BY <2>2, <2>3
  <1>3. CASE \E name \in DnsName, ip \in Ip : Removing(name, ip)
    <2>1. PICK name \in DnsName, ip \in Ip : Removing(name, ip)
      BY <1>3
    <2>2. todo # <<>> /\ Now.do \in {"remove", "remove_ptr"}
      BY <2>1, OtherPlaces
    <2>3. catalog = reverseZones /\ Registered = committed.table.zones
      BY <2>1 DEF Removing, Unchanged, Made
    <2> QED  BY <2>2, <2>3
  <1>4. CASE \E old, new \in DnsName : Renamed(old, new)
    <2>1. PICK old \in DnsName, new \in DnsName : Renamed(old, new)
      BY <1>4
    <2>2. todo # <<>> /\ Now.do \in {"take", "move", "append", "append_ptr"}
      BY <2>1, RenamedPlaces
    <2>3. catalog = reverseZones /\ Registered = committed.table.zones
      BY <2>1 DEF Renamed, Renames, Moved, Made
    <2> QED  BY <2>2, <2>3
  <1>5. CASE \E z \in Zone : Zoning(z)
    <2>1. PICK z \in Zone : Zoning(z)
      BY <1>5
    <2>2. todo # <<>> /\ Now.zone = z /\ Now.do \in {"insert", "delete", "catalog"}
      BY <2>1, OtherPlaces
    <2>3. CASE todo \in {ZoneSections("insert", z), ZoneSections("delete", z)} /\ Unchanged
      <3>1. Now.do \in {"insert", "delete"}
        BY <2>3 DEF ZoneSections, Now
      <3>2. catalog = reverseZones /\ Registered = committed.table.zones
        BY <2>3 DEF Unchanged, Made
      <3>3. \E y \in Zone : Zoning(y) /\ y = Now.zone /\ Unchanged
        BY <2>1, <2>2, <2>3
      <3>4. Now.do # "catalog"
        BY <3>1
      <3> QED  BY <2>2, <3>2, <3>3, <3>4
    <2>4. ASSUME NEW a, todo = CatalogSection(z, a), reverseZones = [catalog EXCEPT ![z] = a]
          PROVE  /\ Now.do = "catalog" /\ todo = <<Now>>
                 /\ reverseZones = [catalog EXCEPT ![Now.zone] = Now.authority]
      <3> DEFINE x == [do |-> "catalog", zone |-> z, authority |-> a]
      <3>1. todo = <<x>>
        BY <2>4 DEF CatalogSection
      <3>2. x.do = "catalog" /\ x.zone = z /\ x.authority = a
        OBVIOUS
      <3> HIDE DEF x
      <3>3. Now = x
        BY <3>1 DEF Now
      <3> QED  BY <2>4, <3>1, <3>2, <3>3
    <2> QED  BY <2>1, <2>2, <2>3, <2>4 DEF Zoning
  <1> QED  BY <1>1, <1>2, <1>3, <1>4, <1>5 DEF CallInv

\* No authority is shared, and those that are free are empty.
LEMMA AuthoritiesNext ==
    ASSUME WrapperInv, [Next]_vars
    PROVE  AuthoritiesInv'
  <1>1. TypeOK /\ todo \in Seq(Sections) /\ AuthoritiesInv /\ CallInv
    BY DEF WrapperInv, WrapperTypeOK
  <1>2. CASE UNCHANGED stores
    BY <1>1, <1>2 DEF stores, AuthoritiesInv, Fresh
  <1>3. CASE Next /\ todo # <<>>
    <2>1. Now \in Sections
      BY <1>1, <1>3, NowTyped
    <2>2. CASE UNCHANGED <<reverseZones, ptrs, catalog>>
      BY <1>1, <2>2 DEF AuthoritiesInv, Fresh
    <2>3. ASSUME NEW ip \in Ip, NEW records, ptrs' = WithPtrs(ip, records), UNCHANGED <<reverseZones, catalog>>
          PROVE  AuthoritiesInv'
      <3>1. \A a \in Fresh : ptrs'[a] = ptrs[a]
        <4>1. CASE scan[ip] = None
          BY <2>3, <4>1 DEF WithPtrs
        <4>2. CASE scan[ip] # None
          <5>1. scan[ip] \in Zone
            BY <1>1, <4>2, ScanFacts
          <5>2. \A a \in Fresh : a # reverseZones[scan[ip]] /\ a \in Authority
            BY <5>1 DEF Fresh
          <5> QED  BY <1>1, <2>3, <4>2, <5>2 DEF WithPtrs, TypeOK
        <4> QED  BY <4>1, <4>2
      <3>2. Fresh' = Fresh
        BY <2>3 DEF Fresh
      <3> QED  BY <1>1, <2>3, <3>1, <3>2 DEF AuthoritiesInv
    <2>4. CASE AppendPtr
      BY <2>1, <2>3, <2>4, SectionTypes DEF AppendPtr, Turn
    <2>5. CASE RemovePtr
      BY <2>1, <2>3, <2>5, SectionTypes DEF RemovePtr, Turn
    <2>6. CASE MoveNext
      <3>1. Now.ips \in SUBSET Ip
        BY <2>1, <2>6, SectionTypes DEF MoveNext, Turn
      <3>2. PICK ip \in Now.ips : ptrs' = WithPtrs(ip, PtrsOf(ip) \ {<<ip, Now.old>>})
        BY <2>6 DEF MoveNext
      <3> QED  BY <2>3, <2>6, <3>1, <3>2 DEF MoveNext
    <2>7. ASSUME NEW z \in Zone, NEW a \in Fresh \cup {None}, UNCHANGED <<ptrs, catalog>>,
                 catalog = reverseZones, reverseZones' = [reverseZones EXCEPT ![z] = a]
          PROVE  AuthoritiesInv'
      <3>1. \A y \in Zone : reverseZones'[y] = IF y = z THEN a ELSE catalog[y]
        BY <1>1, <2>7 DEF TypeOK
      <3>2. \A y \in Zone : a # None => catalog[y] # a
        BY DEF Fresh
      <3>3. Fresh' \subseteq Fresh
        BY <2>7, <3>1 DEF Fresh
      <3> QED  BY <1>1, <2>7, <3>1, <3>2, <3>3 DEF AuthoritiesInv
    <2>8. CASE InsertZone
      <3>1. Now.do = "insert" /\ UNCHANGED <<ptrs, catalog>>
        BY <2>8 DEF InsertZone, Turn
      <3>2. catalog = reverseZones
        BY <1>1, <1>3, <3>1, ZonePlaces
      <3>3. Now.zone \in Zone
        BY <2>1, <3>1, SectionTypes
      <3> QED  BY <2>7, <2>8, <3>1, <3>2, <3>3 DEF InsertZone
    <2>9. CASE DeleteZone
      <3>1. Now.do = "delete" /\ UNCHANGED <<ptrs, catalog>>
        BY <2>9 DEF DeleteZone, Turn
      <3>2. catalog = reverseZones
        BY <1>1, <1>3, <3>1, ZonePlaces
      <3>3. Now.zone \in Zone
        BY <2>1, <3>1, SectionTypes
      <3> QED  BY <2>7, <2>9, <3>1, <3>2, <3>3 DEF DeleteZone
    <2>10. CASE UpdateCatalog
      <3>1. Now.do = "catalog" /\ UNCHANGED reverseZones /\ catalog' = [catalog EXCEPT ![Now.zone] = Now.authority]
            /\ ptrs' = [a \in Authority |-> IF a = catalog[Now.zone] THEN {} ELSE ptrs[a]]
        BY <2>10 DEF UpdateCatalog, Turn
      <3>2. Now.zone \in Zone /\ reverseZones = [catalog EXCEPT ![Now.zone] = Now.authority]
        BY <1>1, <1>3, <3>1, ZonePlaces
      <3>3. catalog' = reverseZones
        BY <3>1, <3>2
      <3>4. ASSUME NEW a \in Fresh' PROVE ptrs'[a] = {}
        <4>1. a \in Authority /\ \A y \in Zone : a # reverseZones[y]
          BY <3>1 DEF Fresh
        <4>2. CASE a = catalog[Now.zone]
          BY <3>1, <4>1, <4>2
        <4>3. CASE a # catalog[Now.zone]
          <5>1. \A y \in Zone : a # catalog[y]
            BY <1>1, <3>2, <4>1, <4>3 DEF TypeOK
          <5>2. a \in Fresh
            BY <4>1, <5>1 DEF Fresh
          <5> QED  BY <1>1, <3>1, <4>1, <4>3, <5>2 DEF AuthoritiesInv
        <4> QED  BY <4>2, <4>3
      <3>5. \A y, z \in Zone : reverseZones[y] = reverseZones[z] => y = z \/ reverseZones[y] = None
        BY <1>1 DEF AuthoritiesInv
      <3> QED  BY <3>1, <3>3, <3>4, <3>5, ZenonT(30) DEF AuthoritiesInv
    <2>11. CASE AppendForward \/ RemoveForward \/ TakeOld \/ MoveEnds
      BY <2>2, <2>11 DEF AppendForward, RemoveForward, TakeOld, MoveEnds, stores
    <2>12. Section
      BY <1>3, NextIsSection DEF Next, Caller, Add, RemoveAddress, RenameCall, RegisterZone, DeregisterZone, Call
    <2> QED  BY <2>4, <2>5, <2>6, <2>8, <2>9, <2>10, <2>11, <2>12 DEF Section
  <1>4. CASE Next /\ todo = <<>>
    <2>1. UNCHANGED stores
      BY <1>4, NextIsCall DEF Caller, Add, RemoveAddress, RenameCall, RegisterZone, DeregisterZone, Call
    <2> QED  BY <1>2, <2>1
  <1> QED  BY <1>2, <1>3, <1>4 DEF vars
-----------------------------------------------------------------------------
(***************************************************************************)
(* What the calls of RecordTable yield for the zones that the scan finds.  *)
(***************************************************************************)
LEMMA TableFields ==
    ASSUME NEW t \in Table, NEW f, NEW p
    PROVE  [t EXCEPT !.fwd = f, !.ptr = p] = [fwd |-> f, zones |-> t.zones, ptr |-> p]
  <1> DEFINE u == [t EXCEPT !.fwd = f, !.ptr = p]
             v == [fwd |-> f, zones |-> t.zones, ptr |-> p]
  <1>1. DOMAIN t = {"fwd", "zones", "ptr"} /\ t = [x \in DOMAIN t |-> t[x]]
    BY DEF Table
  <1>2. DOMAIN u = {"fwd", "zones", "ptr"} /\ u = [x \in DOMAIN u |-> u[x]]
    BY <1>1
  <1>3. DOMAIN v = {"fwd", "zones", "ptr"} /\ v = [x \in DOMAIN v |-> v[x]]
    OBVIOUS
  <1>4. u["fwd"] = v["fwd"] /\ u["zones"] = v["zones"] /\ u["ptr"] = v["ptr"]
    BY <1>1
  <1> HIDE DEF u, v
  <1>5. u = v
    BY <1>2, <1>3, <1>4
  <1> QED  BY <1>5 DEF u, v

\* What Upsert makes of a table, with the zone that the scan finds.
LEMMA UpsertResult ==
    ASSUME TypeOK, NEW t \in Table, t.zones = Registered, NEW name \in DnsName, NEW ip \in Ip
    PROVE  \E f \in Finders(t, {ip}) : Upsert(t, f, {<<name, ip>>}) =
             [fwd |-> t.fwd \cup {<<name, ip>>}, zones |-> t.zones, ptr |-> t.ptr \cup PtrAt(name, {ip})]
  <1>1. PICK f \in Finders(t, {ip}) : Agrees(f, {ip})
    BY ScanIsFinder
  <1>2. PtrOf(f, {name} \X {ip}) = PtrAt(name, {ip})
    BY <1>1 DEF Agrees
  <1>3. {name} \X {ip} = {<<name, ip>>}
    OBVIOUS
  <1>4. Upsert(t, f, {<<name, ip>>}) =
             [fwd |-> t.fwd \cup {<<name, ip>>}, zones |-> t.zones, ptr |-> t.ptr \cup PtrAt(name, {ip})]
    <2> DEFINE pair == {<<name, ip>>}
               q    == t.ptr \cup PtrOf(f, pair)
    <2>1. q = t.ptr \cup PtrAt(name, {ip})
      BY <1>2, <1>3
    <2>2. Upsert(t, f, pair) = [t EXCEPT !.fwd = t.fwd \cup pair, !.ptr = q]
      BY DEF Upsert
    <2> HIDE DEF q, pair
    <2>3. Upsert(t, f, pair) = [fwd |-> t.fwd \cup pair, zones |-> t.zones, ptr |-> q]
      BY <2>2, TableFields
    <2> QED  BY <2>1, <2>3 DEF pair
  <1> QED  BY <1>1, <1>4

\* What RemoveAddresses makes of it; some is what the table has of the pair.
LEMMA RemoveResult ==
    ASSUME TypeOK, NEW t \in Table, t.zones = Registered, NEW name \in DnsName, NEW ip \in Ip,
           NEW some \in SUBSET {ip}, {<<name, ip>>} \cap t.fwd = {name} \X some
    PROVE  \E f \in Finders(t, {ip}) : RemoveAddresses(t, f, {<<name, ip>>}) =
             [fwd |-> t.fwd \ ({name} \X some), zones |-> t.zones, ptr |-> t.ptr \ PtrAt(name, some)]
  <1>1. PICK f \in Finders(t, {ip}) : Agrees(f, {ip})
    BY ScanIsFinder
  <1>2. PtrOf(f, {name} \X some) = PtrAt(name, some)
    BY <1>1 DEF Agrees
  <1>3. RemoveAddresses(t, f, {<<name, ip>>}) =
             [fwd |-> t.fwd \ ({name} \X some), zones |-> t.zones, ptr |-> t.ptr \ PtrAt(name, some)]
    <2> DEFINE hit == {<<name, ip>>} \cap t.fwd
               q   == t.ptr \ PtrOf(f, hit)
    <2>1. hit = {name} \X some /\ q = t.ptr \ PtrAt(name, some)
      BY <1>2
    <2>2. RemoveAddresses(t, f, {<<name, ip>>}) = [t EXCEPT !.fwd = t.fwd \ hit, !.ptr = q]
      BY DEF RemoveAddresses
    <2> HIDE DEF q, hit
    <2>3. RemoveAddresses(t, f, {<<name, ip>>}) = [fwd |-> t.fwd \ hit, zones |-> t.zones, ptr |-> q]
      BY <2>2, TableFields
    <2> QED  BY <2>1, <2>3
  <1> QED  BY <1>1, <1>3

\* What Rename makes of it.
LEMMA RenameResult ==
    ASSUME TypeOK, NEW t \in Table, t.zones = Registered, NEW old \in DnsName, NEW new \in DnsName
    PROVE  \E f \in Finders(t, AddressesOf(t, old)) :
             LET ips == AddressesOf(t, old)
             IN  Rename(t, f, old, new) =
                   [fwd |-> (t.fwd \ ({old} \X ips)) \cup ({new} \X ips), zones |-> t.zones,
                    ptr |-> (t.ptr \ PtrAt(old, ips)) \cup PtrAt(new, ips)]
  <1> DEFINE ips == AddressesOf(t, old)
  <1>1. ips \in SUBSET Ip
    BY DEF AddressesOf
  <1>2. PICK f \in Finders(t, ips) : Agrees(f, ips)
    BY <1>1, ScanIsFinder
  <1>3. PtrOf(f, {old} \X ips) = PtrAt(old, ips) /\ PtrOf(f, {new} \X ips) = PtrAt(new, ips)
    BY <1>2 DEF Agrees
  <1>4. Rename(t, f, old, new) =
                   [fwd |-> (t.fwd \ ({old} \X ips)) \cup ({new} \X ips), zones |-> t.zones,
                    ptr |-> (t.ptr \ PtrAt(old, ips)) \cup PtrAt(new, ips)]
    <2> DEFINE from == {old} \X ips
               to   == {new} \X ips
               q    == (t.ptr \ PtrOf(f, from)) \cup PtrOf(f, to)
    <2>1. q = (t.ptr \ PtrAt(old, ips)) \cup PtrAt(new, ips)
      BY <1>3
    <2>2. Rename(t, f, old, new) = [t EXCEPT !.fwd = (t.fwd \ from) \cup to, !.ptr = q]
      BY DEF Rename
    <2> HIDE DEF q, from, to
    <2>3. Rename(t, f, old, new) = [fwd |-> (t.fwd \ from) \cup to, zones |-> t.zones, ptr |-> q]
      BY <2>2, TableFields
    <2> QED  BY <2>1, <2>3 DEF from, to
  <1> QED  BY <1>2, <1>4

\* The PTR records of a name, address by address.
LEMMA PtrAtNone ==
    ASSUME NEW name
    PROVE  PtrAt(name, {}) = {}
  BY DEF PtrAt, PtrOf

\* The PTR records of one address more.
LEMMA PtrAtMore ==
    ASSUME TypeOK, NEW name \in DnsName, NEW ips \in SUBSET Ip, NEW ip \in Ip
    PROVE  PtrAt(name, ips \cup {ip}) = PtrAt(name, ips) \cup PtrAt(name, {ip})
  <1>1. PtrAt(name, ips \cup {ip}) = {r \in Triple : r[3] = name /\ r[2] \in ips \cup {ip} /\ scan[r[2]] = r[1]}
    BY PtrAtFacts
  <1>2. PtrAt(name, {ip}) = {r \in Triple : r[3] = name /\ r[2] \in {ip} /\ scan[r[2]] = r[1]}
    BY PtrAtFacts
  <1> QED  BY <1>1, <1>2, PtrAtFacts

\* PTR records of different addresses are different.
LEMMA PtrAtApart ==
    ASSUME TypeOK, NEW name \in DnsName, NEW ips \in SUBSET Ip, NEW ip \in Ip, ip \notin ips,
           NEW other \in DnsName
    PROVE  PtrAt(other, ips) \cap PtrAt(name, {ip}) = {}
  <1>1. PtrAt(name, {ip}) = {r \in Triple : r[3] = name /\ r[2] \in {ip} /\ scan[r[2]] = r[1]}
    BY PtrAtFacts
  <1> QED  BY <1>1, PtrAtFacts

\* PtrAt depends on the scan only.
LEMMA PtrAtStable ==
    ASSUME scan' = scan
    PROVE  \A name, ips : PtrAt(name, ips)' = PtrAt(name, ips)
  BY DEF PtrAt

\* The operators of RecordCalls are those of RecordTable.
LEMMA CallsOperators ==
    /\ \A t, ips : Calls!Finders(t, ips) = Finders(t, ips)
    /\ \A t, f, pairs : Calls!Upsert(t, f, pairs) = Upsert(t, f, pairs)
    /\ \A t, f, pairs : Calls!RemoveAddresses(t, f, pairs) = RemoveAddresses(t, f, pairs)
    /\ \A t, f, old, new : Calls!Rename(t, f, old, new) = Rename(t, f, old, new)
    /\ \A t, name : Calls!AddressesOf(t, name) = AddressesOf(t, name)
    /\ \A t, zs : Calls!AddReverseZones(t, zs) = AddReverseZones(t, zs)
    /\ \A t, zs : Calls!RemoveReverseZones(t, zs) = RemoveReverseZones(t, zs)
  BY DEF Calls!Finders, Finders, Calls!Matches, Matches, Calls!Upsert, Upsert, Calls!RemoveAddresses, RemoveAddresses,
         Calls!Rename, Rename, Calls!AddressesOf, AddressesOf, Calls!AddReverseZones, AddReverseZones,
         Calls!RemoveReverseZones, RemoveReverseZones, Calls!PtrOf, PtrOf
-----------------------------------------------------------------------------
(***************************************************************************)
(* Each section takes the call on to its next place, or ends it as the     *)
(* step of RecordCalls.                                                    *)
(***************************************************************************)
CallStep == [Calls!Next]_(Calls!vars)

\* Between calls nothing is left to do, and both maps name the same zones.
LEMMA CallEnded ==
    ASSUME todo' = <<>>, committed' = Current', catalog' = reverseZones'
    PROVE  CallInv'
  <1>1. /\ Current'.table.fwd = fwd' /\ Current'.table.ptr = Ptr' /\ Current'.table.zones = Registered'
    BY DEF Current
  <1>2. Unchanged'
    BY <1>1 DEF Unchanged, Made
  <1> QED  BY <1>2 DEF CallInv

\* A section that leaves the zones alone and does not end the call.
LEMMA CallGoesOn ==
    ASSUME CallInv, UNCHANGED <<catalog, committed>>
    PROVE  committed'.catalog = Current'.catalog /\ CallStep
  <1>1. committed.catalog = Current.catalog
    BY DEF CallInv
  <1>2. Current.catalog = {z \in Zone : catalog[z] # None} /\ Current'.catalog = {z \in Zone : catalog'[z] # None}
    BY DEF Current
  <1> QED  BY <1>1, <1>2 DEF CallStep, Calls!vars

\* What RecordCalls makes of a table that is written field by field.
LEMMA Committed ==
    ASSUME committed' = Current', Registered' = committed.table.zones, CallInv, UNCHANGED catalog
    PROVE  /\ committed'.table = [fwd |-> fwd', zones |-> committed.table.zones, ptr |-> Ptr']
           /\ committed'.catalog = committed.catalog
  <1>1. committed.catalog = {z \in Zone : catalog[z] # None}
    BY DEF CallInv, Current
  <1>2. Current'.table = [fwd |-> fwd', zones |-> Registered', ptr |-> Ptr']
        /\ Current'.catalog = {z \in Zone : catalog'[z] # None}
    BY DEF Current
  <1> QED  BY <1>1, <1>2

\* add: a section of it leads to its next place, or ends it as Calls!Add.
LEMMA AddingNext ==
    ASSUME WrapperInv, WrapperTypeOK', Next, NEW name \in DnsName, NEW ip \in Ip, Adding(name, ip)
    PROVE  CallInv' /\ CallStep
  <1> DEFINE c == committed.table
             pair == {<<name, ip>>}
  <1>1. TypeOK /\ TypeOK' /\ AuthoritiesInv /\ CallInv /\ c \in Table
    BY DEF WrapperInv, WrapperTypeOK
  <1>2. CASE todo = UpsertSections(name, ip) /\ Unchanged
    <2>1. todo # <<>> /\ Now = AppendSection(name, ip) /\ Tail(todo) = <<AppendPtrSection(name, ip)>>
      BY <1>2 DEF UpsertSections, AppendSection, AppendPtrSection, Now
    <2>2. Now.do = "append" /\ Now.name = name /\ Now.ip = ip
      BY <2>1 DEF AppendSection
    <2>3. AppendForward /\ committed' = IF todo' = <<>> THEN Current' ELSE committed
      BY <2>1, <2>2, NextIsSection
    <2>4. todo' = <<AppendPtrSection(name, ip)>> /\ todo' # <<>>
      BY <2>1, <2>3 DEF AppendForward, Continue
    <2>5. /\ fwd' = fwd \cup pair /\ committed' = committed
          /\ UNCHANGED <<reverseZones, scan, ptrs, catalog>>
      BY <2>2, <2>3, <2>4 DEF AppendForward
    <2>6. Ptr' = Ptr /\ Registered' = Registered
      BY <2>5 DEF Ptr, Registered
    <2>7. Made(c.fwd \cup pair, c.ptr)'
      BY <1>2, <2>5, <2>6 DEF Made, Unchanged
    <2>8. Adding(name, ip)'
      BY <2>4, <2>7 DEF Adding
    <2>9. committed'.catalog = Current'.catalog /\ CallStep
      BY <1>1, <2>5, CallGoesOn
    <2> QED  BY <2>8, <2>9 DEF CallInv
  <1>3. CASE todo = <<AppendPtrSection(name, ip)>> /\ Made(c.fwd \cup pair, c.ptr)
    <2>1. todo # <<>> /\ Now = AppendPtrSection(name, ip) /\ Tail(todo) = <<>>
      BY <1>3 DEF Now
    <2>2. Now.do = "append_ptr" /\ Now.name = name /\ Now.ip = ip
      BY <2>1 DEF AppendPtrSection
    <2>3. AppendPtr /\ committed' = IF todo' = <<>> THEN Current' ELSE committed
      BY <2>1, <2>2, NextIsSection
    <2>4. todo' = <<>>
      BY <2>1, <2>3 DEF AppendPtr, Continue
    <2>5. /\ ptrs' = WithPtrs(ip, PtrsOf(ip) \cup {<<ip, name>>}) /\ committed' = Current'
          /\ UNCHANGED <<fwd, reverseZones, scan, catalog>>
      BY <2>2, <2>3, <2>4 DEF AppendPtr
    <2>6. Ptr' = Ptr \cup PtrAt(name, {ip}) /\ Registered' = Registered
      BY <1>1, <2>5, PtrWritten DEF Registered
    <2>7. /\ fwd' = c.fwd \cup pair /\ Ptr' = c.ptr \cup PtrAt(name, {ip}) /\ Registered = c.zones /\ Registered' = c.zones
          /\ catalog' = reverseZones'
      BY <1>3, <2>5, <2>6 DEF Made
    <2>8. CallInv'
      BY <2>4, <2>5, <2>7, CallEnded
    <2>9. /\ committed'.table = [fwd |-> c.fwd \cup pair, zones |-> c.zones, ptr |-> c.ptr \cup PtrAt(name, {ip})]
          /\ committed'.catalog = committed.catalog
      BY <1>1, <2>5, <2>7, Committed
    <2>10. \E f \in Finders(c, {ip}) : committed'.table = Upsert(c, f, pair)
      <3>1. PICK f \in Finders(c, {ip}) : Upsert(c, f, pair) =
               [fwd |-> c.fwd \cup pair, zones |-> c.zones, ptr |-> c.ptr \cup PtrAt(name, {ip})]
        BY <1>1, <2>7, UpsertResult
      <3> QED  BY <2>9, <3>1
    <2>11. Calls!Add(name, ip)
      BY <2>9, <2>10, CallsOperators DEF Calls!Add
    <2> QED  BY <2>8, <2>11 DEF CallStep, Calls!Next
  <1> QED  BY <1>2, <1>3 DEF Adding

\* remove_address: the same, with Calls!Remove.
LEMMA RemovingNext ==
    ASSUME WrapperInv, WrapperTypeOK', Next, NEW name \in DnsName, NEW ip \in Ip, Removing(name, ip)
    PROVE  CallInv' /\ CallStep
  <1> DEFINE c == committed.table
             pair == {<<name, ip>>}
             some == {i \in {ip} : <<name, i>> \in c.fwd}
             hit == {name} \X some
             x(do) == [do |-> do, name |-> name, ip |-> ip]
  <1>1. TypeOK /\ TypeOK' /\ AuthoritiesInv /\ CallInv /\ c \in Table
    BY DEF WrapperInv, WrapperTypeOK
  <1>2. ASSUME committed' = Current', fwd' = c.fwd \ hit, Ptr' = c.ptr \ PtrAt(name, some),
               Registered = c.zones, Registered' = c.zones, UNCHANGED catalog
        PROVE  CallStep
    <2>1. /\ committed'.table = [fwd |-> c.fwd \ hit, zones |-> c.zones, ptr |-> c.ptr \ PtrAt(name, some)]
          /\ committed'.catalog = committed.catalog
      BY <1>1, <1>2, Committed
    <2>2. \E f \in Finders(c, {ip}) : committed'.table = RemoveAddresses(c, f, pair)
      <3>1. PICK f \in Finders(c, {ip}) : RemoveAddresses(c, f, pair) =
               [fwd |-> c.fwd \ hit, zones |-> c.zones, ptr |-> c.ptr \ PtrAt(name, some)]
        <4>1. pair \cap c.fwd = {name} \X some /\ some \in SUBSET {ip}
          OBVIOUS
        <4> HIDE DEF some
        <4> QED  BY <1>1, <1>2, <4>1, RemoveResult
      <3> QED  BY <2>1, <3>1
    <2>3. Calls!Remove(name, ip)
      BY <2>1, <2>2, CallsOperators DEF Calls!Remove
    <2> QED  BY <2>3 DEF CallStep, Calls!Next
  <1>3. CASE todo = <<x("remove")>> /\ Unchanged
    <2>1. todo # <<>> /\ Now = x("remove") /\ Tail(todo) = <<>>
      BY <1>3 DEF Now
    <2>2. /\ Now.do = "remove" /\ Now.name = name /\ Now.ip = ip
          /\ [Now EXCEPT !.do = "remove_ptr"] = x("remove_ptr")
      BY <2>1
    <2> HIDE DEF x
    <2>3. RemoveForward /\ committed' = IF todo' = <<>> THEN Current' ELSE committed
      BY <2>1, <2>2, NextIsSection
    <2>4. /\ fwd' = fwd \ pair /\ UNCHANGED <<reverseZones, scan, ptrs, catalog>>
      BY <2>2, <2>3 DEF RemoveForward
    <2>5. Ptr' = Ptr /\ Registered' = Registered
      BY <2>4 DEF Ptr, Registered
    <2>6. fwd = c.fwd /\ Ptr = c.ptr /\ Registered = c.zones /\ catalog = reverseZones
      BY <1>3 DEF Unchanged, Made
    <2>7. CASE <<name, ip>> \in fwd
      <3>1. todo' = <<x("remove_ptr")>> /\ todo' # <<>>
        <4>1. Continue(<<x("remove_ptr")>>)
          BY <2>2, <2>3, <2>7 DEF RemoveForward
        <4> QED  BY <2>1, <4>1, FrontOnly DEF Continue
      <3>2. committed' = committed
        BY <2>3, <3>1
      <3>3. Made(c.fwd \ pair, c.ptr)'
        BY <2>4, <2>5, <2>6, <3>2 DEF Made
      <3>4. pair \subseteq c.fwd
        BY <2>6, <2>7
      <3>5. Removing(name, ip)'
        BY <3>1, <3>2, <3>3, <3>4 DEF Removing, x
      <3>6. committed'.catalog = Current'.catalog /\ CallStep
        BY <1>1, <2>4, <3>2, CallGoesOn
      <3> QED  BY <3>5, <3>6 DEF CallInv
    <2>8. CASE <<name, ip>> \notin fwd
      <3>1. todo' = <<>>
        BY <2>1, <2>2, <2>3, <2>8 DEF RemoveForward, Continue
      <3>2. committed' = Current'
        BY <2>3, <3>1
      <3>3. hit = {} /\ some = {} /\ PtrAt(name, some) = {}
        BY <2>6, <2>8, PtrAtNone
      <3>4. CallInv'
        BY <2>4, <2>6, <3>1, <3>2, CallEnded
      <3>5. fwd' = c.fwd \ hit /\ Ptr' = c.ptr \ PtrAt(name, some) /\ Registered' = c.zones
        BY <2>4, <2>5, <2>6, <2>8, <3>3
      <3> QED  BY <1>2, <2>4, <2>6, <3>2, <3>4, <3>5
    <2> QED  BY <2>7, <2>8
  <1>4. CASE todo = <<x("remove_ptr")>> /\ pair \subseteq c.fwd /\ Made(c.fwd \ pair, c.ptr)
    <2>1. todo # <<>> /\ Now = x("remove_ptr") /\ Tail(todo) = <<>>
      BY <1>4 DEF Now
    <2>2. Now.do = "remove_ptr" /\ Now.name = name /\ Now.ip = ip
      BY <2>1
    <2> HIDE DEF x
    <2>3. RemovePtr /\ committed' = IF todo' = <<>> THEN Current' ELSE committed
      BY <2>1, <2>2, NextIsSection
    <2>4. todo' = <<>>
      BY <2>1, <2>3 DEF RemovePtr, Continue
    <2>5. /\ ptrs' = WithPtrs(ip, PtrsOf(ip) \ {<<ip, name>>}) /\ committed' = Current'
          /\ UNCHANGED <<fwd, reverseZones, scan, catalog>>
      BY <2>2, <2>3, <2>4 DEF RemovePtr
    <2>6. Ptr' = Ptr \ PtrAt(name, {ip}) /\ Registered' = Registered
      BY <1>1, <2>5, PtrWritten DEF Registered
    <2>7. hit = pair /\ some = {ip}
      BY <1>4
    <2>8. /\ fwd' = c.fwd \ hit /\ Ptr' = c.ptr \ PtrAt(name, some) /\ Registered = c.zones /\ Registered' = c.zones
          /\ catalog' = reverseZones'
      BY <1>4, <2>5, <2>6, <2>7 DEF Made
    <2>9. CallInv'
      BY <2>4, <2>5, <2>8, CallEnded
    <2> QED  BY <1>2, <2>5, <2>8, <2>9
  <1> QED  BY <1>3, <1>4 DEF Removing

\* A table with two fields replaced.
LEMMA ZoneFields ==
    ASSUME NEW t \in Table, NEW z, NEW p
    PROVE  [t EXCEPT !.zones = z, !.ptr = p] = [fwd |-> t.fwd, zones |-> z, ptr |-> p]
  <1> DEFINE u == [t EXCEPT !.zones = z, !.ptr = p]
             v == [fwd |-> t.fwd, zones |-> z, ptr |-> p]
  <1>1. DOMAIN t = {"fwd", "zones", "ptr"} /\ t = [x \in DOMAIN t |-> t[x]]
    BY DEF Table
  <1>2. DOMAIN u = {"fwd", "zones", "ptr"} /\ u = [x \in DOMAIN u |-> u[x]]
    BY <1>1
  <1>3. DOMAIN v = {"fwd", "zones", "ptr"} /\ v = [x \in DOMAIN v |-> v[x]]
    OBVIOUS
  <1>4. u["fwd"] = v["fwd"] /\ u["zones"] = v["zones"] /\ u["ptr"] = v["ptr"]
    BY <1>1
  <1> HIDE DEF u, v
  <1>5. u = v
    BY <1>2, <1>3, <1>4
  <1> QED  BY <1>5 DEF u, v

\* The PTR records that queries find are those of reverse_zones, where the
\* catalog names the same authorities.
LEMMA CatalogPtrFacts ==
    ASSUME TypeOK, catalog = reverseZones
    PROVE  CatalogPtr = Ptr
  BY PtrFacts DEF CatalogPtr, Triple

\* add_reverse_zone and remove_reverse_zone, under the lock of reverse_zones.
LEMMA ZoneChanges ==
    ASSUME WrapperInv, WrapperTypeOK', NEW z \in Zone, Unchanged, NEW a \in Fresh \cup {None},
           todo' = CatalogSection(z, a), committed' = committed,
           reverseZones' = [reverseZones EXCEPT ![z] = a], UNCHANGED <<fwd, ptrs, catalog>>
    PROVE  CallInv' /\ CallStep
  <1> DEFINE c == committed.table
  <1>1. TypeOK /\ TypeOK' /\ AuthoritiesInv /\ CallInv /\ c \in Table
    BY DEF WrapperInv, WrapperTypeOK
  <1>2. fwd = c.fwd /\ Ptr = c.ptr /\ Registered = c.zones /\ catalog = reverseZones
    BY DEF Unchanged, Made
  <1>3. a \in Authority \cup {None} /\ (a # None => a \in Fresh /\ ptrs[a] = {} /\ a # catalog[z])
    BY <1>1 DEF AuthoritiesInv, Fresh
  <1>4. \A y \in Zone : reverseZones'[y] = IF y = z THEN a ELSE reverseZones[y]
    BY <1>1 DEF TypeOK
  <1>5. Registered' = IF a = None THEN c.zones \ {z} ELSE c.zones \cup {z}
    BY <1>2, <1>4 DEF Registered
  <1>6. Ptr' = {r \in c.ptr : r[1] # z}
    <2>1. ptrs \in [Authority -> SUBSET (Ip \X DnsName)] /\ reverseZones' \in [Zone -> Authority \cup {None}]
      BY <1>1 DEF TypeOK
    <2>2. Ptr' = {r \in Triple : reverseZones'[r[1]] # None /\ <<r[2], r[3]>> \in ptrs[reverseZones'[r[1]]]}
      <3>1. UNION {{<<y, r[1], r[2]>> : r \in ptrs[reverseZones'[y]]} : y \in {x \in Zone : reverseZones'[x] # None}}
              = {r \in Triple : reverseZones'[r[1]] # None /\ <<r[2], r[3]>> \in ptrs[reverseZones'[r[1]]]}
        BY <2>1, PtrOfZones
      <3> QED  BY <3>1 DEF Ptr, Registered
    <2>3. c.ptr = {r \in Triple : reverseZones[r[1]] # None /\ <<r[2], r[3]>> \in ptrs[reverseZones[r[1]]]}
      BY <1>1, <1>2, PtrFacts
    <2>4. \A r \in Triple : r[1] \in Zone
      BY DEF Triple
    <2>5. \A r \in Triple : r \in Ptr' <=> r \in c.ptr /\ r[1] # z
      BY <1>3, <1>4, <2>2, <2>3, <2>4
    <2> QED  BY <2>2, <2>3, <2>5
  <1>7. CatalogPtr' = c.ptr
    <2>1. CatalogPtr' = CatalogPtr
      BY DEF CatalogPtr
    <2> QED  BY <1>1, <1>2, <2>1, CatalogPtrFacts
  <1>8. reverseZones' = [catalog' EXCEPT ![z] = a] /\ (catalog'[z] = a => a = None)
    BY <1>2, <1>3
  <1>9. Zoning(z)'
    BY <1>2, <1>3, <1>5, <1>6, <1>7, <1>8 DEF Zoning
  <1>10. committed'.catalog = Current'.catalog /\ CallStep
    BY <1>1, CallGoesOn
  <1> QED  BY <1>9, <1>10 DEF CallInv

\* A zone registered or deregistered: the same, with Calls!Register and
\* Calls!Deregister.
LEMMA ZoningNext ==
    ASSUME WrapperInv, WrapperTypeOK', Next, NEW z \in Zone, Zoning(z)
    PROVE  CallInv' /\ CallStep
  <1> DEFINE c == committed.table
  <1>1. TypeOK /\ TypeOK' /\ AuthoritiesInv /\ CallInv /\ c \in Table
    BY DEF WrapperInv, WrapperTypeOK
  <1>2. CASE todo = ZoneSections("insert", z) /\ Unchanged
    <2>1. todo # <<>> /\ Now.do = "insert" /\ Now.zone = z /\ Tail(todo) = <<>>
      BY <1>2 DEF ZoneSections, Now
    <2>2. InsertZone /\ committed' = IF todo' = <<>> THEN Current' ELSE committed
      BY <2>1, NextIsSection
    <2>3. PICK a \in Fresh : /\ Continue(CatalogSection(z, a))
                             /\ reverseZones' = [reverseZones EXCEPT ![z] = a]
      BY <2>1, <2>2 DEF InsertZone
    <2>4. todo' = CatalogSection(z, a) /\ todo' # <<>>
      BY <2>1, <2>3, FrontOnly DEF Continue, CatalogSection
    <2> QED  BY <1>2, <2>2, <2>3, <2>4, ZoneChanges DEF InsertZone
  <1>3. CASE todo = ZoneSections("delete", z) /\ Unchanged
    <2>1. todo # <<>> /\ Now.do = "delete" /\ Now.zone = z /\ Tail(todo) = <<>>
      BY <1>3 DEF ZoneSections, Now
    <2>2. DeleteZone /\ committed' = IF todo' = <<>> THEN Current' ELSE committed
      BY <2>1, NextIsSection
    <2>3. Continue(CatalogSection(z, None)) /\ reverseZones' = [reverseZones EXCEPT ![z] = None]
      BY <2>1, <2>2 DEF DeleteZone
    <2>4. todo' = CatalogSection(z, None) /\ todo' # <<>>
      BY <2>1, <2>3, FrontOnly DEF Continue, CatalogSection
    <2> QED  BY <1>3, <2>2, <2>3, <2>4, ZoneChanges DEF DeleteZone
  <1>4. ASSUME NEW a \in Authority \cup {None}, todo = CatalogSection(z, a), fwd = c.fwd,
               Ptr = {r \in c.ptr : r[1] # z},
               Registered = IF a = None THEN c.zones \ {z} ELSE c.zones \cup {z},
               reverseZones = [catalog EXCEPT ![z] = a], catalog[z] = a => a = None
        PROVE  CallInv' /\ CallStep
    <2>1. todo # <<>> /\ Now.do = "catalog" /\ Now.zone = z /\ Now.authority = a /\ Tail(todo) = <<>>
      <3> DEFINE x == [do |-> "catalog", zone |-> z, authority |-> a]
      <3>1. todo = <<x>>
        BY <1>4 DEF CatalogSection
      <3>2. x.do = "catalog" /\ x.zone = z /\ x.authority = a
        OBVIOUS
      <3> HIDE DEF x
      <3>3. Now = x /\ todo # <<>> /\ Tail(todo) = <<>>
        BY <3>1 DEF Now
      <3> QED  BY <3>2, <3>3
    <2>2. UpdateCatalog /\ committed' = IF todo' = <<>> THEN Current' ELSE committed
      BY <2>1, NextIsSection
    <2>3. todo' = <<>>
      BY <2>1, <2>2 DEF UpdateCatalog, Continue
    <2>4. /\ catalog' = [catalog EXCEPT ![z] = a] /\ committed' = Current'
          /\ ptrs' = [b \in Authority |-> IF b = catalog[z] THEN {} ELSE ptrs[b]]
          /\ UNCHANGED <<fwd, reverseZones, scan>>
      BY <2>1, <2>2, <2>3 DEF UpdateCatalog
    <2>5. CallInv'
      BY <1>4, <2>3, <2>4, CallEnded
    <2>6. Registered' = Registered
      BY <2>4 DEF Registered
    <2>7. Ptr' = Ptr
      <3>1. \A y \in Registered : y \in Zone /\ reverseZones[y] \in Authority /\ reverseZones[y] # None
        BY <1>1 DEF TypeOK, Registered
      <3>2. \A y \in Registered : reverseZones[y] # catalog[z]
        BY <1>1, <1>4, <3>1 DEF TypeOK, AuthoritiesInv
      <3>3. \A y \in Registered : ptrs'[reverseZones[y]] = ptrs[reverseZones[y]]
        BY <2>4, <3>1, <3>2
      <3>4. Ptr' = UNION {{<<y, r[1], r[2]>> : r \in ptrs'[reverseZones[y]]} : y \in Registered}
        BY <2>4, <2>6 DEF Ptr
      <3>5. \A y \in Registered : {<<y, r[1], r[2]>> : r \in ptrs'[reverseZones[y]]} = {<<y, r[1], r[2]>> : r \in ptrs[reverseZones[y]]}
        BY <3>3
      <3> QED  BY <3>4, <3>5 DEF Ptr
    <2>8. committed'.table = [fwd |-> c.fwd, zones |-> Registered, ptr |-> {r \in c.ptr : r[1] \notin {z}}]
      BY <1>4, <2>4, <2>6, <2>7 DEF Current
    <2>9. committed'.catalog = IF a = None THEN committed.catalog \ {z} ELSE committed.catalog \cup {z}
      <3>1. committed.catalog = {y \in Zone : catalog[y] # None}
        BY <1>1 DEF CallInv, Current
      <3>2. committed'.catalog = {y \in Zone : catalog'[y] # None}
        BY <2>4 DEF Current
      <3>3. \A y \in Zone : catalog'[y] = IF y = z THEN a ELSE catalog[y]
        BY <1>1, <2>4 DEF TypeOK
      <3> QED  BY <3>1, <3>2, <3>3
    <2>10. CASE a = None
      <3>1. committed'.table = RemoveReverseZones(c, {z})
        <4>1. Registered = c.zones \ {z}
          BY <1>4, <2>10
        <4>2. RemoveReverseZones(c, {z}) =
                 [fwd |-> c.fwd, zones |-> c.zones \ {z}, ptr |-> {r \in c.ptr : r[1] \notin {z}}]
          BY <1>1, ZoneFields DEF RemoveReverseZones
        <4> QED  BY <2>8, <4>1, <4>2
      <3>2. Calls!Deregister(z)
        BY <2>9, <2>10, <3>1, CallsOperators DEF Calls!Deregister
      <3> QED  BY <2>5, <3>2 DEF CallStep, Calls!Next
    <2>11. CASE a # None
      <3>1. committed'.table = AddReverseZones(c, {z})
        <4>1. Registered = c.zones \cup {z}
          BY <1>4, <2>11
        <4>2. AddReverseZones(c, {z}) =
                 [fwd |-> c.fwd, zones |-> c.zones \cup {z}, ptr |-> {r \in c.ptr : r[1] \notin {z}}]
          BY <1>1, ZoneFields DEF AddReverseZones
        <4> QED  BY <2>8, <4>1, <4>2
      <3>2. Calls!Register(z)
        BY <2>9, <2>11, <3>1, CallsOperators DEF Calls!Register
      <3> QED  BY <2>5, <3>2 DEF CallStep, Calls!Next
    <2> QED  BY <2>10, <2>11
  <1> QED  BY <1>2, <1>3, <1>4 DEF Zoning

\* The places of a rename from which it moves an address on.
Midway(old, new, rest, taken) ==
    \E left \in SUBSET taken :
         \/ /\ todo = Moving(old, new, left, rest)
            /\ Moved(old, new, taken, taken \ left, taken \ left, taken \ left)
         \/ \E ip \in taken \ left :
              LET others == taken \ (left \cup {ip})
              IN  \/ /\ todo = UpsertSections(new, ip) \o Moving(old, new, left, rest)
                     /\ Moved(old, new, taken, others, taken \ left, others)
                  \/ /\ todo = <<AppendPtrSection(new, ip)>> \o Moving(old, new, left, rest)
                     /\ Moved(old, new, taken, taken \ left, taken \ left, others)

\* An address leaves the record set taken: its old PTR record goes.
LEMMA MoveNextPlace ==
    ASSUME WrapperInv, WrapperTypeOK', MoveNext, NEW old \in DnsName, NEW new \in DnsName,
           NEW rest \in Seq(Sections), NEW taken \in SUBSET Ip, NEW left \in SUBSET taken,
           todo = Moving(old, new, left, rest), committed' = IF todo' = <<>> THEN Current' ELSE committed,
           Moved(old, new, taken, taken \ left, taken \ left, taken \ left)
    PROVE  Midway(old, new, rest, taken)' /\ todo' # <<>> /\ UNCHANGED <<catalog, committed>>
  <1> DEFINE c == committed.table
  <1>1. TypeOK /\ TypeOK' /\ AuthoritiesInv
    BY DEF WrapperInv, WrapperTypeOK
  <1>2. left \in SUBSET Ip
    OBVIOUS
  <1>3. Now = MoveSection(old, new, left) /\ Tail(todo) = rest
    BY <1>2, MovingFacts DEF Now
  <1>4. Now.old = old /\ Now.new = new /\ Now.ips = left
    BY <1>3 DEF MoveSection
  <1>5. PICK ip \in left : /\ Continue(UpsertSections(new, ip) \o <<[Now EXCEPT !.ips = @ \ {ip}]>>)
                           /\ ptrs' = WithPtrs(ip, PtrsOf(ip) \ {<<ip, old>>})
    BY <1>4 DEF MoveNext
  <1> DEFINE left2  == left \ {ip}
             others == taken \ (left2 \cup {ip})
  <1>6. [Now EXCEPT !.ips = @ \ {ip}] = MoveSection(old, new, left2)
    <2> DEFINE u == [Now EXCEPT !.ips = @ \ {ip}]
    <2>1. /\ DOMAIN Now = {"do", "old", "new", "ips"}
          /\ Now.do = "move" /\ Now.old = old /\ Now.new = new /\ Now.ips = left
      BY <1>3 DEF MoveSection
    <2>2. /\ DOMAIN u = {"do", "old", "new", "ips"} /\ u = [x \in DOMAIN u |-> u[x]]
          /\ u["do"] = "move" /\ u["old"] = old /\ u["new"] = new /\ u["ips"] = left2
      BY <2>1
    <2>3. /\ DOMAIN MoveSection(old, new, left2) = {"do", "old", "new", "ips"}
          /\ MoveSection(old, new, left2) = [x \in DOMAIN MoveSection(old, new, left2) |-> MoveSection(old, new, left2)[x]]
          /\ MoveSection(old, new, left2)["do"] = "move" /\ MoveSection(old, new, left2)["old"] = old
          /\ MoveSection(old, new, left2)["new"] = new /\ MoveSection(old, new, left2)["ips"] = left2
      BY DEF MoveSection
    <2> HIDE DEF u, left2
    <2>4. u = MoveSection(old, new, left2)
      BY <2>2, <2>3
    <2> QED  BY <2>4 DEF u
  <1>7. left2 \in SUBSET Ip /\ left2 \in SUBSET taken /\ ip \in taken \ left2 /\ ip \in Ip
    BY <1>2
  <1>8. others = taken \ left /\ taken \ left2 = (taken \ left) \cup {ip} /\ ip \notin taken \ left
    BY <1>7
  <1>9. todo' = UpsertSections(new, ip) \o Moving(old, new, left2, rest) /\ todo' # <<>>
    <2>1. todo' = (UpsertSections(new, ip) \o <<MoveSection(old, new, left2)>>) \o rest
      BY <1>3, <1>5, <1>6 DEF Continue
    <2>2. MoveSection(old, new, left2) \in Sections /\ Moving(old, new, left2, rest) \in Seq(Sections)
      BY <1>7, MovingFacts
    <2>3. <<MoveSection(old, new, left2)>> \in Seq(Sections)
      BY <2>2
    <2>4. UpsertSections(new, ip) \in Seq(Sections)
      BY <1>7, MoreTypes
    <2>5. todo' = UpsertSections(new, ip) \o (<<MoveSection(old, new, left2)>> \o rest)
      BY <2>1, <2>3, <2>4, ConcatAssociative
    <2>6. <<MoveSection(old, new, left2)>> \o rest = Moving(old, new, left2, rest)
      BY DEF MoveSection, Moving
    <2>7. todo' = UpsertSections(new, ip) \o Moving(old, new, left2, rest)
      BY <2>5, <2>6
    <2>8. UpsertSections(new, ip) \o Moving(old, new, left2, rest) # <<>>
      BY <1>7, <2>2, UpsertingFacts, ZenonT(30)
    <2> QED  BY <2>7, <2>8
  <1>10. UNCHANGED <<fwd, reverseZones, scan, catalog, committed>>
    BY <1>9 DEF MoveNext
  <1>11. Ptr' = Ptr \ PtrAt(old, {ip}) /\ Registered' = Registered
    BY <1>1, <1>5, <1>7, <1>10, PtrWritten DEF Registered
  <1>12. Moved(old, new, taken, others, taken \ left2, others)'
    <2>1. /\ fwd = (c.fwd \ ({old} \X taken)) \cup ({new} \X (taken \ left))
          /\ Ptr = (c.ptr \ PtrAt(old, (taken \ left))) \cup PtrAt(new, (taken \ left))
          /\ Registered = c.zones /\ catalog = reverseZones
      BY DEF Moved, Made
    <2>2. taken \ left \in SUBSET Ip
      OBVIOUS
    <2>3. Ptr' = (c.ptr \ PtrAt(old, (taken \ left2))) \cup PtrAt(new, others)
      <3> DEFINE kept == taken \ left
      <3> HIDE DEF kept
      <3>1. ((c.ptr \ PtrAt(old, kept)) \cup PtrAt(new, kept)) \ PtrAt(old, {ip})
              = (c.ptr \ PtrAt(old, (kept \cup {ip}))) \cup PtrAt(new, kept)
        <4>1. kept \in SUBSET Ip /\ ip \in Ip /\ ip \notin kept
          BY <1>7, <1>8, <2>2 DEF kept
        <4>2. PtrAt(old, (kept \cup {ip})) = PtrAt(old, kept) \cup PtrAt(old, {ip})
          BY <1>1, <4>1, PtrAtMore
        <4>3. PtrAt(new, kept) \cap PtrAt(old, {ip}) = {}
          BY <1>1, <4>1, PtrAtApart
        <4> QED  BY <4>2, <4>3
      <3> QED  BY <1>8, <1>11, <2>1, <3>1 DEF kept
    <2>4. \A name, ips : PtrAt(name, ips)' = PtrAt(name, ips)
      BY <1>10, PtrAtStable
    <2>5. fwd' = (c.fwd \ ({old} \X taken)) \cup ({new} \X others)
      BY <1>8, <1>10, <2>1
    <2> HIDE DEF others, left2
    <2> QED  BY <1>10, <1>11, <2>1, <2>3, <2>4, <2>5 DEF Moved, Made
  <1> HIDE DEF left2
  <1> QED  BY <1>7, <1>9, <1>10, <1>12 DEF Midway

\* Its new A or AAAA record is written.
LEMMA AppendPlace ==
    ASSUME WrapperInv, WrapperTypeOK', AppendForward, NEW old \in DnsName, NEW new \in DnsName,
           NEW rest \in Seq(Sections), NEW taken \in SUBSET Ip, NEW left \in SUBSET taken, NEW ip \in taken \ left,
           todo = UpsertSections(new, ip) \o Moving(old, new, left, rest), committed' = IF todo' = <<>> THEN Current' ELSE committed,
           Moved(old, new, taken, taken \ (left \cup {ip}), taken \ left, taken \ (left \cup {ip}))
    PROVE  Midway(old, new, rest, taken)' /\ todo' # <<>> /\ UNCHANGED <<catalog, committed>>
  <1> DEFINE c == committed.table
             others == taken \ (left \cup {ip})
  <1>1. left \in SUBSET Ip /\ ip \in Ip
    OBVIOUS
  <1>2. Moving(old, new, left, rest) \in Seq(Sections)
    BY <1>1, MovingFacts
  <1>3. /\ Now = AppendSection(new, ip)
        /\ Tail(todo) = <<AppendPtrSection(new, ip)>> \o Moving(old, new, left, rest)
        /\ Tail(todo) \in Seq(Sections) /\ Tail(todo) # <<>>
    <2>1. ip \in Ip /\ new \in DnsName
      BY <1>1
    <2> DEFINE more == Moving(old, new, left, rest)
    <2> HIDE DEF more
    <2>2. more \in Seq(Sections) /\ todo = UpsertSections(new, ip) \o more
      BY <1>2 DEF more
    <2>3. /\ Head(todo) = AppendSection(new, ip) /\ Tail(todo) = <<AppendPtrSection(new, ip)>> \o more
          /\ <<AppendPtrSection(new, ip)>> \o more \in Seq(Sections)
          /\ <<AppendPtrSection(new, ip)>> \o more # <<>>
      BY <2>1, <2>2, UpsertingFacts
    <2> QED  BY <2>3 DEF Now, more
  <1>4. Now.name = new /\ Now.ip = ip
    BY <1>3 DEF AppendSection
  <1>5. todo' = <<AppendPtrSection(new, ip)>> \o Moving(old, new, left, rest) /\ todo' # <<>>
    <2>1. todo' = Tail(todo)
      BY <1>3, NothingInFront DEF AppendForward, Continue
    <2> QED  BY <1>3, <2>1
  <1>6. fwd' = fwd \cup {<<new, ip>>} /\ UNCHANGED <<reverseZones, scan, ptrs, catalog, committed>>
    BY <1>4, <1>5 DEF AppendForward
  <1>7. Ptr' = Ptr /\ Registered' = Registered
    BY <1>6 DEF Ptr, Registered
  <1>8. Moved(old, new, taken, taken \ left, taken \ left, others)'
    <2>1. /\ fwd = (c.fwd \ ({old} \X taken)) \cup ({new} \X others)
          /\ Ptr = (c.ptr \ PtrAt(old, taken \ left)) \cup PtrAt(new, others)
          /\ Registered = c.zones /\ catalog = reverseZones
      BY DEF Moved, Made
    <2>2. fwd' = (c.fwd \ ({old} \X taken)) \cup ({new} \X (taken \ left))
      <3>1. taken \ left = others \cup {ip}
        OBVIOUS
      <3> HIDE DEF others
      <3> QED  BY <1>6, <2>1, <3>1
    <2>3. \A name, ips : PtrAt(name, ips)' = PtrAt(name, ips)
      BY <1>6, PtrAtStable
    <2> HIDE DEF others
    <2> QED  BY <1>6, <1>7, <2>1, <2>2, <2>3 DEF Moved, Made
  <1> QED  BY <1>5, <1>6, <1>8 DEF Midway

\* Its new PTR record is written.
LEMMA AppendPtrPlace ==
    ASSUME WrapperInv, WrapperTypeOK', AppendPtr, NEW old \in DnsName, NEW new \in DnsName,
           NEW rest \in Seq(Sections), NEW taken \in SUBSET Ip, NEW left \in SUBSET taken, NEW ip \in taken \ left,
           todo = <<AppendPtrSection(new, ip)>> \o Moving(old, new, left, rest), committed' = IF todo' = <<>> THEN Current' ELSE committed,
           Moved(old, new, taken, taken \ left, taken \ left, taken \ (left \cup {ip}))
    PROVE  Midway(old, new, rest, taken)' /\ todo' # <<>> /\ UNCHANGED <<catalog, committed>>
  <1> DEFINE c == committed.table
             others == taken \ (left \cup {ip})
  <1>1. TypeOK /\ TypeOK' /\ AuthoritiesInv /\ left \in SUBSET Ip /\ ip \in Ip
    BY DEF WrapperInv, WrapperTypeOK
  <1>2. Moving(old, new, left, rest) \in Seq(Sections) /\ Moving(old, new, left, rest) # <<>>
    BY <1>1, MovingFacts
  <1>3. Now = AppendPtrSection(new, ip) /\ Tail(todo) = Moving(old, new, left, rest)
    BY <1>1, <1>2, UpsertingFacts DEF Now
  <1>4. Now.name = new /\ Now.ip = ip
    BY <1>3 DEF AppendPtrSection
  <1>5. todo' = Moving(old, new, left, rest) /\ todo' # <<>>
    <2>1. todo' = <<>> \o Moving(old, new, left, rest)
      BY <1>3 DEF AppendPtr, Continue
    <2> QED  BY <1>2, <2>1, NothingInFront
  <1>6. ptrs' = WithPtrs(ip, PtrsOf(ip) \cup {<<ip, new>>}) /\ UNCHANGED <<fwd, reverseZones, scan, catalog, committed>>
    BY <1>4, <1>5 DEF AppendPtr
  <1>7. Ptr' = Ptr \cup PtrAt(new, {ip}) /\ Registered' = Registered
    BY <1>1, <1>6, PtrWritten DEF Registered
  <1>8. Moved(old, new, taken, taken \ left, taken \ left, taken \ left)'
    <2>1. /\ fwd = (c.fwd \ ({old} \X taken)) \cup ({new} \X (taken \ left))
          /\ Ptr = (c.ptr \ PtrAt(old, taken \ left)) \cup PtrAt(new, others)
          /\ Registered = c.zones /\ catalog = reverseZones
      BY DEF Moved, Made
    <2>2. taken \ left = others \cup {ip} /\ others \in SUBSET Ip
      OBVIOUS
    <2>3. PtrAt(new, taken \ left) = PtrAt(new, others) \cup PtrAt(new, {ip})
      <3> HIDE DEF others
      <3>1. PtrAt(new, others \cup {ip}) = PtrAt(new, others) \cup PtrAt(new, {ip})
        BY <1>1, <2>2, PtrAtMore
      <3> QED  BY <2>2, <3>1
    <2>4. Ptr' = (c.ptr \ PtrAt(old, taken \ left)) \cup PtrAt(new, taken \ left)
      BY <1>7, <2>1, <2>3
    <2>5. \A name, ips : PtrAt(name, ips)' = PtrAt(name, ips)
      BY <1>6, PtrAtStable
    <2> HIDE DEF others
    <2> QED  BY <1>6, <1>7, <2>1, <2>4, <2>5 DEF Moved, Made
  <1> QED  BY <1>5, <1>6, <1>8 DEF Midway

\* The record set taken is used up.
LEMMA MoveEndsPlace ==
    ASSUME MoveEnds, NEW old \in DnsName, NEW new \in DnsName,
           NEW rest \in Seq(Sections), NEW taken \in SUBSET Ip, NEW left \in SUBSET taken,
           todo = Moving(old, new, left, rest),
           Moved(old, new, taken, taken \ left, taken \ left, taken \ left)
    PROVE  todo' = rest /\ Moved(old, new, taken, taken, taken, taken) /\ UNCHANGED stores
  <1>1. left \in SUBSET Ip
    OBVIOUS
  <1>2. Now = MoveSection(old, new, left) /\ Tail(todo) = rest
    BY <1>1, MovingFacts DEF Now
  <1>3. left = {}
    BY <1>2 DEF MoveEnds, MoveSection
  <1>4. taken \ left = taken
    BY <1>3
  <1>5. todo' = rest
    BY <1>2, NothingInFront DEF MoveEnds, Continue
  <1> QED  BY <1>4, <1>5 DEF MoveEnds

\* The next record set of the old name is taken.
LEMMA TakePlace ==
    ASSUME WrapperInv, WrapperTypeOK', TakeOld, NEW old \in DnsName, NEW new \in DnsName,
           NEW rest \in Seq(Sections), NEW taken \in SUBSET Ip, NEW of \in SUBSET Ip,
           Now = TakeSection(old, new, of), Tail(todo) = rest, taken \cap of = {},
           NEW more, more = of \cap AddressesOf(committed.table, old),
           committed' = IF todo' = <<>> THEN Current' ELSE committed, Moved(old, new, taken, taken, taken, taken)
    PROVE  Midway(old, new, rest, taken \cup more)' /\ todo' # <<>> /\ UNCHANGED <<catalog, committed>>
  <1> DEFINE c    == committed.table
             ips  == {ip \in Now.of : <<Now.old, ip>> \in fwd}
             all  == taken \cup more
  <1>1. Now.old = old /\ Now.new = new /\ Now.of = of
    BY DEF TakeSection
  <1>2. /\ fwd = (c.fwd \ ({old} \X taken)) \cup ({new} \X taken)
        /\ Ptr = (c.ptr \ PtrAt(old, taken)) \cup PtrAt(new, taken)
        /\ Registered = c.zones /\ catalog = reverseZones
    BY DEF Moved, Made
  <1>3. ips = more
    BY <1>1, <1>2 DEF AddressesOf
  <1>4. /\ Continue(<<[do |-> "move", old |-> Now.old, new |-> Now.new, ips |-> ips]>>)
        /\ fwd' = fwd \ ({Now.old} \X ips)
        /\ UNCHANGED <<reverseZones, scan, ptrs, catalog>>
    BY DEF TakeOld
  <1>5. more \in SUBSET Ip /\ more \in SUBSET all /\ all \ more = taken
    OBVIOUS
  <1> HIDE DEF ips
  <1>6. todo' = Moving(old, new, more, rest) /\ todo' # <<>>
    <2>1. todo' = Moving(old, new, more, rest)
      BY <1>1, <1>3, <1>4 DEF Continue, Moving
    <2> QED  BY <1>5, <2>1, MovingFacts
  <1>12. committed' = committed
    BY <1>6
  <1>7. fwd' = (c.fwd \ ({old} \X all)) \cup ({new} \X taken)
    <2>1. fwd' = fwd \ ({old} \X more) /\ taken \cap more = {}
      BY <1>1, <1>3, <1>4
    <2> QED  BY <1>2, <2>1
  <1>8. Ptr' = Ptr /\ Registered' = Registered
    BY <1>4 DEF Ptr, Registered
  <1>9. \A name, some : PtrAt(name, some)' = PtrAt(name, some)
    BY <1>4, PtrAtStable
  <1> HIDE DEF all
  <1>10. Moved(old, new, all, all \ more, all \ more, all \ more)'
    BY <1>2, <1>4, <1>5, <1>7, <1>8, <1>9, <1>12 DEF Moved, Made
  <1>11. Midway(old, new, rest, all)'
    BY <1>5, <1>6, <1>10 DEF Midway
  <1> QED  BY <1>4, <1>6, <1>11, <1>12 DEF all

\* From where it moves an address on, a rename comes to the next such place or
\* to the rest of the call.
LEMMA MidwayNext ==
    ASSUME WrapperInv, WrapperTypeOK', Next, NEW old \in DnsName, NEW new \in DnsName,
           NEW rest \in Seq(Sections), NEW taken \in SUBSET Ip, Midway(old, new, rest, taken)
    PROVE  \/ Midway(old, new, rest, taken)' /\ todo' # <<>> /\ UNCHANGED <<catalog, committed>>
           \/ todo' = rest /\ Moved(old, new, taken, taken, taken, taken) /\ UNCHANGED stores
  <1>1. PICK left \in SUBSET taken :
         \/ /\ todo = Moving(old, new, left, rest)
            /\ Moved(old, new, taken, taken \ left, taken \ left, taken \ left)
         \/ \E ip \in taken \ left :
              LET others == taken \ (left \cup {ip})
              IN  \/ /\ todo = UpsertSections(new, ip) \o Moving(old, new, left, rest)
                     /\ Moved(old, new, taken, others, taken \ left, others)
                  \/ /\ todo = <<AppendPtrSection(new, ip)>> \o Moving(old, new, left, rest)
                     /\ Moved(old, new, taken, taken \ left, taken \ left, others)
    BY DEF Midway
  <1>2. left \in SUBSET Ip /\ Moving(old, new, left, rest) \in Seq(Sections)
    <2>1. left \in SUBSET Ip
      OBVIOUS
    <2> QED  BY <2>1, MovingFacts
  <1>3. CASE /\ todo = Moving(old, new, left, rest)
             /\ Moved(old, new, taken, taken \ left, taken \ left, taken \ left)
    <2>1. todo # <<>> /\ Now = MoveSection(old, new, left)
      BY <1>2, <1>3, MovingFacts DEF Now
    <2>2. Now.do = "move"
      BY <2>1 DEF MoveSection
    <2>3. (MoveNext \/ MoveEnds) /\ committed' = IF todo' = <<>> THEN Current' ELSE committed
      BY <2>1, <2>2, NextIsSection
    <2>4. CASE MoveNext
      BY <1>3, <2>3, <2>4, MoveNextPlace
    <2>5. CASE MoveEnds
      BY <1>3, <2>5, MoveEndsPlace
    <2> QED  BY <2>3, <2>4, <2>5
  <1>4. ASSUME NEW ip \in taken \ left, todo = UpsertSections(new, ip) \o Moving(old, new, left, rest),
               Moved(old, new, taken, taken \ (left \cup {ip}), taken \ left, taken \ (left \cup {ip}))
        PROVE  Midway(old, new, rest, taken)' /\ todo' # <<>> /\ UNCHANGED <<catalog, committed>>
    <2>0. ip \in Ip
      OBVIOUS
    <2>1. todo # <<>> /\ Now = AppendSection(new, ip)
      BY <1>2, <1>4, <2>0, UpsertingFacts DEF Now
    <2>2. Now.do = "append"
      BY <2>1 DEF AppendSection
    <2>3. AppendForward /\ committed' = IF todo' = <<>> THEN Current' ELSE committed
      BY <2>1, <2>2, NextIsSection
    <2> QED  BY <1>4, <2>3, AppendPlace
  <1>5. ASSUME NEW ip \in taken \ left, todo = <<AppendPtrSection(new, ip)>> \o Moving(old, new, left, rest),
               Moved(old, new, taken, taken \ left, taken \ left, taken \ (left \cup {ip}))
        PROVE  Midway(old, new, rest, taken)' /\ todo' # <<>> /\ UNCHANGED <<catalog, committed>>
    <2>0. ip \in Ip
      OBVIOUS
    <2>1. todo # <<>> /\ Now = AppendPtrSection(new, ip)
      BY <1>2, <1>5, <2>0, UpsertingFacts DEF Now
    <2>2. Now.do = "append_ptr"
      BY <2>1 DEF AppendPtrSection
    <2>3. AppendPtr /\ committed' = IF todo' = <<>> THEN Current' ELSE committed
      BY <2>1, <2>2, NextIsSection
    <2> QED  BY <1>5, <2>3, AppendPtrPlace
  <1> QED  BY <1>1, <1>3, <1>4, <1>5

\* Both record sets are taken and moved: this is what Rename yields.
LEMMA RenameEnded ==
    ASSUME WrapperInv, WrapperTypeOK', todo' = <<>>, committed' = Current', UNCHANGED stores,
           NEW old \in DnsName, NEW new \in DnsName, NEW ips, ips = AddressesOf(committed.table, old),
           Moved(old, new, ips, ips, ips, ips)
    PROVE  CallInv' /\ CallStep
  <1> DEFINE c == committed.table
  <1>1. TypeOK /\ CallInv /\ c \in Table
    BY DEF WrapperInv, WrapperTypeOK
  <1>2. /\ fwd = (c.fwd \ ({old} \X ips)) \cup ({new} \X ips)
        /\ Ptr = (c.ptr \ PtrAt(old, ips)) \cup PtrAt(new, ips)
        /\ Registered = c.zones /\ catalog = reverseZones
    BY DEF Moved, Made
  <1>3. fwd' = fwd /\ Ptr' = Ptr /\ Registered' = Registered /\ UNCHANGED <<catalog, reverseZones>>
    BY DEF stores, Ptr, Registered
  <1>4. CallInv'
    BY <1>2, <1>3, CallEnded
  <1>5. /\ committed'.table = [fwd |-> fwd', zones |-> c.zones, ptr |-> Ptr']
        /\ committed'.catalog = committed.catalog
    BY <1>1, <1>2, <1>3, Committed
  <1>6. PICK f \in Finders(c, AddressesOf(c, old)) : Rename(c, f, old, new) =
               [fwd |-> (c.fwd \ ({old} \X ips)) \cup ({new} \X ips), zones |-> c.zones,
                ptr |-> (c.ptr \ PtrAt(old, ips)) \cup PtrAt(new, ips)]
    BY <1>1, <1>2, RenameResult
  <1>7. committed'.table = Rename(c, f, old, new)
    BY <1>2, <1>3, <1>5, <1>6
  <1>8. Calls!Renames(old, new)
    BY <1>5, <1>6, <1>7, CallsOperators DEF Calls!Renames
  <1> QED  BY <1>4, <1>8 DEF CallStep, Calls!Next

\* A rename in progress goes on as one, or ends.
LEMMA RenamedNext ==
    ASSUME WrapperInv, WrapperTypeOK', Next, NEW old \in DnsName, NEW new \in DnsName, Renamed(old, new)
    PROVE  CallInv' /\ CallStep
  <1> DEFINE all == RenameSections(old, new)
  <1>1. CallInv
    BY DEF WrapperInv
  <1>2. PICK ips \in SUBSET Ip : ips = AddressesOf(committed.table, old)
    BY DEF AddressesOf
  <1>3. PICK most \in SUBSET Ip : most = ips \cap V4
    OBVIOUS
  <1>4. \A rest, taken : Renames(old, new, rest, taken) <=>
            \/ todo = rest /\ rest # <<>> /\ Moved(old, new, taken, taken, taken, taken)
            \/ Midway(old, new, rest, taken)
    BY DEF Renames, Midway
  <1>5. Renamed(old, new) <=>
            Renames(old, new, all, {}) \/ Renames(old, new, Tail(all), most) \/ Renames(old, new, <<>>, ips)
    BY <1>2, <1>3 DEF Renamed
  <1>6. committed' = committed =>
           (Renamed(old, new)' <=>
              Renames(old, new, all, {})' \/ Renames(old, new, Tail(all), most)' \/ Renames(old, new, <<>>, ips)')
    BY <1>2, <1>3 DEF Renamed
  <1>7. \A rest, taken : Midway(old, new, rest, taken)' => Renames(old, new, rest, taken)'
    BY DEF Renames, Midway
  <1>8. /\ all \in Seq(Sections) /\ all # <<>> /\ Head(all) = TakeSection(old, new, V4)
        /\ Tail(all) \in Seq(Sections) /\ Tail(all) # <<>> /\ Head(Tail(all)) = TakeSection(old, new, Ip \ V4)
        /\ Tail(Tail(all)) = <<>> /\ <<>> \in Seq(Sections)
    BY RenameSectionsFacts
  <1> HIDE DEF all
  <1>9. ASSUME Renamed(old, new)', UNCHANGED <<catalog, committed>>
        PROVE  CallInv' /\ CallStep
    BY <1>1, <1>9, CallGoesOn DEF CallInv
  <1>10. todo # <<>> /\ committed' = IF todo' = <<>> THEN Current' ELSE committed
    BY RenamedPlaces, NextIsSection
  \* On the way to what is left to take, or there.
  <1>11. ASSUME NEW rest \in {all, Tail(all)}, NEW taken \in SUBSET Ip, Midway(old, new, rest, taken)
         PROVE  Renames(old, new, rest, taken)' /\ UNCHANGED <<catalog, committed>>
    <2>1. rest \in Seq(Sections) /\ rest # <<>>
      BY <1>8
    <2>2. CASE Midway(old, new, rest, taken)' /\ todo' # <<>> /\ UNCHANGED <<catalog, committed>>
      BY <1>7, <2>2
    <2>3. CASE todo' = rest /\ Moved(old, new, taken, taken, taken, taken) /\ UNCHANGED stores
      <3>1. committed' = committed /\ UNCHANGED <<fwd, reverseZones, scan, ptrs, catalog>>
        BY <1>10, <2>1, <2>3 DEF stores
      <3>2. Ptr' = Ptr /\ Registered' = Registered /\ \A name, some : PtrAt(name, some)' = PtrAt(name, some)
        BY <3>1 DEF Ptr, Registered, PtrAt
      <3>3. Moved(old, new, taken, taken, taken, taken)'
        BY <2>3, <3>1, <3>2 DEF Moved, Made
      <3> QED  BY <2>1, <2>3, <3>1, <3>3 DEF Renames
    <2> QED  BY <1>11, <2>1, <2>2, <2>3, MidwayNext
  \* There: the next record set is taken.
  <1>12. ASSUME NEW rest \in Seq(Sections), NEW taken \in SUBSET Ip, NEW of \in SUBSET Ip, todo # <<>>,
                Now = TakeSection(old, new, of), Tail(todo) = rest, taken \cap of = {},
                Moved(old, new, taken, taken, taken, taken), NEW both, both = taken \cup (of \cap ips)
         PROVE  Renames(old, new, rest, both)' /\ UNCHANGED <<catalog, committed>>
    <2>1. Now.do = "take"
      BY <1>12 DEF TakeSection
    <2>2. TakeOld
      BY <1>12, <2>1, NextIsSection
    <2>3. PICK more : more = of \cap AddressesOf(committed.table, old)
      OBVIOUS
    <2>4. Midway(old, new, rest, taken \cup more)' /\ UNCHANGED <<catalog, committed>>
      BY <1>10, <1>12, <2>2, <2>3, TakePlace
    <2>5. taken \cup more = both
      BY <1>2, <1>12, <2>3
    <2>6. Midway(old, new, rest, both)'
      BY <2>4, <2>5
    <2> QED  BY <1>7, <2>4, <2>6
  <1>13. CASE todo = all /\ Moved(old, new, {}, {}, {}, {})
    <2>1. Now = TakeSection(old, new, V4) /\ V4 \in SUBSET Ip
      BY <1>8, <1>13, WrapperAssumption DEF Now
    <2>2. {} \cap V4 = {} /\ most = {} \cup (V4 \cap ips) /\ {} \in SUBSET Ip
      BY <1>3
    <2>3. Renames(old, new, Tail(all), most)' /\ UNCHANGED <<catalog, committed>>
      BY <1>8, <1>12, <1>13, <2>1, <2>2
    <2> QED  BY <1>6, <1>9, <2>3
  <1>14. CASE todo = Tail(all) /\ Moved(old, new, most, most, most, most)
    <2>1. Now = TakeSection(old, new, Ip \ V4) /\ Tail(todo) = <<>> /\ todo # <<>>
      BY <1>8, <1>14 DEF Now
    <2>2. most \cap (Ip \ V4) = {}
      BY <1>3
    <2>3. ips = most \cup ((Ip \ V4) \cap ips) /\ Ip \ V4 \in SUBSET Ip
      BY <1>3
    <2>4. Renames(old, new, <<>>, ips)' /\ UNCHANGED <<catalog, committed>>
      BY <1>8, <1>12, <1>14, <2>1, <2>2, <2>3
    <2> QED  BY <1>6, <1>9, <2>4
  <1>15. CASE Midway(old, new, all, {})
    <2>1. Renames(old, new, all, {})' /\ UNCHANGED <<catalog, committed>>
      BY <1>11, <1>15
    <2> QED  BY <1>6, <1>9, <2>1
  <1>16. CASE Midway(old, new, Tail(all), most)
    <2>1. Renames(old, new, Tail(all), most)' /\ UNCHANGED <<catalog, committed>>
      BY <1>11, <1>16
    <2> QED  BY <1>6, <1>9, <2>1
  <1>17. CASE Midway(old, new, <<>>, ips)
    <2>1. CASE Midway(old, new, <<>>, ips)' /\ UNCHANGED <<catalog, committed>>
      BY <1>6, <1>7, <1>9, <2>1
    <2>2. CASE todo' = <<>> /\ Moved(old, new, ips, ips, ips, ips) /\ UNCHANGED stores
      BY <1>2, <1>10, <2>2, RenameEnded
    <2> QED  BY <1>8, <1>17, <2>1, <2>2, MidwayNext
  <1> QED  BY <1>4, <1>5, <1>13, <1>14, <1>15, <1>16, <1>17

\* A call begins with nothing changed.
LEMMA CallBegins ==
    ASSUME WrapperInv, Next, todo = <<>>
    PROVE  CallInv' /\ CallStep
  <1> DEFINE c == committed.table
  <1>1. CallInv /\ Unchanged
    BY ZonePlaces DEF WrapperInv
  <1>2. Caller /\ UNCHANGED stores
    BY NextIsCall DEF Caller, Add, RemoveAddress, RenameCall, RegisterZone, DeregisterZone, Call
  <1>3. UNCHANGED <<fwd, reverseZones, scan, ptrs, catalog>>
    BY <1>2 DEF stores
  <1>4. Ptr' = Ptr /\ Registered' = Registered
    BY <1>3 DEF Ptr, Registered
  <1>5. committed' = committed => Unchanged'
    BY <1>1, <1>3, <1>4 DEF Unchanged, Made
  <1>6. committed' = IF todo' = <<>> THEN Current' ELSE committed
    BY DEF Next
  <1>7. ASSUME committed' = committed,
               \/ \E name \in DnsName, ip \in Ip : Adding(name, ip)' \/ Removing(name, ip)'
               \/ \E z \in Zone : Zoning(z)'
               \/ \E old, new \in DnsName : Renamed(old, new)'
        PROVE  CallInv' /\ CallStep
    BY <1>1, <1>3, <1>7, CallGoesOn DEF CallInv
  <1>8. ASSUME NEW name \in DnsName, NEW ip \in Ip, Add(name, ip)
        PROVE  committed' = committed /\ Adding(name, ip)'
    <2>1. todo' = UpsertSections(name, ip)
      BY <1>8 DEF Add, Call
    <2>2. committed' = committed
      BY <1>6, <2>1 DEF UpsertSections
    <2> QED  BY <1>5, <2>1, <2>2 DEF Adding
  <1>9. ASSUME NEW name \in DnsName, NEW ip \in Ip, RemoveAddress(name, ip)
        PROVE  committed' = committed /\ Removing(name, ip)'
    <2>1. todo' = <<[do |-> "remove", name |-> name, ip |-> ip]>>
      BY <1>9 DEF RemoveAddress, Call
    <2>2. committed' = committed
      BY <1>6, <2>1
    <2> QED  BY <1>5, <2>1, <2>2 DEF Removing
  <1>10. ASSUME NEW z \in Zone, RegisterZone(z) \/ DeregisterZone(z)
         PROVE  committed' = committed /\ Zoning(z)'
    <2>1. todo' \in {ZoneSections("insert", z), ZoneSections("delete", z)}
      BY <1>10 DEF RegisterZone, DeregisterZone, Call
    <2>2. committed' = committed
      BY <1>6, <2>1 DEF ZoneSections
    <2> QED  BY <1>5, <2>1, <2>2 DEF Zoning
  <1>11. ASSUME NEW old \in DnsName, NEW new \in DnsName, RenameCall(old, new)
         PROVE  committed' = committed /\ Renamed(old, new)'
    <2> DEFINE all == RenameSections(old, new)
    <2>1. todo' = all /\ all # <<>>
      BY <1>11, RenameSectionsFacts DEF RenameCall, Call
    <2>2. committed' = committed
      BY <1>6, <2>1
    <2>3. Moved(old, new, {}, {}, {}, {})'
      <3>1. (c.fwd \ ({old} \X {})) \cup ({new} \X {}) = c.fwd
        OBVIOUS
      <3>2. PtrAt(old, {}) = {} /\ PtrAt(new, {}) = {}
        BY PtrAtNone
      <3>3. PtrAt(old, {})' = PtrAt(old, {}) /\ PtrAt(new, {})' = PtrAt(new, {})
        BY <1>3, PtrAtStable
      <3>4. fwd = c.fwd /\ Ptr = c.ptr /\ Registered = c.zones /\ catalog = reverseZones
        BY <1>1 DEF Unchanged, Made
      <3> QED  BY <1>3, <1>4, <2>2, <3>1, <3>2, <3>3, <3>4 DEF Moved, Made
    <2> HIDE DEF all
    <2>4. Renames(old, new, all, {})'
      BY <2>1, <2>3 DEF Renames
    <2> QED  BY <2>2, <2>4 DEF Renamed, all
  <1>12. CASE \E name \in DnsName, ip \in Ip : Add(name, ip) \/ RemoveAddress(name, ip)
    BY <1>7, <1>8, <1>9, <1>12
  <1>13. CASE \E old, new \in DnsName : RenameCall(old, new)
    BY <1>7, <1>11, <1>13
  <1>14. CASE \E z \in Zone : RegisterZone(z) \/ DeregisterZone(z)
    BY <1>7, <1>10, <1>14
  <1> QED  BY <1>2, <1>12, <1>13, <1>14 DEF Caller

\* Every step keeps the call in one of its places and is one of RecordCalls.
LEMMA CallNext ==
    ASSUME WrapperInv, WrapperTypeOK', [Next]_vars
    PROVE  CallInv' /\ CallStep
  <1>1. CASE UNCHANGED vars
    <2>1. UNCHANGED <<fwd, reverseZones, scan, ptrs, catalog, todo, committed>>
      BY <1>1 DEF vars, stores
    <2>2. Ptr' = Ptr /\ Registered' = Registered /\ CatalogPtr' = CatalogPtr /\ Current' = Current
      BY <2>1 DEF Ptr, Registered, CatalogPtr, Current
    <2>3. \A name, ips : PtrAt(name, ips)' = PtrAt(name, ips)
      BY <2>1, PtrAtStable
    <2>4. \A f, p : Made(f, p)' <=> Made(f, p)
      BY <2>1, <2>2 DEF Made
    <2>5. Unchanged' <=> Unchanged
      BY <2>1, <2>4 DEF Unchanged
    <2>6. \A name, ip : (Adding(name, ip)' <=> Adding(name, ip)) /\ (Removing(name, ip)' <=> Removing(name, ip))
      BY <2>1, <2>4, <2>5 DEF Adding, Removing
    <2>7. \A z : Zoning(z)' <=> Zoning(z)
      BY <2>1, <2>2, <2>5 DEF Zoning
    <2>8. \A old, new, taken, forward, gone, reverse :
            Moved(old, new, taken, forward, gone, reverse)' <=> Moved(old, new, taken, forward, gone, reverse)
      BY <2>1, <2>2, <2>3 DEF Moved, Made
    <2>9. ASSUME NEW old, NEW new, NEW rest, NEW taken
          PROVE  Renames(old, new, rest, taken)' <=> Renames(old, new, rest, taken)
      BY <2>1, <2>8, Zenon DEF Renames
    <2>10. \A old, new : Renamed(old, new)' <=> Renamed(old, new)
      BY <2>1, <2>9 DEF Renamed
    <2>11. CallInv'
      BY <2>1, <2>2, <2>5, <2>6, <2>7, <2>10 DEF WrapperInv, CallInv
    <2> QED  BY <2>1, <2>11 DEF CallStep, Calls!vars
  <1>2. CASE Next
    <2>1. \/ todo = <<>>
          \/ \E name \in DnsName, ip \in Ip : Adding(name, ip) \/ Removing(name, ip)
          \/ \E z \in Zone : Zoning(z)
          \/ \E old, new \in DnsName : Renamed(old, new)
      BY DEF WrapperInv, CallInv
    <2> QED  BY <1>2, <2>1, CallBegins, AddingNext, RemovingNext, ZoningNext, RenamedNext
  <1> QED  BY <1>1, <1>2

\* Initially no call is in progress and both tables are empty.
LEMMA WrapperInit == Init => WrapperInv /\ Calls!Init
  <1> SUFFICES ASSUME Init PROVE WrapperInv /\ Calls!Init
    OBVIOUS
  <1>1. WrapperTypeOK
    BY WrapperTypeInit
  <1>2. Registered = {} /\ Ptr = {} /\ catalog = reverseZones /\ {z \in Zone : catalog[z] # None} = {}
    BY DEF Init, Registered, Ptr
  <1>3. AuthoritiesInv
    BY DEF Init, AuthoritiesInv, Fresh
  <1>4. CallInv
    BY <1>2 DEF Init, CallInv, Unchanged, Made, Current
  <1>5. Calls!Init
    BY <1>2 DEF Init, Current, Calls!Init, Calls!EmptyTable
  <1> QED  BY <1>1, <1>3, <1>4, <1>5 DEF WrapperInv

\* Each step keeps WrapperInv and is a step of RecordCalls or none.
LEMMA WrapperNext == WrapperInv /\ [Next]_vars => WrapperInv' /\ CallStep
  BY WrapperTypeNext, AuthoritiesNext, CallNext DEF WrapperInv
-----------------------------------------------------------------------------
(***************************************************************************)
(* What holds between any two sections of a call of AuthorityWrapper,      *)
(* whatever queries read in between: the types, no authority for two       *)
(* zones, and what the call has made of the records and zones so far.      *)
(***************************************************************************)
THEOREM WrapperInvariant == ResolverSpec => []WrapperInv
  <1>1. Spec => []WrapperInv
    BY WrapperInit, WrapperNext, PTL DEF Spec
  <1> QED  BY <1>1, WrapperSteps, PTL

(***************************************************************************)
(* table.rs:98-239, monitor.rs:534-580.  AuthorityWrapper, lock by lock,   *)
(* implements RecordCalls: every call is one step of the record table and  *)
(* the catalog, which it takes when it ends.                               *)
(***************************************************************************)
THEOREM CallsAtomicHolds == ResolverSpec => CallsAtomic
  <1>1. Spec => CallsAtomic
    BY WrapperInit, WrapperNext, PTL DEF Spec, CallsAtomic, Calls!Spec, CallStep
  <1> QED  BY <1>1, WrapperSteps, PTL

(***************************************************************************)
(* monitor.rs:543-548, 571-578.  reverse_zones and the catalog name        *)
(* different authorities for a zone only until the call that changes the   *)
(* zone reaches the catalog.                                               *)
(***************************************************************************)
THEOREM CatalogFollowsHolds == ResolverSpec => []CatalogFollows
  <1>1. ASSUME WrapperInv PROVE CatalogFollows
    <2>1. CallInv /\ TypeOK
      BY <1>1 DEF WrapperInv, WrapperTypeOK
    <2>2. CASE todo = <<>> \/ Now.do # "catalog"
      <3>1. catalog = reverseZones
        BY <2>1, <2>2, ZonePlaces DEF Unchanged, Made
      <3> QED  BY <3>1 DEF CatalogFollows
    <2>3. CASE todo # <<>> /\ Now.do = "catalog"
      <3>1. /\ reverseZones = [catalog EXCEPT ![Now.zone] = Now.authority]
            /\ Now.zone \in Zone /\ todo = <<Now>>
        BY <2>1, <2>3, ZonePlaces
      <3>2. \A z \in Zone : catalog[z] # reverseZones[z] => z = Now.zone /\ reverseZones[z] = Now.authority
        BY <2>1, <3>1 DEF TypeOK
      <3>3. 1 \in Pending("catalog") /\ todo[1] = Now
        <4>1. 1 \in DOMAIN todo /\ todo[1] = Now
          BY <3>1
        <4> QED  BY <2>3, <4>1 DEF Pending
      <3> QED  BY <3>2, <3>3 DEF CatalogFollows
    <2> QED  BY <2>2, <2>3
  <1> QED  BY <1>1, WrapperInvariant, PTL
-----------------------------------------------------------------------------
(***************************************************************************)
(* What queries see of a rename.                                           *)
(***************************************************************************)

\* Wherever a rename is: its sections left are of these two names, the
\* addresses it has taken and not re-added are on their way, and those whose
\* old PTR record it has not removed are left in its move.
RenameShaped(old, new, taken) ==
    /\ \A i \in Renaming : todo[i].old = old /\ todo[i].new = new
    /\ Renaming # {}
    /\ \E forward, gone, reverse \in SUBSET taken :
         /\ reverse \subseteq forward
         /\ Moved(old, new, taken, forward, gone, reverse)
         /\ \A ip \in taken \ forward : InFlight(ip)
         /\ \A ip \in taken \ gone : Leaving(old, ip)

\* Each place of a rename has that shape.
LEMMA RenamesShape ==
    ASSUME NEW old \in DnsName, NEW new \in DnsName, NEW taken \in SUBSET Ip, NEW rest \in Seq(Sections),
           \A j \in DOMAIN rest : rest[j].do = "take" /\ rest[j].old = old /\ rest[j].new = new,
           Renames(old, new, rest, taken)
    PROVE  RenameShaped(old, new, taken)
  <1>1. CASE todo = rest /\ rest # <<>> /\ Moved(old, new, taken, taken, taken, taken)
    <2>1. \A i \in Renaming : todo[i].old = old /\ todo[i].new = new
      BY <1>1 DEF Renaming, Pending
    <2>2. 1 \in DOMAIN rest
      BY <1>1
    <2>3. 1 \in Renaming
      BY <1>1, <2>2 DEF Renaming, Pending
    <2>4. taken \in SUBSET taken /\ taken \ taken = {}
      OBVIOUS
    <2> QED  BY <1>1, <2>1, <2>3, <2>4 DEF RenameShaped
  <1>2. ASSUME NEW left \in SUBSET taken
        PROVE  LET moving == Moving(old, new, left, rest)
               IN  /\ moving \in Seq(Sections)
                   /\ \A j \in DOMAIN moving :
                        /\ moving[j].do \in {"take", "move"}
                        /\ moving[j].old = old /\ moving[j].new = new
                   /\ \E j \in DOMAIN moving : moving[j].do = "move" /\ moving[j].old = old /\ moving[j].ips = left
    <2> DEFINE moving == Moving(old, new, left, rest)
               x == MoveSection(old, new, left)
    <2>1. moving \in Seq(Sections) /\ moving # <<>> /\ Head(moving) = x /\ Tail(moving) = rest
      <3>1. left \in SUBSET Ip
        OBVIOUS
      <3> QED  BY <3>1, MovingFacts, ZenonT(60)
    <2>2. x.do = "move" /\ x.old = old /\ x.new = new /\ x.ips = left
      BY DEF MoveSection
    <2> HIDE DEF x, moving, Sections
    <2>3. /\ \A j \in DOMAIN moving : moving[j] = x \/ \E k \in DOMAIN rest : moving[j] = rest[k]
          /\ \E j \in DOMAIN moving : moving[j] = x
      BY <2>1, Elements
    <2>4. /\ \A j \in DOMAIN moving : moving[j].do \in {"take", "move"} /\ moving[j].old = old /\ moving[j].new = new
          /\ \E j \in DOMAIN moving : moving[j].do = "move" /\ moving[j].old = old /\ moving[j].ips = left
      BY <2>2, <2>3
    <2> QED  BY <2>1, <2>4 DEF moving
  <1>3. ASSUME NEW left \in SUBSET taken, todo = Moving(old, new, left, rest),
               Moved(old, new, taken, taken \ left, taken \ left, taken \ left)
        PROVE  RenameShaped(old, new, taken)
    <2>1. /\ \A i \in Renaming : todo[i].old = old /\ todo[i].new = new
          /\ \E i \in Pending("move") : todo[i].old = old /\ todo[i].ips = left
      BY <1>2, <1>3 DEF Renaming, Pending
    <2>2. taken \ (taken \ left) = left
      OBVIOUS
    <2>3. \A ip \in left : InFlight(ip) /\ Leaving(old, ip)
      BY <2>1 DEF InFlight, Leaving
    <2> QED  BY <1>3, <2>1, <2>2, <2>3 DEF Renaming, RenameShaped
  <1>4. ASSUME NEW left \in SUBSET taken, NEW ip \in taken \ left,
               todo = UpsertSections(new, ip) \o Moving(old, new, left, rest),
               Moved(old, new, taken, taken \ (left \cup {ip}), taken \ left, taken \ (left \cup {ip}))
        PROVE  RenameShaped(old, new, taken)
    <2> DEFINE moving == Moving(old, new, left, rest)
               x == AppendSection(new, ip)
               y == AppendPtrSection(new, ip)
               after == <<y>> \o moving
    <2>1. moving \in Seq(Sections)
      BY <1>2
    <2>2. x.do = "append" /\ x.ip = ip /\ y.do = "append_ptr"
      BY DEF AppendSection, AppendPtrSection
    <2>3. /\ todo \in Seq(Sections) /\ todo # <<>> /\ Head(todo) = x /\ Tail(todo) = after
          /\ after \in Seq(Sections) /\ after # <<>> /\ Head(after) = y /\ Tail(after) = moving
      <3>1. todo = UpsertSections(new, ip) \o moving /\ ip \in Ip
        BY <1>4
      <3> HIDE DEF moving
      <3> QED  BY <2>1, <3>1, UpsertingFacts, SMTT(30)
    <2> HIDE DEF moving, x, y, after
    <2>4. /\ \A i \in DOMAIN after : after[i] = y \/ \E j \in DOMAIN moving : after[i] = moving[j]
          /\ \A j \in DOMAIN moving : \E i \in DOMAIN after : after[i] = moving[j]
      BY <2>3, Elements, ZenonT(30)
    <2>5. /\ \A i \in DOMAIN todo : todo[i] = x \/ \E j \in DOMAIN after : todo[i] = after[j]
          /\ \E i \in DOMAIN todo : todo[i] = x
          /\ \A j \in DOMAIN after : \E i \in DOMAIN todo : todo[i] = after[j]
      BY <2>3, Elements
    <2>9. /\ \A j \in DOMAIN moving : moving[j].do \in {"take", "move"} /\ moving[j].old = old /\ moving[j].new = new
          /\ \E j \in DOMAIN moving : moving[j].do = "move" /\ moving[j].old = old /\ moving[j].ips = left
      BY <1>2 DEF moving
    <2>10. \A i \in Renaming : todo[i].old = old /\ todo[i].new = new
      BY <2>2, <2>4, <2>5, <2>9 DEF Renaming, Pending
    <2>11. \E i \in Pending("move") : todo[i].old = old /\ todo[i].ips = left
      BY <2>4, <2>5, <2>9 DEF Pending
    <2>12. \E i \in Pending("append") : todo[i].ip = ip
      BY <2>2, <2>5 DEF Pending
    <2>13. \A a \in left \cup {ip} : InFlight(a)
      BY <2>11, <2>12 DEF InFlight
    <2>14. \A a \in left : Leaving(old, a)
      BY <2>11 DEF Leaving
    <2>15. taken \ (taken \ (left \cup {ip})) = left \cup {ip} /\ taken \ (taken \ left) = left
      BY <1>4
    <2> QED  BY <1>4, <2>10, <2>11, <2>13, <2>14, <2>15 DEF Renaming, RenameShaped
  <1>5. ASSUME NEW left \in SUBSET taken, NEW ip \in taken \ left,
               todo = <<AppendPtrSection(new, ip)>> \o Moving(old, new, left, rest),
               Moved(old, new, taken, taken \ left, taken \ left, taken \ (left \cup {ip}))
        PROVE  RenameShaped(old, new, taken)
    <2> DEFINE moving == Moving(old, new, left, rest)
               y == AppendPtrSection(new, ip)
    <2>1. moving \in Seq(Sections)
      BY <1>2
    <2>2. y.do = "append_ptr"
      BY DEF AppendPtrSection
    <2>3. todo \in Seq(Sections) /\ todo # <<>> /\ Head(todo) = y /\ Tail(todo) = moving
      BY <1>5, <2>1, UpsertingFacts
    <2> HIDE DEF moving, y
    <2>4. /\ \A i \in DOMAIN todo : todo[i] = y \/ \E j \in DOMAIN moving : todo[i] = moving[j]
          /\ \A j \in DOMAIN moving : \E i \in DOMAIN todo : todo[i] = moving[j]
      BY <2>3, Elements
    <2>5. /\ \A j \in DOMAIN moving : moving[j].do \in {"take", "move"} /\ moving[j].old = old /\ moving[j].new = new
          /\ \E j \in DOMAIN moving : moving[j].do = "move" /\ moving[j].old = old /\ moving[j].ips = left
      BY <1>2 DEF moving
    <2>6. \A i \in Renaming : todo[i].old = old /\ todo[i].new = new
      BY <2>2, <2>4, <2>5 DEF Renaming, Pending
    <2>7. \E i \in Pending("move") : todo[i].old = old /\ todo[i].ips = left
      BY <2>4, <2>5 DEF Pending
    <2>8. \A a \in left : InFlight(a) /\ Leaving(old, a)
      BY <2>7 DEF InFlight, Leaving
    <2> DEFINE most == taken \ left
               others == taken \ (left \cup {ip})
    <2>9. /\ most \in SUBSET taken /\ others \in SUBSET taken /\ others \subseteq most
          /\ Moved(old, new, taken, most, most, others)
          /\ \A a \in taken \ most : a \in left
      BY <1>5
    <2>10. Renaming # {}
      BY <2>7 DEF Renaming
    <2> HIDE DEF most, others
    <2> QED  BY <2>6, <2>8, <2>9, <2>10 DEF RenameShaped
  <1>6. \/ todo = rest /\ rest # <<>> /\ Moved(old, new, taken, taken, taken, taken)
        \/ \E left \in SUBSET taken :
             \/ /\ todo = Moving(old, new, left, rest)
                /\ Moved(old, new, taken, taken \ left, taken \ left, taken \ left)
             \/ \E ip \in taken \ left :
                  \/ /\ todo = UpsertSections(new, ip) \o Moving(old, new, left, rest)
                     /\ Moved(old, new, taken, taken \ (left \cup {ip}), taken \ left, taken \ (left \cup {ip}))
                  \/ /\ todo = <<AppendPtrSection(new, ip)>> \o Moving(old, new, left, rest)
                     /\ Moved(old, new, taken, taken \ left, taken \ left, taken \ (left \cup {ip}))
    BY Zenon DEF Renames
  <1> HIDE DEF RenameShaped, Moved, Moving, UpsertSections, AppendPtrSection
  <1> QED  BY <1>1, <1>3, <1>4, <1>5, <1>6, Zenon

\* Every place of a rename has that shape.
LEMMA RenamedShape ==
    ASSUME NEW old \in DnsName, NEW new \in DnsName, Renamed(old, new)
    PROVE  \E taken \in SUBSET AddressesOf(committed.table, old) : RenameShaped(old, new, taken)
  <1> DEFINE ips == AddressesOf(committed.table, old)
             all == RenameSections(old, new)
  <1>1. ips \in SUBSET Ip /\ ips \cap V4 \in SUBSET Ip /\ {} \in SUBSET Ip
    BY DEF AddressesOf
  <1>2. all \in Seq(Sections) /\ Tail(all) \in Seq(Sections) /\ <<>> \in Seq(Sections)
    BY RenameSectionsFacts
  <1>3. /\ \A j \in DOMAIN all : all[j].do = "take" /\ all[j].old = old /\ all[j].new = new
        /\ \A j \in DOMAIN Tail(all) : /\ Tail(all)[j].do = "take"
                                       /\ Tail(all)[j].old = old /\ Tail(all)[j].new = new
    BY DEF RenameSections
  <1>4. Renames(old, new, all, {}) \/ Renames(old, new, Tail(all), ips \cap V4) \/ Renames(old, new, <<>>, ips)
    BY DEF Renamed
  <1> HIDE DEF ips, all
  <1>5. CASE Renames(old, new, all, {})
    <2>1. RenameShaped(old, new, {})
      BY <1>1, <1>2, <1>3, <1>5, RenamesShape
    <2> QED  BY <2>1 DEF ips
  <1>6. CASE Renames(old, new, Tail(all), ips \cap V4)
    <2>1. RenameShaped(old, new, ips \cap V4)
      BY <1>1, <1>2, <1>3, <1>6, RenamesShape
    <2> QED  BY <2>1 DEF ips
  <1>7. CASE Renames(old, new, <<>>, ips)
    <2>1. \A j \in DOMAIN <<>> : <<>>[j].do = "take" /\ <<>>[j].old = old /\ <<>>[j].new = new
      OBVIOUS
    <2>2. RenameShaped(old, new, ips)
      BY <1>1, <1>2, <1>7, <2>1, RenamesShape
    <2> QED  BY <2>2 DEF ips
  <1> QED  BY <1>4, <1>5, <1>6, <1>7

\* Only a rename has sections of renames left.
LEMMA OthersRename ==
    ASSUME \/ todo = <<>>
           \/ \E name, ip : Adding(name, ip) \/ Removing(name, ip)
           \/ \E z : Zoning(z)
    PROVE  Renaming = {}
  <1>1. \A i \in DOMAIN todo : todo[i].do \notin {"take", "move"}
    <2>1. ASSUME NEW name, NEW ip, Adding(name, ip) PROVE \A i \in DOMAIN todo : todo[i].do \notin {"take", "move"}
      BY <2>1 DEF Adding, UpsertSections, AppendPtrSection
    <2>2. ASSUME NEW name, NEW ip, Removing(name, ip) PROVE \A i \in DOMAIN todo : todo[i].do \notin {"take", "move"}
      BY <2>2 DEF Removing
    <2>3. ASSUME NEW z, Zoning(z) PROVE \A i \in DOMAIN todo : todo[i].do \notin {"take", "move"}
      BY <2>3 DEF Zoning, ZoneSections, CatalogSection
    <2>4. CASE todo = <<>>
      BY <2>4
    <2> QED  BY <2>1, <2>2, <2>3, <2>4
  <1> QED  BY <1>1 DEF Renaming, Pending

(***************************************************************************)
(* table.rs:143-168.  In the middle of a rename an address that either     *)
(* name had is found under one of them or is on its way, and none is found *)
(* under both that was not under both before the call.                     *)
(***************************************************************************)
THEOREM RenameMovesHolds == ResolverSpec => []RenameMoves
  <1>1. ASSUME WrapperInv PROVE RenameMoves
    <2> DEFINE c == committed.table
    <2>1. CASE \E old, new \in DnsName : Renamed(old, new)
      <3>1. PICK old \in DnsName, new \in DnsName : Renamed(old, new)
        BY <2>1
      <3>2. PICK taken \in SUBSET AddressesOf(c, old) : RenameShaped(old, new, taken)
        BY <3>1, RenamedShape
      <3>3. PICK forward \in SUBSET taken :
              /\ fwd = (c.fwd \ ({old} \X taken)) \cup ({new} \X forward)
              /\ \A ip \in taken \ forward : InFlight(ip)
        BY <3>2 DEF RenameShaped, Moved, Made
      <3>4. \A i \in Renaming : todo[i].old = old /\ todo[i].new = new
        BY <3>2 DEF RenameShaped
      <3>5. \A ip \in taken : <<old, ip>> \in c.fwd
        BY DEF AddressesOf
      <3> HIDE DEF c
      <3>6. ASSUME NEW ip \in Ip
            PROVE  /\ <<old, ip>> \in c.fwd \/ <<new, ip>> \in c.fwd =>
                        <<old, ip>> \in fwd \/ <<new, ip>> \in fwd \/ InFlight(ip)
                   /\ <<old, ip>> \in fwd /\ <<new, ip>> \in fwd =>
                        <<old, ip>> \in c.fwd /\ <<new, ip>> \in c.fwd
        <4>1. <<old, ip>> \in fwd <=> (<<old, ip>> \in c.fwd /\ ip \notin taken) \/ (new = old /\ ip \in forward)
          BY <3>3
        <4>2. <<new, ip>> \in fwd <=> (<<new, ip>> \in c.fwd /\ ~(new = old /\ ip \in taken)) \/ ip \in forward
          BY <3>3
        <4> QED  BY <3>3, <3>5, <4>1, <4>2
      <3>7. ASSUME NEW i \in Renaming, NEW ip \in Ip
            PROVE  LET before == {n \in {todo[i].old, todo[i].new} : <<n, ip>> \in c.fwd}
                       now == {n \in {todo[i].old, todo[i].new} : <<n, ip>> \in fwd}
                   IN  /\ before # {} => now # {} \/ InFlight(ip)
                       /\ now = {todo[i].old, todo[i].new} => before = {todo[i].old, todo[i].new}
        BY <3>4, <3>6
      <3> QED  BY <3>7 DEF RenameMoves, c
    <2>2. CASE \/ todo = <<>>
               \/ \E name, ip : Adding(name, ip) \/ Removing(name, ip)
               \/ \E z : Zoning(z)
      BY <2>2, OthersRename DEF RenameMoves
    <2> QED  BY <1>1, <2>1, <2>2 DEF WrapperInv, CallInv
  <1> QED  BY <1>1, WrapperInvariant, PTL

-----------------------------------------------------------------------------
(***************************************************************************)
(* Where no two registered zones cover one address, a PTR record has a     *)
(* forward record between any two sections, but for those being withdrawn. *)
(***************************************************************************)
ZonesApart == OneZoneEach([fwd |-> fwd, zones |-> Registered, ptr |-> Ptr])

BackedInv == Backed(committed.table) /\ OneZoneEach(committed.table)

\* An empty table is backed.
LEMMA BackedInit == Init => BackedInv
  <1> SUFFICES ASSUME Init PROVE BackedInv
    OBVIOUS
  <1>1. Registered = {} /\ Ptr = {}
    BY DEF Init, Registered, Ptr
  <1> QED  BY <1>1 DEF Init, Current, BackedInv, Backed, OneZoneEach, Matches

\* A call that ends is a step of RecordCalls, and each of those keeps the PTR
\* records backed.
LEMMA BackedNext ==
    ASSUME WrapperInv, BackedInv, ZonesApart', [Next]_vars, CallStep
    PROVE  BackedInv'
  <1> DEFINE t == committed.table
  <1>1. t \in Table /\ Backed(t) /\ OneZoneEach(t)
    BY DEF BackedInv, WrapperInv, WrapperTypeOK
  <1>2. CASE UNCHANGED committed
    BY <1>2 DEF BackedInv, Backed, OneZoneEach, Matches
  <1>3. CASE committed' = Current'
    <2>1. committed'.table = [fwd |-> fwd, zones |-> Registered, ptr |-> Ptr]'
      BY <1>3 DEF Current
    <2>2. OneZoneEach(committed'.table)
      BY <2>1 DEF ZonesApart
    <2>3. CASE committed'.table = t
      BY <1>1, <2>3 DEF BackedInv
    <2>4. CASE Calls!Next
      <3>1. ASSUME NEW name \in DnsName, NEW ip \in Ip, Calls!Add(name, ip) \/ Calls!Remove(name, ip)
            PROVE  Backed(committed'.table)
        <4>1. PICK f \in Finders(t, {ip}) :
                \/ committed'.table = Upsert(t, f, {<<name, ip>>})
                \/ committed'.table = RemoveAddresses(t, f, {<<name, ip>>})
          BY <3>1, CallsOperators DEF Calls!Add, Calls!Remove
        <4>2. {ip} \in SUBSET Ip /\ {<<name, ip>>} \in SUBSET (DnsName \X {ip})
          OBVIOUS
        <4> DEFINE ips == {ip}
                   pairs == {<<name, ip>>}
        <4> HIDE DEF ips, pairs, t
        <4>3. ips \in SUBSET Ip /\ pairs \in SUBSET (DnsName \X ips) /\ f \in Finders(t, ips)
          BY <4>2 DEF ips, pairs
        <4>4. Backed(Upsert(t, f, pairs)) /\ Backed(RemoveAddresses(t, f, pairs))
          BY <1>1, <4>3, UpsertBacked, RemoveAddressesBacked
        <4> QED  BY <4>1, <4>4 DEF pairs
      <3>2. ASSUME NEW old \in DnsName, NEW new \in DnsName, Calls!Renames(old, new)
            PROVE  Backed(committed'.table)
        <4>1. PICK f \in Finders(t, AddressesOf(t, old)) : committed'.table = Rename(t, f, old, new)
          BY <3>2, CallsOperators DEF Calls!Renames
        <4> QED  BY <1>1, <4>1, RenameBacked
      <3>3. ASSUME NEW z \in Zone, Calls!Register(z) \/ Calls!Deregister(z)
            PROVE  Backed(committed'.table)
        <4>1. \/ committed'.table = AddReverseZones(t, {z})
              \/ committed'.table = RemoveReverseZones(t, {z})
          BY <3>3, CallsOperators DEF Calls!Register, Calls!Deregister
        <4>2. {z} \in SUBSET Zone
          OBVIOUS
        <4> QED  BY <1>1, <4>1, <4>2, ReverseZonesBacked
      <3>4. Backed(committed'.table)
        BY <2>4, <3>1, <3>2, <3>3 DEF Calls!Next
      <3> QED  BY <2>2, <3>4 DEF BackedInv
    <2> QED  BY <2>2, <2>3, <2>4, Zenon DEF CallStep, Calls!vars, BackedInv
  <1> QED  BY <1>2, <1>3 DEF Next, vars

\* What a rename leaves of the PTR records is backed or about to leave.
LEMMA RenameLeavesForward ==
    ASSUME WrapperInv, BackedInv, NEW old \in DnsName, NEW new \in DnsName, Renamed(old, new),
           NEW r \in Ptr
    PROVE  <<r[3], r[2]>> \in fwd \/ Leaving(r[3], r[2])
  <1> DEFINE c == committed.table
  <1>1. PICK taken \in SUBSET AddressesOf(c, old) : RenameShaped(old, new, taken)
    BY RenamedShape
  <1>2. PICK forward \in SUBSET taken, gone \in SUBSET taken, reverse \in SUBSET taken :
          /\ reverse \subseteq forward
          /\ Moved(old, new, taken, forward, gone, reverse)
          /\ \A ip \in taken \ gone : Leaving(old, ip)
    BY <1>1 DEF RenameShaped
  <1>3. /\ fwd = (c.fwd \ ({old} \X taken)) \cup ({new} \X forward)
        /\ Ptr = (c.ptr \ PtrAt(old, gone)) \cup PtrAt(new, reverse)
        /\ Registered = c.zones
    BY <1>2 DEF Moved, Made
  <1>4. TypeOK /\ c \in Table /\ taken \in SUBSET Ip
    BY DEF WrapperInv, WrapperTypeOK, AddressesOf
  <1>5. /\ PtrAt(old, gone) = {s \in Triple : s[3] = old /\ s[2] \in gone /\ scan[s[2]] = s[1]}
        /\ PtrAt(new, reverse) = {s \in Triple : s[3] = new /\ s[2] \in reverse /\ scan[s[2]] = s[1]}
    BY <1>4, PtrAtFacts
  <1>6. CASE r \in PtrAt(new, reverse)
    BY <1>2, <1>3, <1>5, <1>6
  <1>7. CASE r \in c.ptr /\ r \notin PtrAt(old, gone)
    <2>1. r \in Triple /\ r[1] \in Matches(c, r[2]) /\ <<r[3], r[2]>> \in c.fwd
      BY <1>4, <1>7 DEF BackedInv, Backed, Table, Triple
    <2>2. CASE r[3] = old /\ r[2] \in gone
      <3>1. r[2] \in Ip /\ r[1] \in Registered /\ r[2] \in Covers[r[1]]
        BY <1>3, <2>1 DEF Matches, Triple
      <3>2. scan[r[2]] # None
        BY <1>4, <3>1, ScanFacts
      <3>3. scan[r[2]] \in Matches(c, r[2])
        BY <1>3, <1>4, <3>1, <3>2, ScanFacts, WrapperAssumption DEF Matches, Registered
      <3>4. scan[r[2]] = r[1]
        BY <2>1, <3>1, <3>3 DEF BackedInv, OneZoneEach
      <3> QED  BY <1>5, <1>7, <2>1, <2>2, <3>4
    <2>3. CASE r[3] # old \/ r[2] \notin taken
      <3>1. <<r[3], r[2]>> \in fwd
        BY <1>3, <2>1, <2>3
      <3> QED  BY <3>1
    <2> QED  BY <1>2, <2>2, <2>3
  <1> QED  BY <1>3, <1>6, <1>7

\* The same of every call.
LEMMA PtrBackedNow ==
    ASSUME WrapperInv, BackedInv, NEW r \in Ptr
    PROVE  <<r[3], r[2]>> \in fwd \/ Leaving(r[3], r[2])
  <1> DEFINE c == committed.table
  <1>1. \A s \in c.ptr : <<s[3], s[2]>> \in c.fwd
    BY DEF BackedInv, Backed
  <1>2. CASE Unchanged
    BY <1>1, <1>2 DEF Unchanged, Made
  <1>3. ASSUME NEW name \in DnsName, NEW ip \in Ip, Adding(name, ip)
        PROVE  <<r[3], r[2]>> \in fwd
    BY <1>1, <1>3 DEF Adding, Unchanged, Made
  <1>4. ASSUME NEW name \in DnsName, NEW ip \in Ip, Removing(name, ip)
        PROVE  <<r[3], r[2]>> \in fwd \/ Leaving(r[3], r[2])
    <2>1. CASE Unchanged
      BY <1>2, <2>1
    <2>2. CASE /\ todo = <<[do |-> "remove_ptr", name |-> name, ip |-> ip]>>
               /\ Made(c.fwd \ {<<name, ip>>}, c.ptr)
      <3>1. fwd = c.fwd \ {<<name, ip>>} /\ <<r[3], r[2]>> \in c.fwd
        BY <1>1, <2>2 DEF Made
      <3>2. 1 \in DOMAIN todo /\ todo[1].do = "remove_ptr" /\ todo[1].name = name /\ todo[1].ip = ip
        BY <2>2
      <3>3. Leaving(name, ip)
        BY <3>2 DEF Leaving, Pending
      <3> QED  BY <3>1, <3>3
    <2> QED  BY <1>4, <2>1, <2>2 DEF Removing
  <1>5. ASSUME NEW z \in Zone, Zoning(z)
        PROVE  <<r[3], r[2]>> \in fwd
    BY <1>1, <1>5 DEF Zoning, Unchanged, Made
  <1>6. ASSUME NEW old \in DnsName, NEW new \in DnsName, Renamed(old, new)
        PROVE  <<r[3], r[2]>> \in fwd \/ Leaving(r[3], r[2])
    BY <1>6, RenameLeavesForward
  <1> QED  BY <1>2, <1>3, <1>4, <1>5, <1>6 DEF WrapperInv, CallInv

\* Between calls, then, every PTR record has its forward record.
LEMMA BackedHolds == ResolverSpec /\ []ZonesApart => []BackedInv
  <1>1. WrapperInv /\ BackedInv /\ ZonesApart' /\ [Next]_vars => BackedInv'
    BY WrapperNext, BackedNext
  <1>2. Spec /\ []WrapperInv /\ []ZonesApart => []BackedInv
    BY <1>1, BackedInit, PTL DEF Spec
  <1> QED  BY <1>2, WrapperSteps, WrapperInvariant, PTL

(***************************************************************************)
(* table.rs:126-131, 213-228.  As long as no two registered zones cover    *)
(* one address, every PTR record that queries can see has its forward      *)
(* record, between any two sections of any call, but for the one record    *)
(* that the call in progress is about to withdraw.                         *)
(***************************************************************************)
THEOREM PtrHasForwardHolds == ResolverSpec /\ []ZonesApart => []PtrHasForward
  <1>1. ASSUME WrapperInv, BackedInv PROVE PtrHasForward
    BY <1>1, PtrBackedNow DEF PtrHasForward, Leaving
  <1> QED  BY <1>1, WrapperInvariant, BackedHolds, PTL

-----------------------------------------------------------------------------
(***************************************************************************)
(* The DNS side.                                                           *)
(***************************************************************************)
QueryState ==
    [at : {"idle", "asked", "queued", "reading", "answered", "failed"},
     key : Key \cup {None}, type : QType \cup {None}, data : (SUBSET DnsName) \cup (SUBSET Ip)]

\* A query waits for the catalog or reads it only if no static record has
\* answered it.
ReadersInv == \A q \in Query : queries[q].at \in {"queued", "reading"} => queries[q].key \notin StaticKeys

\* The type of a query only narrows its answer down.
LEMMA OfTypeFacts ==
    ASSUME NEW type, NEW key, NEW data
    PROVE  OfType(type, key, data) \subseteq data
  <1>1. CASE key \in Ip
    BY <1>1 DEF OfType
  <1>2. CASE key \notin Ip
    BY <1>2 DEF OfType
  <1> QED  BY <1>1, <1>2

\* A static record answers names with addresses and addresses with names.
LEMMA InterceptsType ==
    ASSUME NEW type, NEW key
    PROVE  OfType(type, key, Intercepts(key)) \in (SUBSET DnsName) \cup (SUBSET Ip)
  <1>1. \A r \in Records : r[1] \in DnsName /\ r[2] \in Ip
    BY ResolverAssumption DEF Pair
  <1>2. CASE key \in Ip
    <2>1. Intercepts(key) \subseteq DnsName
      BY <1>1, <1>2, ResolverAssumption DEF Intercepts
    <2> QED  BY <2>1, OfTypeFacts
  <1>3. CASE key \notin Ip
    <2>1. Intercepts(key) \subseteq Ip
      BY <1>1, <1>3 DEF Intercepts
    <2> QED  BY <2>1, OfTypeFacts
  <1> QED  BY <1>2, <1>3

\* So does the catalog.
LEMMA LookedUpType ==
    ASSUME NEW type, NEW key
    PROVE  OfType(type, key, LookedUp(key)) \in (SUBSET DnsName) \cup (SUBSET Ip)
  <1>1. CASE key \in Ip
    <2>1. LookedUp(key) \subseteq DnsName
      BY <1>1 DEF LookedUp
    <2> QED  BY <2>1, OfTypeFacts
  <1>2. CASE key \notin Ip
    <2>1. LookedUp(key) \subseteq Ip
      BY <1>2 DEF LookedUp
    <2> QED  BY <2>1, OfTypeFacts
  <1> QED  BY <1>1, <1>2

\* A reply changes the one query it is for, and ends it.
LEMMA Replied ==
    ASSUME queries \in [Query -> QueryState], NEW q \in Query,
           NEW data \in (SUBSET DnsName) \cup (SUBSET Ip), Reply(q, data)
    PROVE  /\ queries' \in [Query -> QueryState]
           /\ \A p \in Query \ {q} : queries'[p] = queries[p]
           /\ queries'[q].at \in {"answered", "failed"}
           /\ queries'[q].at = "answered" => queries'[q].data = data
  <1> DEFINE yes == [Idle EXCEPT !.at = "answered", !.data = data]
             no  == [Idle EXCEPT !.at = "failed"]
  <1>1. yes \in QueryState
    BY DEF QueryState, Idle
  <1>2. no \in QueryState
    BY DEF QueryState, Idle
  <1>3. yes.at = "answered" /\ yes.data = data /\ no.at = "failed"
    BY DEF Idle
  <1>4. PICK outcome \in {yes, no} : queries' = [queries EXCEPT ![q] = outcome]
    BY DEF Reply
  <1> HIDE DEF yes, no
  <1> QED  BY <1>1, <1>2, <1>3, <1>4

\* What each step of the DNS side does to the queries.
LEMMA QueriesNext ==
    ASSUME queries \in [Query -> QueryState], ReadersInv, [ResolverNext]_<<vars, resolverVars>>
    PROVE  /\ queries' \in [Query -> QueryState]
           /\ ReadersInv'
           /\ \A q \in Query : Answered(q) => Intercept(q) \/ Lookup(q)
           /\ \A q \in Query : queries'[q].at = "queued" /\ queries[q].at # "queued" => waiting /\ waiting' = waiting
  <1>1. ASSUME NEW q \in Query, Ask(q)
        PROVE  /\ queries' \in [Query -> QueryState] /\ ReadersInv'
               /\ \A p \in Query : queries'[p].at = queries[p].at \/ queries'[p].at = "asked"
    <2>1. PICK key \in Key : \E type \in Types(key) :
            queries' = [queries EXCEPT ![q] = [at |-> "asked", key |-> key, type |-> type, data |-> {}]]
      BY <1>1 DEF Ask
    <2>2. PICK type \in Types(key) :
            queries' = [queries EXCEPT ![q] = [at |-> "asked", key |-> key, type |-> type, data |-> {}]]
      BY <2>1
    <2> DEFINE asked == [at |-> "asked", key |-> key, type |-> type, data |-> {}]
    <2>3. asked \in QueryState /\ asked.at = "asked"
      BY <2>2 DEF QueryState, Types, QType
    <2>4. queries' = [queries EXCEPT ![q] = asked]
      BY <2>2
    <2> HIDE DEF asked
    <2>5. \A p \in Query : queries'[p] = IF p = q THEN asked ELSE queries[p]
      BY <2>4
    <2> QED  BY <2>3, <2>4, <2>5 DEF ReadersInv
  <1>2. ASSUME NEW q \in Query, Intercept(q) \/ Lookup(q)
        PROVE  /\ queries' \in [Query -> QueryState] /\ ReadersInv'
               /\ \A p \in Query \ {q} : queries'[p] = queries[p]
               /\ queries'[q].at \in {"answered", "failed"}
    <2>1. PICK data \in (SUBSET DnsName) \cup (SUBSET Ip) : Reply(q, data)
      BY <1>2, InterceptsType, LookedUpType DEF Intercept, Lookup
    <2> QED  BY <2>1, Replied DEF ReadersInv
  <1>3. ASSUME NEW q \in Query, ReadCatalog(q)
        PROVE  /\ queries' \in [Query -> QueryState] /\ ReadersInv'
               /\ \A p \in Query : queries'[p].at \in {queries[p].at, "queued", "reading"}
               /\ \A p \in Query : queries'[p].at = "queued" /\ queries[p].at # "queued" => waiting /\ waiting' = waiting
    <2> DEFINE place == IF waiting THEN "queued" ELSE "reading"
    <2>1. queries' = [queries EXCEPT ![q] = [queries[q] EXCEPT !.at = place]] /\ waiting' = waiting
      BY <1>3 DEF ReadCatalog
    <2>2. queries[q].key \notin StaticKeys
      BY <1>3 DEF ReadCatalog
    <2>3. [queries[q] EXCEPT !.at = place] \in QueryState
      BY DEF QueryState
    <2>4. [queries[q] EXCEPT !.at = place].at = place /\ [queries[q] EXCEPT !.at = place].key = queries[q].key
      BY DEF QueryState
    <2>5. \A p \in Query : queries'[p] = IF p = q THEN [queries[q] EXCEPT !.at = place] ELSE queries[p]
      BY <2>1
    <2>6. queries' \in [Query -> QueryState]
      BY <2>1, <2>3
    <2>7. \A p \in Query : queries'[p].at = IF p = q THEN place ELSE queries[p].at
      BY <2>4, <2>5
    <2>8. \A p \in Query : queries'[p].key = queries[p].key
      BY <2>4, <2>5
    <2> QED  BY <2>1, <2>2, <2>6, <2>7, <2>8 DEF ReadersInv
  <1>4. ASSUME NEW q \in Query, Forget(q)
        PROVE  /\ queries' \in [Query -> QueryState] /\ ReadersInv'
               /\ \A p \in Query : queries'[p].at \in {queries[p].at, "idle"}
    <2>1. queries' = [queries EXCEPT ![q] = Idle]
      BY <1>4 DEF Forget
    <2>2. Idle \in QueryState /\ Idle.at = "idle"
      BY DEF Idle, QueryState
    <2>3. \A p \in Query : queries'[p] = IF p = q THEN Idle ELSE queries[p]
      BY <2>1
    <2> QED  BY <2>1, <2>2, <2>3 DEF ReadersInv
  <1>5. ASSUME MonitorSection
        PROVE  /\ queries' \in [Query -> QueryState] /\ ReadersInv'
               /\ \A p \in Query : queries'[p].at \in {queries[p].at, "reading"} /\ queries'[p].at # "queued"
    <2>1. queries' = [q \in Query |-> IF queries[q].at = "queued"
                                      THEN [queries[q] EXCEPT !.at = "reading"] ELSE queries[q]]
      BY <1>5 DEF MonitorSection
    <2>2. \A p \in Query : /\ [queries[p] EXCEPT !.at = "reading"] \in QueryState
                           /\ [queries[p] EXCEPT !.at = "reading"].at = "reading"
                           /\ [queries[p] EXCEPT !.at = "reading"].key = queries[p].key
      BY DEF QueryState
    <2>3. queries' \in [Query -> QueryState]
      BY <2>1, <2>2
    <2>4. \A p \in Query : /\ queries'[p].at = IF queries[p].at = "queued" THEN "reading" ELSE queries[p].at
                           /\ queries'[p].key = queries[p].key
      BY <2>1, <2>2
    <2> QED  BY <2>3, <2>4 DEF ReadersInv
  <1>6. CASE AwaitCatalog \/ UNCHANGED <<vars, resolverVars>>
    BY <1>6 DEF AwaitCatalog, resolverVars, ReadersInv, Answered
  <1>7. CASE \E q \in Query : Ask(q)
    BY <1>1, <1>7 DEF Answered
  <1>8. CASE \E q \in Query : Intercept(q) \/ Lookup(q)
    BY <1>2, <1>8 DEF Answered
  <1>9. CASE \E q \in Query : ReadCatalog(q)
    BY <1>3, <1>9 DEF Answered
  <1>10. CASE \E q \in Query : Forget(q)
    BY <1>4, <1>10 DEF Answered
  <1>11. CASE MonitorSection
    BY <1>5, <1>11 DEF Answered
  <1> QED  BY <1>6, <1>7, <1>8, <1>9, <1>10, <1>11 DEF ResolverNext

\* A section of the monitor leaves no reader waiting.
LEMMA NobodyQueued ==
    ASSUME queries \in [Query -> QueryState], MonitorSection
    PROVE  \A q \in Query : queries'[q].at # "queued"
  <1>1. \A p \in Query : [queries[p] EXCEPT !.at = "reading"].at = "reading"
    BY DEF QueryState
  <1> QED  BY <1>1 DEF MonitorSection

(***************************************************************************)
(* dns_listener.rs:130-165, monitor.rs:546, 576.  The types of the DNS     *)
(* side; queries wait in line for the catalog only behind the monitor, and *)
(* the monitor only for the section that writes it.                        *)
(***************************************************************************)
THEOREM ResolverInvariant == ResolverSpec => [](ResolverTypeOK /\ ReadersInv)
  <1> DEFINE Inv == ResolverTypeOK /\ ReadersInv
  <1>1. ResolverInit /\ TypeOK => Inv
    <2> SUFFICES ASSUME ResolverInit, TypeOK PROVE Inv
      OBVIOUS
    <2>1. Idle \in QueryState /\ Idle.at = "idle"
      BY DEF Idle, QueryState
    <2>2. queries = [q \in Query |-> Idle] /\ waiting = FALSE
      BY DEF ResolverInit
    <2> HIDE DEF Idle
    <2>3. queries \in [Query -> QueryState] /\ \A q \in Query : queries[q].at = "idle"
      BY <2>1, <2>2
    <2> QED  BY <2>2, <2>3 DEF ResolverTypeOK, ReadersInv, QueryState, At
  <1>2. Inv /\ TypeOK' /\ [ResolverNext]_<<vars, resolverVars>> => Inv'
    <2> SUFFICES ASSUME Inv, TypeOK', [ResolverNext]_<<vars, resolverVars>> PROVE Inv'
      OBVIOUS
    <2>1. queries \in [Query -> QueryState]
      BY DEF ResolverTypeOK, QueryState
    <2>2. /\ queries' \in [Query -> QueryState]
          /\ ReadersInv'
          /\ \A q \in Query : queries'[q].at = "queued" /\ queries[q].at # "queued" => waiting /\ waiting' = waiting
          /\ MonitorSection => \A q \in Query : queries'[q].at # "queued"
      BY <2>1, QueriesNext, NobodyQueued
    <2>3. \/ MonitorSection /\ waiting' = FALSE
          \/ AwaitCatalog /\ waiting' = TRUE /\ Turn("catalog")'
          \/ UNCHANGED <<vars, waiting>>
      BY DEF ResolverNext, MonitorSection, AwaitCatalog, Ask, Intercept, ReadCatalog, Lookup, Forget, resolverVars,
             vars, Turn, Now
    <2>4. waiting' \in BOOLEAN /\ (waiting' => Turn("catalog")')
      <3>1. CASE UNCHANGED <<vars, waiting>>
        <4>1. UNCHANGED <<todo, waiting>>
          BY <3>1 DEF vars
        <4> QED  BY <4>1 DEF ResolverTypeOK, Turn, Now
      <3> QED  BY <2>3, <3>1
    <2>5. At("queued")' # {} => waiting'
      BY <2>2, <2>3 DEF ResolverTypeOK, At
    <2> QED  BY <2>2, <2>4, <2>5 DEF ResolverTypeOK, QueryState
  <1>3. WrapperInv => TypeOK
    BY DEF WrapperInv, WrapperTypeOK
  <1> QED  BY <1>1, <1>2, <1>3, WrapperInvariant, PTL DEF ResolverSpec

\* The types alone.
THEOREM ResolverTypeOKHolds == ResolverSpec => []ResolverTypeOK
  BY ResolverInvariant, PTL
-----------------------------------------------------------------------------
\* Only a query that reads the catalog, or one for a static record, is answered.
LEMMA Answers ==
    ASSUME ResolverTypeOK, ReadersInv, [ResolverNext]_<<vars, resolverVars>>,
           NEW q \in Query, Answered(q)
    PROVE  LET key == queries[q].key
           IN  \/ /\ key \in StaticKeys
                  /\ queries'[q].data = OfType(queries[q].type, key, Intercepts(key))
               \/ /\ key \notin StaticKeys
                  /\ queries'[q].data = OfType(queries[q].type, key, LookedUp(key))
  <1>1. queries \in [Query -> QueryState]
    BY DEF ResolverTypeOK, QueryState
  <1>2. Intercept(q) \/ Lookup(q)
    BY <1>1, QueriesNext
  <1>3. CASE Intercept(q)
    <2> DEFINE data == OfType(queries[q].type, queries[q].key, Intercepts(queries[q].key))
    <2>1. data \in (SUBSET DnsName) \cup (SUBSET Ip)
      BY InterceptsType
    <2>2. Reply(q, data) /\ queries[q].key \in StaticKeys
      BY <1>3 DEF Intercept
    <2> HIDE DEF data
    <2>3. queries'[q].data = data
      BY <1>1, <2>1, <2>2, Replied DEF Answered
    <2> QED  BY <2>2, <2>3 DEF data
  <1>4. CASE Lookup(q)
    <2> DEFINE data == OfType(queries[q].type, queries[q].key, LookedUp(queries[q].key))
    <2>1. data \in (SUBSET DnsName) \cup (SUBSET Ip)
      BY LookedUpType
    <2>2. Reply(q, data) /\ queries[q].key \notin StaticKeys
      BY <1>4 DEF Lookup, ReadersInv
    <2> HIDE DEF data
    <2>3. queries'[q].data = data
      BY <1>1, <2>1, <2>2, Replied DEF Answered
    <2> QED  BY <2>2, <2>3 DEF data
  <1> QED  BY <1>2, <1>3, <1>4

\* What the catalog answers a reverse lookup with.
LEMMA ReverseLookup ==
    ASSUME NEW ip \in Ip
    PROVE  LookedUp(ip) = {n \in DnsName : \E z \in Closest(Served, ip) : <<z, ip, n>> \in CatalogPtr}
  <1>1. \A z \in Closest(Served, ip) : z \in Zone /\ catalog[z] # None
    BY DEF Closest, Served
  <1>2. \A z \in Closest(Served, ip), n \in DnsName : <<ip, n>> \in ptrs[catalog[z]] <=> <<z, ip, n>> \in CatalogPtr
    BY <1>1 DEF CatalogPtr
  <1> DEFINE zones == Closest(Served, ip)
  <1>3. LookedUp(ip) = UNION {{n \in DnsName : <<ip, n>> \in ptrs[catalog[z]]} : z \in zones}
    BY DEF LookedUp
  <1>4. LookedUp(ip) = {n \in DnsName : \E z \in zones : <<ip, n>> \in ptrs[catalog[z]]}
    <2> HIDE DEF zones
    <2> QED  BY <1>3
  <1> QED  BY <1>2, <1>4

\* The PTR records that queries find have their forward records too.
LEMMA CatalogPtrBacked ==
    ASSUME WrapperInv, BackedInv, NEW r \in CatalogPtr
    PROVE  <<r[3], r[2]>> \in fwd \/ Leaving(r[3], r[2])
  <1>1. CASE todo = <<>> \/ Now.do # "catalog"
    <2>1. catalog = reverseZones
      BY <1>1, ZonePlaces DEF WrapperInv, CallInv, Unchanged, Made
    <2>2. r \in Ptr
      BY <2>1, CatalogPtrFacts DEF WrapperInv, WrapperTypeOK
    <2> QED  BY <2>2, PtrBackedNow
  <1>2. CASE todo # <<>> /\ Now.do = "catalog"
    <2>1. Zoning(Now.zone)
      BY <1>2, ZonePlaces DEF WrapperInv
    <2>2. todo \notin {ZoneSections("insert", Now.zone), ZoneSections("delete", Now.zone)}
      BY <1>2 DEF ZoneSections, Now
    <2>3. fwd = committed.table.fwd /\ CatalogPtr = committed.table.ptr
      BY <2>1, <2>2 DEF Zoning
    <2> QED  BY <2>3 DEF BackedInv, Backed
  <1> QED  BY <1>1, <1>2

(***************************************************************************)
(* dns_listener.rs:57-77, table.rs:126-131, 213-228.  As long as no two    *)
(* registered zones cover one address, a reverse lookup is answered with   *)
(* names that resolve back to the address, but for the record that is      *)
(* being withdrawn and for names that a static record hides.               *)
(***************************************************************************)
THEOREM PtrConfirmedHolds == ResolverSpec /\ []ZonesApart => PtrConfirmed
  <1> DEFINE Confirmed ==
        \A q \in Query : Answered(q) /\ queries[q].key \in Ip =>
          LET ip == queries[q].key
          IN \A name \in queries'[q].data :
               \/ Resolves(name, ip)
               \/ Leaving(name, ip)
               \/ ip \notin StaticKeys /\ name \in StaticKeys
  <1>1. ASSUME WrapperInv, BackedInv, ResolverTypeOK, ReadersInv, [ResolverNext]_<<vars, resolverVars>>,
               NEW q \in Query, Answered(q), queries[q].key \in Ip, NEW name \in queries'[q].data
        PROVE  LET ip == queries[q].key
               IN  \/ Resolves(name, ip)
                   \/ Leaving(name, ip)
                   \/ ip \notin StaticKeys /\ name \in StaticKeys
    <2> DEFINE ip == queries[q].key
    <2>1. \/ ip \in StaticKeys /\ name \in OfType(queries[q].type, ip, Intercepts(ip))
          \/ ip \notin StaticKeys /\ name \in OfType(queries[q].type, ip, LookedUp(ip))
      BY <1>1, Answers
    <2>2. ip \in Ip
      BY <1>1
    <2> HIDE DEF ip
    <2>3. CASE ip \in StaticKeys /\ name \in Intercepts(ip)
      <3>1. \A s \in Records : s = <<s[1], s[2]>> /\ s[1] \in DnsName /\ s[2] \in Ip
        BY ResolverAssumption DEF Pair
      <3>2. PICK s \in Records : s[2] = ip /\ s[1] = name
        BY <2>2, <2>3, <3>1, ResolverAssumption DEF Intercepts
      <3>3. name \in StaticKeys /\ ip \in Intercepts(name)
        BY <3>2 DEF StaticKeys, Intercepts
      <3> QED  BY <3>3 DEF Resolves, ip
    <2>4. CASE ip \notin StaticKeys /\ name \in LookedUp(ip)
      <3>1. PICK z \in Closest(Served, ip) : <<z, ip, name>> \in CatalogPtr
        BY <2>2, <2>4, ReverseLookup
      <3>2. <<name, ip>> \in fwd \/ Leaving(name, ip)
        BY <1>1, <3>1, CatalogPtrBacked
      <3> QED  BY <2>4, <3>2 DEF Resolves, ip
    <2> QED  BY <2>1, <2>3, <2>4, OfTypeFacts
  <1>2. WrapperInv /\ BackedInv /\ ResolverTypeOK /\ ReadersInv /\ [ResolverNext]_<<vars, resolverVars>>
          => Confirmed
    BY <1>1
  <1>3. WrapperInv /\ BackedInv /\ ResolverTypeOK /\ ReadersInv /\ [ResolverNext]_<<vars, resolverVars>>
          => [Confirmed]_<<vars, resolverVars>>
    BY <1>2
  <1> HIDE DEF Confirmed
  <1>4. ResolverSpec /\ []ZonesApart => [][Confirmed]_<<vars, resolverVars>>
    BY <1>3, WrapperInvariant, BackedHolds, ResolverInvariant, PTL DEF ResolverSpec
  <1> QED  BY <1>4 DEF PtrConfirmed, Confirmed

\* The name of a rename in progress is one that it is about.
LEMMA RenameAbout ==
    ASSUME NEW old \in DnsName, NEW new \in DnsName, NEW taken, RenameShaped(old, new, taken)
    PROVE  AboutName(old) /\ AboutName(new)
  BY DEF RenameShaped, AboutName

\* So far a call has changed only records of the names it is about.
LEMMA ChangedAbout ==
    ASSUME WrapperInv, NEW name \in DnsName, ~AboutName(name)
    PROVE  /\ \A ip \in Ip : <<name, ip>> \in fwd <=> <<name, ip>> \in committed.table.fwd
           /\ \A z \in Zone, ip \in Ip : <<z, ip, name>> \in CatalogPtr <=> <<z, ip, name>> \in committed.table.ptr
  <1> DEFINE c == committed.table
             Same == /\ \A ip \in Ip : <<name, ip>> \in fwd <=> <<name, ip>> \in c.fwd
                     /\ \A z \in Zone, ip \in Ip : <<z, ip, name>> \in CatalogPtr <=> <<z, ip, name>> \in c.ptr
  <1>1. TypeOK
    BY DEF WrapperInv, WrapperTypeOK
  <1>2. CASE Unchanged
    BY <1>1, <1>2, CatalogPtrFacts DEF Unchanged, Made
  <1>3. ASSUME NEW n \in DnsName, NEW ip \in Ip, Adding(n, ip) PROVE Same
    <2>1. CASE todo = <<AppendPtrSection(n, ip)>> /\ Made(c.fwd \cup {<<n, ip>>}, c.ptr)
      <3>1. 1 \in DOMAIN todo /\ todo[1].do = "append_ptr" /\ todo[1].name = n
        BY <2>1 DEF AppendPtrSection
      <3>2. 1 \notin Renaming
        BY <3>1 DEF Renaming, Pending
      <3>3. AboutName(n)
        BY <3>1, <3>2 DEF AboutName
      <3> QED  BY <1>1, <2>1, <3>3, CatalogPtrFacts DEF Made
    <2> QED  BY <1>2, <1>3, <2>1 DEF Adding
  <1>4. ASSUME NEW n \in DnsName, NEW ip \in Ip, Removing(n, ip) PROVE Same
    <2>1. CASE /\ todo = <<[do |-> "remove_ptr", name |-> n, ip |-> ip]>>
               /\ Made(c.fwd \ {<<n, ip>>}, c.ptr)
      <3>1. 1 \in DOMAIN todo /\ todo[1].do = "remove_ptr" /\ todo[1].name = n
        BY <2>1
      <3>2. 1 \notin Renaming
        BY <3>1 DEF Renaming, Pending
      <3>3. AboutName(n)
        BY <3>1, <3>2 DEF AboutName
      <3> QED  BY <1>1, <2>1, <3>3, CatalogPtrFacts DEF Made
    <2> QED  BY <1>2, <1>4, <2>1 DEF Removing
  <1>5. ASSUME NEW z \in Zone, Zoning(z) PROVE Same
    BY <1>2, <1>5 DEF Zoning
  <1>6. ASSUME NEW old \in DnsName, NEW new \in DnsName, Renamed(old, new) PROVE Same
    <2>1. PICK taken \in SUBSET AddressesOf(c, old) : RenameShaped(old, new, taken)
      BY <1>6, RenamedShape
    <2>2. name # old /\ name # new
      BY <2>1, RenameAbout
    <2>3. PICK forward \in SUBSET taken, gone \in SUBSET taken, reverse \in SUBSET taken :
            Moved(old, new, taken, forward, gone, reverse)
      BY <2>1 DEF RenameShaped
    <2>4. /\ fwd = (c.fwd \ ({old} \X taken)) \cup ({new} \X forward)
          /\ CatalogPtr = (c.ptr \ PtrAt(old, gone)) \cup PtrAt(new, reverse)
      BY <1>1, <2>3, CatalogPtrFacts DEF Moved, Made
    <2>5. taken \in SUBSET Ip
      BY DEF AddressesOf
    <2>6. (\A r \in PtrAt(old, gone) : r[3] = old) /\ (\A r \in PtrAt(new, reverse) : r[3] = new)
      BY <1>1, <2>5, PtrAtFacts
    <2> QED  BY <2>2, <2>4, <2>6
  <1> QED  BY <1>2, <1>3, <1>4, <1>5, <1>6 DEF WrapperInv, CallInv

\* An answer that differs from the one before the call does so in records of
\* the names that the call is about.
LEMMA LookupSettled ==
    ASSUME WrapperInv, NEW key, NEW type, NEW x,
           (x \in OfType(type, key, LookedUp(key))) # (x \in OfType(type, key, Settled(key)))
    PROVE  AboutName(IF key \in Ip THEN x ELSE key)
  <1> DEFINE c == committed.table
  <1>1. x \in LookedUp(key) \/ x \in Settled(key)
    BY OfTypeFacts
  <1>2. ~(x \in LookedUp(key) <=> x \in Settled(key))
    <2>1. CASE key \in Ip
      BY <2>1 DEF OfType
    <2>2. CASE key \notin Ip
      BY <2>2 DEF OfType
    <2> QED  BY <2>1, <2>2
  <1>3. Served = committed.catalog
    BY DEF WrapperInv, CallInv, Current, Served
  <1>4. CASE key \in Ip
    <2>1. \A z \in Closest(Served, key) : z \in Zone
      BY DEF Closest, Served
    <2>2. x \in DnsName
      BY <1>1, <1>4 DEF LookedUp, Settled
    <2>3. x \in LookedUp(key) <=> \E z \in Closest(Served, key) : <<z, key, x>> \in CatalogPtr
      BY <1>4, <2>2, ReverseLookup
    <2>4. x \in Settled(key) <=> \E z \in Closest(Served, key) : <<z, key, x>> \in c.ptr
      BY <1>3, <1>4, <2>2 DEF Settled
    <2>5. AboutName(x)
      BY <1>2, <1>4, <2>1, <2>2, <2>3, <2>4, ChangedAbout
    <2> QED  BY <1>4, <2>5
  <1>5. CASE key \notin Ip
    <2>1. x \in LookedUp(key) <=> x \in Ip /\ <<key, x>> \in fwd
      BY <1>5 DEF LookedUp
    <2>2. x \in Settled(key) <=> x \in Ip /\ <<key, x>> \in c.fwd
      BY <1>5 DEF Settled, AddressesOf
    <2>3. key \in DnsName /\ x \in Ip
      <3>1. fwd \subseteq DnsName \X Ip /\ c.fwd \subseteq DnsName \X Ip
        BY DEF WrapperInv, WrapperTypeOK, TypeOK, Table, Pair
      <3> QED  BY <1>1, <2>1, <2>2, <3>1
    <2>4. AboutName(key)
      BY <1>2, <2>1, <2>2, <2>3, ChangedAbout
    <2> QED  BY <1>5, <2>4
  <1> QED  BY <1>4, <1>5

(***************************************************************************)
(* table.rs:98-239, monitor.rs:534-580.  A query that is answered in the   *)
(* middle of a call differs from the answer before the call in records of  *)
(* the names the call is about only; zones come and go in one piece.       *)
(***************************************************************************)
THEOREM RepliesSettledHolds == ResolverSpec => RepliesSettled
  <1> DEFINE Settles ==
        \A q \in Query : Answered(q) /\ queries[q].key \notin StaticKeys =>
          LET key == queries[q].key
              before == OfType(queries[q].type, key, Settled(key))
          IN \A x \in Key :
               (x \in queries'[q].data) # (x \in before) =>
                   AboutName(IF key \in Ip THEN x ELSE key)
  <1>1. ASSUME WrapperInv, ResolverTypeOK, ReadersInv, [ResolverNext]_<<vars, resolverVars>>,
               NEW q \in Query, Answered(q), queries[q].key \notin StaticKeys, NEW x \in Key,
               (x \in queries'[q].data) # (x \in OfType(queries[q].type, queries[q].key, Settled(queries[q].key)))
        PROVE  AboutName(IF queries[q].key \in Ip THEN x ELSE queries[q].key)
    <2>1. queries'[q].data = OfType(queries[q].type, queries[q].key, LookedUp(queries[q].key))
      BY <1>1, Answers
    <2> DEFINE key == queries[q].key
               type == queries[q].type
    <2>2. (x \in OfType(type, key, LookedUp(key))) # (x \in OfType(type, key, Settled(key)))
      BY <1>1, <2>1
    <2> HIDE DEF key, type
    <2>3. AboutName(IF key \in Ip THEN x ELSE key)
      BY <1>1, <2>2, LookupSettled
    <2> QED  BY <2>3 DEF key
  <1>2. WrapperInv /\ ResolverTypeOK /\ ReadersInv /\ [ResolverNext]_<<vars, resolverVars>>
          => [Settles]_<<vars, resolverVars>>
    BY <1>1
  <1> HIDE DEF Settles
  <1>3. ResolverSpec => [][Settles]_<<vars, resolverVars>>
    BY <1>2, WrapperInvariant, ResolverInvariant, PTL DEF ResolverSpec
  <1> QED  BY <1>3 DEF RepliesSettled, Settles

=============================================================================
