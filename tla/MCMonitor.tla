------------------------------ MODULE MCMonitor ------------------------------
(***************************************************************************)
(* Small instances of Monitor for TLC.  A configuration picks the networks,*)
(* the containers and the names; the rest follows.                         *)
(*                                                                         *)
(* n1 is 10.0.0.0/23 (zones zA and zB) with an IPv6 subnet (z6); n2 is     *)
(* 10.0.0.0/24, whose only zone is n1's zA; n3 is 10.0.0.0/16, whose zone  *)
(* zW contains zA and zB; n4 and n5 are apart (zC and zD).  Docker accepts *)
(* one of n1, n2 and n3 only after the others are gone.                    *)
(***************************************************************************)
EXTENDS Monitor, TLC

CONSTANTS c1, c2,                       \* containers
          n1, n2, n3, n4, n5,           \* networks
          zA, zB, zC, zD, zW, z6,       \* zones
          a1, b1, d1, d2, e1, v1,       \* addresses
          web, db, blue, long,          \* names of containers
          dbFqdn, blueFqdn,             \* DNS names; web has webFqdn, long none
          None                          \* no label

Label == INSTANCE Names WITH Word <- {"api", "web", "shop"}

\* A container of project shop, and the name that the service web has there.
Of(service, number) == [number |-> number, service |-> <<service>>, project |-> "shop"]
webFqdn == Label!ServiceName(Of("web", 1))

AllZonesOf == n1 :> {zA, zB, z6} @@ n2 :> {zA} @@ n3 :> {zW} @@ n4 :> {zC} @@ n5 :> {zD}
AllCovers ==
    zA :> {a1} @@ zB :> {b1} @@ zC :> {d1, d2} @@ zD :> {e1} @@ zW :> {a1, b1} @@ z6 :> {v1}
AllOffers ==
    n1 :> {{a1, v1}, {b1}} @@ n2 :> {{a1}} @@ n3 :> {{b1}} @@ n4 :> {{d1}, {d2}} @@ n5 :> {{e1}}
AllFqdn == web :> webFqdn @@ db :> dbFqdn @@ blue :> blueFqdn @@ long :> BadName

MCZonesOf == [n \in Network |-> AllZonesOf[n]]
MCZone == UNION {MCZonesOf[n] : n \in Network}
MCCovers == [z \in MCZone |-> AllCovers[z]]
MCIp == UNION {MCCovers[z] : z \in MCZone}
MCSubnet == [n \in Network |-> UNION {MCCovers[z] : z \in MCZonesOf[n]}]
MCOffers == [n \in Network |-> AllOffers[n]]
MCInitName == [c \in Container |-> IF c = c1 THEN web ELSE db]
MCFqdn == [x \in CName |-> AllFqdn[x]]
MCDnsName ==
    ({MCFqdn[x] : x \in CName} \ {BadName}) \cup
        UNION {Label!LabelNames(Of(s, i)) : s \in {"api", "web"}, i \in 1 .. 2}

\* Two one-off runs of a service: both have the number 1.
SharedComposeNames == [c \in Container |-> Label!LabelNames(Of("api", 1))]
\* c1 is called like the service it runs.
OwnComposeNames == [c \in Container |-> Label!LabelNames(Of("web", None))]
\* docker run
NoComposeNames ==
    [c \in Container |-> Label!LabelNames([Of("web", 1) EXCEPT !.service = None])]

\* Bound: the listener subscribed before start() listed anything.
NothingMissed == hazard \cap {"missed_network", "missed_container"} = {}

\* Bound: the behaviours that Converges is about.  Another flag, once raised,
\* stays raised (missed_container is withdrawn by the listing of start()), and
\* Converges then says nothing.
Unwaived == hazard \subseteq Harmless \cup {"missed_container"}

SettlingSpec == Init /\ [][Next /\ Unwaived']_vars /\ Fairness
=============================================================================
